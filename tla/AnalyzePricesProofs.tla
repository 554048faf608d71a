------------------------- MODULE AnalyzePricesProofs -------------------------
(***************************************************************************)
(* Proofs about AnalyzePrices, for every set of corporate actions, every   *)
(* number of days and whatever the bounds.                                 *)
(***************************************************************************)
EXTENDS AnalyzePrices, TLAPS

-----------------------------------------------------------------------------
(* Type correctness *)

DailyMemory ==
    [pc : {"idle", "read", "write"}, now : Days, day : Days, known : BOOLEAN]
AdjusterMemory ==
    [pc : {"idle", "list", "write", "record"}, held : SUBSET Days,
     copy : [Days -> [Actions -> Nat]], for : SUBSET Actions]
Table == [Days -> [Actions -> Nat]]

LEMMA IdleTypes ==
    /\ Raw \in [Actions -> Nat]
    /\ [d \in Days |-> Raw] \in Table
    /\ IdleDaily \in DailyMemory
    /\ IdleAdjuster \in AdjusterMemory
  <1>1. Raw \in [Actions -> Nat]
    BY DEF Raw
  <1>2. [d \in Days |-> Raw] \in Table
    BY <1>1 DEF Table
  <1>3. 0 \in Days
    BY AnalyzeAssumption DEF Days
  <1>4. IdleDaily \in DailyMemory
    BY <1>3 DEF IdleDaily, DailyMemory
  <1>5. IdleAdjuster \in AdjusterMemory
    BY <1>2 DEF IdleAdjuster, AdjusterMemory, Table
  <1>6. QED
    BY <1>1, <1>2, <1>4, <1>5

\* What dividing a row by the ratio of an action makes of its history.
LEMMA AppliedOnceMore ==
    ASSUME NEW f \in [Actions -> Nat], NEW a \in Actions
    PROVE  /\ [f EXCEPT ![a] = @ + 1] \in [Actions -> Nat]
           /\ [f EXCEPT ![a] = @ + 1][a] = f[a] + 1
           /\ \A x \in Actions \ {a} : [f EXCEPT ![a] = @ + 1][x] = f[x]
  <1>1. f[a] + 1 \in Nat
    OBVIOUS
  <1>2. QED
    BY <1>1

LEMMA TypesUnfolded ==
    TypeOK <=> /\ today \in Days /\ listed \in BOOLEAN
               /\ stored \in SUBSET Days
               /\ times \in Table
               /\ recorded \in SUBSET Actions
               /\ daily \in DailyMemory
               /\ adjuster \in [Adjusters -> AdjusterMemory]
               /\ faults \in 0 .. MaxFaults
  BY DEF TypeOK, Table, DailyMemory, AdjusterMemory

LEMMA TypeInit == Init => TypeOK
  <1> SUFFICES ASSUME Init PROVE TypeOK
    OBVIOUS
  <1>1. today \in Days /\ faults \in 0 .. MaxFaults
    BY AnalyzeAssumption DEF Init, Days
  <1>2. QED
    BY <1>1, IdleTypes, TypesUnfolded DEF Init

\* The daily batch: its memory, and the rows a day's transaction leaves.
LEMMA DailyKeepsType ==
    ASSUME TypeOK, BeginDaily \/ ReadBrands \/ CommitDay \/ DailyDies
    PROVE  TypeOK'
  <1>1. /\ today \in Days /\ listed \in BOOLEAN /\ stored \in SUBSET Days
        /\ times \in Table /\ recorded \in SUBSET Actions
        /\ daily \in DailyMemory /\ faults \in 0 .. MaxFaults
        /\ adjuster \in [Adjusters -> AdjusterMemory]
    BY TypesUnfolded
  <1>2. CASE BeginDaily
    <2>1. daily' \in DailyMemory
      BY <1>1, <1>2, IdleTypes DEF BeginDaily, DailyMemory
    <2>2. QED
      BY <1>1, <1>2, <2>1 DEF BeginDaily, table, TypeOK, Table, DailyMemory, AdjusterMemory
  <1>3. CASE ReadBrands
    <2>1. daily' \in DailyMemory
      BY <1>1, <1>3 DEF ReadBrands, DailyMemory
    <2>2. QED
      BY <1>1, <1>3, <2>1 DEF ReadBrands, table, TypeOK, Table, DailyMemory, AdjusterMemory
  <1>4. CASE CommitDay
    <2>1. PICK written \in {{}, {daily.day}}, kept \in SUBSET (stored \cup {daily.day}) :
              /\ stored' = kept
              /\ times' = [d \in Days |-> IF d \in kept \ written THEN times[d] ELSE Raw]
      BY <1>4 DEF CommitDay
    <2>2. daily.day \in Days
      BY <1>1 DEF DailyMemory
    <2>3. stored' \in SUBSET Days
      BY <1>1, <2>1, <2>2
    <2>4. times' \in Table
      BY <1>1, <2>1, IdleTypes DEF Table
    <2>5. daily' \in DailyMemory
      <3>1. daily.day > 0 => daily.day - 1 \in Days
        BY <2>2, AnalyzeAssumption DEF Days
      <3>2. CASE daily.day > 0 /\ daily' = [daily EXCEPT !.pc = "read", !.day = @ - 1]
        BY <1>1, <3>1, <3>2 DEF DailyMemory
      <3>3. CASE daily' = IdleDaily
        BY <3>3, IdleTypes
      <3>4. QED
        BY <1>4, <3>2, <3>3 DEF CommitDay, HasEarlier
    <2>6. QED
      BY <1>1, <1>4, <2>3, <2>4, <2>5
         DEF CommitDay, TypeOK, Table, DailyMemory, AdjusterMemory
  <1>5. CASE DailyDies
    <2>1. faults' \in 0 .. MaxFaults
      BY <1>1, <1>5, AnalyzeAssumption DEF DailyDies
    <2>2. QED
      BY <1>1, <1>5, <2>1, IdleTypes
         DEF DailyDies, table, TypeOK, Table, DailyMemory, AdjusterMemory
  <1>6. QED
    BY <1>2, <1>3, <1>4, <1>5

\* A step of an adjusting process that leaves the rows alone.
LEMMA AdjusterStepType ==
    ASSUME TypeOK, NEW p \in Adjusters, NEW c \in AdjusterMemory,
           adjuster' = [adjuster EXCEPT ![p] = c],
           recorded' \in SUBSET Actions, faults' \in 0 .. MaxFaults,
           UNCHANGED <<today, listed, table, daily>>
    PROVE  TypeOK'
  BY DEF TypeOK, table, AdjusterMemory

LEMMA AdjusterKeepsType ==
    ASSUME TypeOK, NEW p \in Adjusters,
           \/ \E a \in Actions : BeginAdjust(p, a)
           \/ ListRows(p) \/ WriteRows(p) \/ RecordAction(p) \/ AdjusterDies(p)
    PROVE  TypeOK'
  <1> DEFINE c == adjuster[p]
  <1>1. /\ stored \in SUBSET Days /\ times \in Table /\ recorded \in SUBSET Actions
        /\ faults \in 0 .. MaxFaults
        /\ adjuster \in [Adjusters -> AdjusterMemory]
        /\ c \in AdjusterMemory
    BY TypesUnfolded
  <1>2. ASSUME NEW a \in Actions, BeginAdjust(p, a)
        PROVE  TypeOK'
    <2>1. [IdleAdjuster EXCEPT !.pc = "list", !.for = {a}] \in AdjusterMemory
      BY IdleTypes DEF AdjusterMemory
    <2>2. QED
      BY <1>1, <1>2, <2>1, AdjusterStepType DEF BeginAdjust
  <1>3. CASE ListRows(p)
    <2>1. PICK m \in AdjusterMemory : adjuster' = [adjuster EXCEPT ![p] = m]
      <3>1. ASSUME NEW a \in Actions
            PROVE  [c EXCEPT !.pc = "write", !.held = stored \cap Before(a),
                             !.copy = times] \in AdjusterMemory
        BY <1>1 DEF AdjusterMemory, Table
      <3>2. c.for \subseteq Actions
        BY <1>1 DEF AdjusterMemory
      <3>3. QED
        BY <1>1, <1>3, <3>1, <3>2, IdleTypes DEF ListRows
    <2>2. QED
      BY <1>1, <1>3, <2>1, AdjusterStepType DEF ListRows
  <1>4. CASE WriteRows(p)
    <2>1. PICK a \in c.for :
              /\ stored' = stored \cup c.held
              /\ times' = [d \in Days |->
                     IF d \in c.held THEN [c.copy[d] EXCEPT ![a] = @ + 1] ELSE times[d]]
      BY <1>4 DEF WriteRows
    <2>1a. a \in Actions
      BY <1>1, <2>1 DEF AdjusterMemory
    <2>2. /\ c.held \in SUBSET Days /\ c.copy \in Table
      BY <1>1 DEF AdjusterMemory, Table
    <2>3. times' \in Table
      <3>1. ASSUME NEW d \in Days
            PROVE  times'[d] \in [Actions -> Nat]
        <4>1. c.copy[d] \in [Actions -> Nat] /\ times[d] \in [Actions -> Nat]
          BY <1>1, <2>2 DEF Table
        <4>2. [c.copy[d] EXCEPT ![a] = @ + 1] \in [Actions -> Nat]
          BY <2>1a, <4>1, AppliedOnceMore
        <4>3. QED
          BY <2>1, <4>1, <4>2
      <3>2. times' = [d \in Days |-> times'[d]]
        BY <2>1
      <3>3. QED
        BY <3>1, <3>2 DEF Table
    <2>4. [c EXCEPT !.pc = "record"] \in AdjusterMemory
      BY <1>1 DEF AdjusterMemory
    <2>5. adjuster' \in [Adjusters -> AdjusterMemory]
      BY <1>1, <1>4, <2>4 DEF WriteRows
    <2>6. stored' \in SUBSET Days
      BY <1>1, <2>1, <2>2
    <2>7. QED
      BY <1>1, <1>4, <2>3, <2>5, <2>6 DEF WriteRows, TypeOK, Table, AdjusterMemory
  <1>5. CASE RecordAction(p)
    <2>1. recorded' \in SUBSET Actions
      BY <1>1, <1>5 DEF RecordAction, AdjusterMemory
    <2>2. QED
      BY <1>1, <1>5, <2>1, IdleTypes, AdjusterStepType DEF RecordAction
  <1>6. CASE AdjusterDies(p)
    <2>1. faults' \in 0 .. MaxFaults
      BY <1>1, <1>6, AnalyzeAssumption DEF AdjusterDies
    <2>2. QED
      BY <1>1, <1>6, <2>1, IdleTypes, AdjusterStepType DEF AdjusterDies
  <1>7. QED
    BY <1>2, <1>3, <1>4, <1>5, <1>6

LEMMA TypeStep == TypeOK /\ [Next]_vars => TypeOK'
  <1> SUFFICES ASSUME TypeOK, [Next]_vars PROVE TypeOK'
    OBVIOUS
  <1>1. CASE BeginDaily \/ ReadBrands \/ CommitDay \/ DailyDies
    BY <1>1, DailyKeepsType
  <1>2. ASSUME NEW p \in Adjusters,
               \/ \E a \in Actions : BeginAdjust(p, a)
               \/ ListRows(p) \/ WriteRows(p) \/ RecordAction(p) \/ AdjusterDies(p)
        PROVE  TypeOK'
    BY <1>2, AdjusterKeepsType
  <1>3. CASE Delist
    BY <1>3, IdleTypes DEF Delist, TypeOK, Table
  <1>4. CASE Relist
    BY <1>4 DEF Relist, TypeOK, table
  <1>5. CASE NextDay
    BY <1>5, AnalyzeAssumption DEF NextDay, TypeOK, table, Days
  <1>6. CASE UNCHANGED vars
    BY <1>6 DEF vars, TypeOK
  <1>7. QED
    BY <1>1, <1>2, <1>3, <1>4, <1>5, <1>6 DEF Next

\* Type correctness of the analysis rows and of everything a batch holds in
\* memory, with any number of adjusting processes.
THEOREM AnalyzeTypeCorrect == Spec => []TypeOK
  BY TypeInit, TypeStep, PTL DEF Spec

-----------------------------------------------------------------------------
(* No action is applied twice without a crash, with one adjusting process *)

\* Actions whose rows are written and whose history row is still to come.
Unrecorded == UNION {adjuster[p].for : p \in {q \in Adjusters : adjuster[q].pc = "record"}}

\* How often an action may have been applied to a row by now.
Bound(a) == IF a \in recorded \cup Unrecorded THEN faults + 1 ELSE faults

RowsAreBounded == \A d \in Days, a \in Actions : times[d][a] <= Bound(a)
CopiesAreBounded ==
    \A p \in Adjusters : adjuster[p].pc = "write" =>
        \A d \in Days, a \in Actions : adjuster[p].copy[d][a] <= Bound(a)
AtWorkOnNew ==
    \A p \in Adjusters : adjuster[p].pc # "idle" =>
        /\ adjuster[p].for \cap recorded = {}
        /\ \A a, x \in adjuster[p].for : a = x

\* The inductive invariant.  An action gains its division when it leaves the
\* process's hands for the rows, and keeps it when it reaches the history; the
\* only way to lose track of a division is a crash in between.
OnceInv == RowsAreBounded /\ CopiesAreBounded /\ AtWorkOnNew

LEMMA OnceInit == Init => OnceInv
  <1> SUFFICES ASSUME Init PROVE OnceInv
    OBVIOUS
  <1>1. RowsAreBounded
    BY DEF Init, RowsAreBounded, Bound, Raw
  <1>2. CopiesAreBounded /\ AtWorkOnNew
    BY DEF Init, CopiesAreBounded, AtWorkOnNew, IdleAdjuster
  <1>3. QED
    BY <1>1, <1>2 DEF OnceInv

LEMMA PlusOneKeepsOrder ==
    ASSUME NEW x \in Nat, NEW y \in Nat, x <= y
    PROVE  x + 1 <= y + 1
  OBVIOUS

\* A step that lowers no bound, and only keeps or clears rows and copies.
LEMMA OnceStepInv ==
    ASSUME TypeOK, TypeOK', OnceInv,
           \A a \in Actions : Bound(a) <= Bound(a)',
           \A d \in Days, a \in Actions :
               times'[d][a] = times[d][a] \/ times'[d][a] = 0,
           \A p \in Adjusters : adjuster'[p].pc = "write" =>
               \/ adjuster[p].pc = "write" /\ adjuster'[p].copy = adjuster[p].copy
               \/ adjuster'[p].copy = times,
           AtWorkOnNew'
    PROVE  OnceInv'
  <1>1. ASSUME NEW a \in Actions
        PROVE  Bound(a) \in Nat /\ Bound(a)' \in Nat
    <2>1. faults \in Nat /\ faults' \in Nat
      BY AnalyzeAssumption DEF TypeOK
    <2>2. Bound(a) = faults \/ Bound(a) = faults + 1
      BY DEF Bound
    <2>3. Bound(a)' = faults' \/ Bound(a)' = faults' + 1
      BY DEF Bound
    <2> HIDE DEF Bound
    <2>4. QED
      BY <2>1, <2>2, <2>3
  <1>2. \A d \in Days, a \in Actions : times[d][a] \in Nat
    BY DEF TypeOK
  <1>3. RowsAreBounded'
    <2> SUFFICES ASSUME NEW d \in Days, NEW a \in Actions
                 PROVE  times'[d][a] <= Bound(a)'
      BY DEF RowsAreBounded
    <2>1. times[d][a] <= Bound(a)
      BY DEF OnceInv, RowsAreBounded
    <2> HIDE DEF Bound
    <2>2. QED
      BY <1>1, <1>2, <2>1
  <1>4. CopiesAreBounded'
    <2> SUFFICES ASSUME NEW p \in Adjusters, adjuster'[p].pc = "write",
                        NEW d \in Days, NEW a \in Actions
                 PROVE  adjuster'[p].copy[d][a] <= Bound(a)'
      BY DEF CopiesAreBounded
    <2>1. times[d][a] <= Bound(a)
      BY DEF OnceInv, RowsAreBounded
    <2>2. adjuster[p].pc = "write" => adjuster[p].copy[d][a] <= Bound(a)
      BY DEF OnceInv, CopiesAreBounded
    <2>3. adjuster'[p].copy[d][a] \in Nat
      BY DEF TypeOK
    <2>4. QED
      BY <1>1, <1>2, <2>1, <2>2, <2>3
  <1>5. QED
    BY <1>3, <1>4 DEF OnceInv

\* The steps of everything but the adjusting processes.
LEMMA OnceOthers ==
    ASSUME TypeOK, TypeOK', OnceInv,
           \/ BeginDaily \/ ReadBrands \/ CommitDay \/ DailyDies
           \/ Delist \/ Relist \/ NextDay \/ UNCHANGED vars
    PROVE  OnceInv'
  <1>1. recorded' = recorded /\ adjuster' = adjuster
    BY DEF BeginDaily, ReadBrands, CommitDay, DailyDies, Delist, Relist, NextDay, vars
  <1>1a. faults' \in Nat /\ faults \in Nat /\ faults <= faults'
    BY AnalyzeAssumption
       DEF BeginDaily, ReadBrands, CommitDay, DailyDies, Delist, Relist, NextDay,
           vars, TypeOK
  <1>2. ASSUME NEW a \in Actions
        PROVE  Bound(a) <= Bound(a)'
    <2>1. Unrecorded' = Unrecorded
      BY <1>1 DEF Unrecorded
    <2>2. CASE a \in recorded \cup Unrecorded
      <3>1. Bound(a) = faults + 1 /\ Bound(a)' = faults' + 1
        BY <1>1, <2>1, <2>2 DEF Bound
      <3>2. faults + 1 <= faults' + 1
        BY <1>1a, PlusOneKeepsOrder
      <3>3. QED
        BY <3>1, <3>2
    <2>3. CASE a \notin recorded \cup Unrecorded
      <3>1. Bound(a) = faults /\ Bound(a)' = faults'
        BY <1>1, <2>1, <2>3 DEF Bound
      <3>2. QED
        BY <1>1a, <3>1
    <2>4. QED
      BY <2>2, <2>3
  <1>3. ASSUME NEW d \in Days, NEW a \in Actions
        PROVE  times'[d][a] = times[d][a] \/ times'[d][a] = 0
    <2>1. \/ times' = times
          \/ times'[d] = times[d]
          \/ times'[d] = Raw
      BY DEF BeginDaily, ReadBrands, CommitDay, DailyDies, Delist, Relist, NextDay,
             vars, table
    <2>2. QED
      BY <2>1 DEF Raw
  <1>4. AtWorkOnNew'
    BY <1>1 DEF OnceInv, AtWorkOnNew
  <1>5. QED
    BY <1>1, <1>2, <1>3, <1>4, OnceStepInv

\* The steps of the only adjusting process.
LEMMA OnceAdjuster ==
    ASSUME \A p, q \in Adjusters : p = q,
           TypeOK, TypeOK', OnceInv, NEW p \in Adjusters,
           \/ \E a \in Actions : BeginAdjust(p, a)
           \/ ListRows(p) \/ WriteRows(p) \/ RecordAction(p) \/ AdjusterDies(p)
    PROVE  OnceInv'
  <1> DEFINE c == adjuster[p]
  <1>1. /\ adjuster \in [Adjusters -> AdjusterMemory] /\ c \in AdjusterMemory
        /\ faults \in Nat /\ faults' \in Nat
        /\ \A d \in Days, a \in Actions : times[d][a] \in Nat
    BY AnalyzeAssumption DEF TypeOK, AdjusterMemory
  <1>2. Unrecorded = IF c.pc = "record" THEN c.for ELSE {}
    BY DEF Unrecorded
  <1>3. Unrecorded' = IF adjuster'[p].pc = "record" THEN adjuster'[p].for ELSE {}
    BY DEF Unrecorded
  <1>4. ASSUME NEW a \in Actions, BeginAdjust(p, a)
        PROVE  OnceInv'
    <2>1. /\ adjuster'[p].pc = "list" /\ adjuster'[p].for = {a}
          /\ a \notin recorded /\ c.pc = "idle"
          /\ UNCHANGED <<times, recorded, faults>>
      BY <1>1, <1>4 DEF BeginAdjust, table, IdleAdjuster
    <2>2. AtWorkOnNew'
      BY <2>1 DEF AtWorkOnNew
    <2>3. \A x \in Actions : Bound(x) <= Bound(x)'
      BY <1>1, <1>2, <1>3, <2>1 DEF Bound
    <2>4. \A q \in Adjusters : adjuster'[q].pc # "write"
      BY <2>1
    <2>5. QED
      BY <2>1, <2>2, <2>3, <2>4, OnceStepInv
  <1>5. CASE ListRows(p)
    <2>1. /\ \/ adjuster'[p] = IdleAdjuster
             \/ /\ adjuster'[p].pc = "write" /\ adjuster'[p].for = c.for
                /\ adjuster'[p].copy = times
          /\ c.pc = "list"
          /\ UNCHANGED <<times, recorded, faults>>
      <3>1. PICK found : adjuster' = [adjuster EXCEPT ![p] =
                IF found = {} THEN IdleAdjuster
                ELSE [c EXCEPT !.pc = "write", !.held = found, !.copy = times]]
        BY <1>5 DEF ListRows
      <3>2. adjuster'[p] = IF found = {} THEN IdleAdjuster
                ELSE [c EXCEPT !.pc = "write", !.held = found, !.copy = times]
        BY <1>1, <3>1
      <3>3. CASE found = {}
        BY <1>5, <3>2, <3>3 DEF ListRows, table
      <3>4. CASE found # {}
        BY <1>1, <1>5, <3>2, <3>4 DEF ListRows, table, AdjusterMemory
      <3>5. QED
        BY <3>3, <3>4
    <2>2. AtWorkOnNew'
      BY <2>1 DEF OnceInv, AtWorkOnNew, IdleAdjuster
    <2>3. \A x \in Actions : Bound(x) <= Bound(x)'
      BY <1>1, <1>2, <1>3, <2>1 DEF Bound, IdleAdjuster
    <2>4. \A q \in Adjusters : adjuster'[q].pc = "write" => adjuster'[q].copy = times
      BY <2>1 DEF IdleAdjuster
    <2>5. QED
      BY <2>1, <2>2, <2>3, <2>4, OnceStepInv
  <1>6. CASE WriteRows(p)
    <2>1. PICK a \in c.for :
              times' = [d \in Days |->
                  IF d \in c.held THEN [c.copy[d] EXCEPT ![a] = @ + 1] ELSE times[d]]
      BY <1>6 DEF WriteRows
    <2>2. /\ c.pc = "write"
          /\ adjuster'[p].pc = "record" /\ adjuster'[p].for = c.for
          /\ UNCHANGED <<recorded, faults>>
      BY <1>1, <1>6 DEF WriteRows, AdjusterMemory
    <2>3. AtWorkOnNew'
      BY <2>2 DEF OnceInv, AtWorkOnNew
    <2>4. /\ a \in Actions /\ a \notin recorded /\ c.for = {a}
          /\ \A d \in Days : c.copy[d] \in [Actions -> Nat]
      BY <1>1, <2>1, <2>2 DEF OnceInv, AtWorkOnNew, AdjusterMemory
    <2>5. /\ Bound(a) = faults /\ Bound(a)' = faults + 1
          /\ \A x \in Actions \ {a} : Bound(x)' = Bound(x)
      BY <1>1, <1>2, <1>3, <2>2, <2>4 DEF Bound
    <2>6. RowsAreBounded'
      <3> SUFFICES ASSUME NEW d \in Days, NEW x \in Actions
                   PROVE  times'[d][x] <= Bound(x)'
        BY DEF RowsAreBounded
      <3>1. /\ times[d][x] <= Bound(x)
            /\ c.copy[d][x] <= Bound(x)
        BY <2>2 DEF OnceInv, RowsAreBounded, CopiesAreBounded
      <3>2. /\ times[d][x] \in Nat /\ c.copy[d][x] \in Nat
        BY <1>1, <2>4
      <3>3. \/ times'[d][x] = times[d][x]
            \/ times'[d][x] = c.copy[d][x]
            \/ x = a /\ times'[d][x] = c.copy[d][x] + 1
        <4>1. times'[d] = times[d] \/ times'[d] = [c.copy[d] EXCEPT ![a] = @ + 1]
          BY <2>1
        <4>2. QED
          BY <2>4, <4>1, AppliedOnceMore
      <3>4. QED
        BY <1>1, <2>5, <3>1, <3>2, <3>3
    <2>7. CopiesAreBounded'
      BY <2>2 DEF CopiesAreBounded
    <2>8. QED
      BY <2>3, <2>6, <2>7 DEF OnceInv
  <1>7. CASE RecordAction(p)
    <2>1. /\ adjuster'[p] = IdleAdjuster
          /\ c.pc = "record" /\ recorded' = recorded \cup c.for
          /\ UNCHANGED <<times, faults>>
      BY <1>1, <1>7 DEF RecordAction, table
    <2>2. AtWorkOnNew'
      BY <2>1 DEF AtWorkOnNew, IdleAdjuster
    <2>3. \A x \in Actions : Bound(x) <= Bound(x)'
      BY <1>1, <1>2, <1>3, <2>1 DEF Bound, IdleAdjuster
    <2>4. \A q \in Adjusters : adjuster'[q].pc # "write"
      BY <2>1 DEF IdleAdjuster
    <2>5. QED
      BY <2>1, <2>2, <2>3, <2>4, OnceStepInv
  <1>8. CASE AdjusterDies(p)
    <2>1. /\ adjuster'[p] = IdleAdjuster
          /\ faults' = faults + 1
          /\ UNCHANGED <<times, recorded>>
      BY <1>1, <1>8 DEF AdjusterDies, table
    <2>2. AtWorkOnNew'
      BY <2>1 DEF AtWorkOnNew, IdleAdjuster
    <2>3. \A x \in Actions : Bound(x) <= Bound(x)'
      BY <1>1, <2>1 DEF Bound
    <2>4. \A q \in Adjusters : adjuster'[q].pc # "write"
      BY <2>1 DEF IdleAdjuster
    <2>5. QED
      BY <2>1, <2>2, <2>3, <2>4, OnceStepInv
  <1>9. QED
    BY <1>4, <1>5, <1>6, <1>7, <1>8

\* With one adjusting process at a time, however it overlaps with the daily
\* batch and the master batch: a price is divided by the ratio of an action at
\* most once, and once more for every crash.
THEOREM OnceUnlessCrashed ==
    ASSUME \A p, q \in Adjusters : p = q
    PROVE  Spec => []OncePerCrash
  <1>1. TypeOK /\ TypeOK' /\ OnceInv /\ [Next]_vars => OnceInv'
    <2> SUFFICES ASSUME TypeOK, TypeOK', OnceInv, [Next]_vars PROVE OnceInv'
      OBVIOUS
    <2>1. ASSUME NEW p \in Adjusters,
                 \/ \E a \in Actions : BeginAdjust(p, a)
                 \/ ListRows(p) \/ WriteRows(p) \/ RecordAction(p) \/ AdjusterDies(p)
          PROVE  OnceInv'
      BY <2>1, OnceAdjuster
    <2>2. QED
      BY <2>1, OnceOthers DEF Next
  <1>2. TypeOK /\ OnceInv => OncePerCrash
    <2> SUFFICES ASSUME TypeOK, OnceInv, NEW d \in Days, NEW a \in Actions
                 PROVE  times[d][a] <= 1 + faults
      BY DEF OncePerCrash
    <2>1. times[d][a] \in Nat /\ faults \in Nat /\ times[d][a] <= Bound(a)
      BY AnalyzeAssumption DEF TypeOK, OnceInv, RowsAreBounded
    <2>2. QED
      BY <2>1 DEF Bound
  <1>3. QED
    BY <1>1, <1>2, OnceInit, AnalyzeTypeCorrect, PTL DEF Spec

-----------------------------------------------------------------------------
(* Adjusted beyond the look back, when batches take turns.  The daily batch  *)
(* then writes no row further back than its length before a recorded date,   *)
(* and an adjuster writes back the very rows it has read.                    *)

Alone ==
    /\ daily.pc # "idle" => \A p \in Adjusters : adjuster[p].pc = "idle"
    /\ \A p, q \in Adjusters : adjuster[p].pc # "idle" /\ adjuster[q].pc # "idle" => p = q

\* The action is in a row of days before its date n times at most, in no other.
AtMost(a, n) == \A d \in Days : times[d][a] <= IF d < DateOf(a) THEN n ELSE 0

Applied(a) ==
    /\ AtMost(a, 1 + faults)
    /\ \A d \in stored : d < DateOf(a) - Lookback => times[d][a] >= 1

Untouched(a) == AtMost(a, faults)

DayIsLate ==
    daily.pc # "idle" =>
        /\ daily.day >= daily.now - Lookback /\ daily.now <= today
        /\ \A a \in recorded : DateOf(a) <= daily.now

InHand(c, a) ==
    /\ c.for = {a} /\ a \notin recorded /\ DateOf(a) <= today
    /\ c.pc = "write" => c.held = stored \cap Before(a) /\ c.copy = times
    /\ c.pc = "record" => Applied(a)

SerialInv ==
    /\ Alone /\ DayIsLate
    /\ \A a \in recorded : Applied(a) /\ DateOf(a) <= today
    /\ \A a \in Actions \ (recorded \cup Unrecorded) : Untouched(a)
    /\ \A p \in Adjusters : adjuster[p].pc # "idle" =>
           \E a \in Actions : InHand(adjuster[p], a)

\* The hypothesis: MayStart holds everybody back.
OneAtATime == Overlap = FALSE

\* A crash only leaves room for one application more.
LEMMA MoreCrashes ==
    ASSUME TypeOK, faults' = faults + 1, UNCHANGED <<stored, times>>
    PROVE  \A a \in Actions : (Applied(a) => Applied(a)') /\ (Untouched(a) => Untouched(a)')
                              /\ (Applied(a) => Untouched(a)')
  <1>1. faults \in Nat /\ \A a \in Actions, d \in Days : times[d][a] \in Nat
    BY AnalyzeAssumption DEF TypeOK
  <1>2. QED
    BY <1>1 DEF Applied, Untouched, AtMost, DateOf

LEMMA SerialInit == Init => SerialInv
  <1> SUFFICES ASSUME Init PROVE SerialInv
    OBVIOUS
  <1>1. /\ daily.pc = "idle" /\ recorded = {} /\ \A p \in Adjusters : adjuster[p].pc = "idle"
        /\ \A d \in Days : times[d] = Raw /\ faults = 0
    BY DEF Init, IdleDaily, IdleAdjuster
  <1>2. \A a \in Actions : Untouched(a)
    BY <1>1 DEF Untouched, AtMost, Raw
  <1>3. QED
    BY <1>1, <1>2 DEF SerialInv, Alone, DayIsLate

\* A turn of the daily batch, the master batch or the clock.
LEMMA SerialOthersTurn ==
    ASSUME TypeOK, SerialInv, \A p \in Adjusters : adjuster[p].pc = "idle",
           UNCHANGED <<adjuster, recorded, faults>>, today' \in Days, today <= today', DayIsLate',
           \A a \in recorded : Applied(a)',
           \A d \in Days : times'[d] = times[d] \/ times'[d] = Raw
    PROVE  SerialInv'
  <1>1. Unrecorded = {} /\ Unrecorded' = {}
    BY DEF Unrecorded
  <1>2. \A a \in recorded : a \in Actions /\ DateOf(a) \in Int /\ DateOf(a) <= today
    BY AnalyzeAssumption DEF SerialInv, TypeOK, DateOf, Days
  <1>3. \A a \in recorded : DateOf(a) <= today'
    <2>1. today \in Int /\ today' \in Int
      BY AnalyzeAssumption DEF TypeOK, Days
    <2>2. QED
      BY <1>2, <2>1
  <1>4. ASSUME NEW a \in Actions \ recorded PROVE Untouched(a)'
    <2>1. Untouched(a)
      BY <1>1, <1>4 DEF SerialInv
    <2>2. \A d \in Days : times'[d][a] = times[d][a] \/ times'[d][a] = 0
      BY <1>4 DEF Raw
    <2>3. faults \in Nat
      BY AnalyzeAssumption DEF TypeOK
    <2>4. QED
      BY <2>1, <2>2, <2>3 DEF Untouched, AtMost, DateOf
  <1>5. QED
    BY <1>1, <1>3, <1>4 DEF SerialInv, Alone

LEMMA SerialCommit ==
    ASSUME OneAtATime, TypeOK, SerialInv, CommitDay
    PROVE  SerialInv'
  <1>1. /\ daily.pc = "write" /\ UNCHANGED <<today, recorded, adjuster, faults>>
        /\ \A p \in Adjusters : adjuster[p].pc = "idle"
        /\ daily.day >= daily.now - Lookback /\ daily.now <= today
        /\ \A a \in recorded : DateOf(a) <= daily.now
    BY DEF CommitDay, SerialInv, Alone, DayIsLate
  <1>2. PICK written \in {{}, {daily.day}} : \E kept \in SUBSET (stored \cup written) :
            /\ stored' = kept
            /\ times' = [d \in Days |-> IF d \in kept \ written THEN times[d] ELSE Raw]
    BY DEF CommitDay
  <1>2a. PICK kept \in SUBSET (stored \cup written) :
            /\ stored' = kept
            /\ times' = [d \in Days |-> IF d \in kept \ written THEN times[d] ELSE Raw]
    BY <1>2
  <1>3. /\ daily.day \in Int /\ today \in Days /\ stored \subseteq Days /\ daily.day \in Days
        /\ daily.now \in Int /\ Lookback \in Nat /\ faults \in Nat
    BY AnalyzeAssumption DEF TypeOK, Days
  <1>4. \/ daily' = IdleDaily
        \/ /\ HasEarlier(daily)
           /\ daily' = [daily EXCEPT !.pc = "read", !.day = @ - 1]
    BY DEF CommitDay
  <1>5. DayIsLate'
    <2>1. CASE daily' = IdleDaily
      BY <2>1 DEF DayIsLate, IdleDaily
    <2>2. CASE HasEarlier(daily) /\ daily' = [daily EXCEPT !.pc = "read", !.day = @ - 1]
      <3>1. daily'.now = daily.now /\ daily'.day = daily.day - 1
        BY <2>2 DEF TypeOK
      <3>2. daily.day > daily.now - Lookback
        BY <2>2 DEF HasEarlier
      <3>3. daily'.day >= daily'.now - Lookback
        BY <1>3, <3>1, <3>2
      <3>4. QED
        BY <1>1, <3>1, <3>3 DEF DayIsLate
    <2>3. QED
      BY <1>4, <2>1, <2>2
  <1>6. ASSUME NEW a \in recorded PROVE Applied(a)'
    <2>1. DateOf(a) \in Int /\ DateOf(a) <= daily.now /\ a \in Actions /\ Applied(a)
      BY <1>1, AnalyzeAssumption DEF TypeOK, DateOf, Days, SerialInv
    <2>2. AtMost(a, 1 + faults)'
      <3>1. \A d \in Days : times'[d][a] = times[d][a] \/ times'[d][a] = 0
        BY <1>2a, <2>1 DEF Raw
      <3>2. QED
        BY <1>1, <1>3, <2>1, <3>1 DEF Applied, AtMost, DateOf
    <2>3. ASSUME NEW d \in kept, d < DateOf(a) - Lookback PROVE times'[d][a] >= 1
      <3>1. d # daily.day /\ d \notin written
        BY <1>1, <1>2a, <1>3, <2>1, <2>3
      <3>2. d \in stored /\ d \in Days
        BY <1>2a, <1>3, <3>1
      <3>3. times'[d] = times[d]
        BY <1>2a, <2>3, <3>1, <3>2
      <3>4. QED
        BY <2>1, <2>3, <3>2, <3>3 DEF Applied
    <2>4. QED
      BY <1>2a, <2>2, <2>3 DEF Applied, DateOf
  <1>7. \A d \in Days : times'[d] = times[d] \/ times'[d] = Raw
    BY <1>2a
  <1>8. today <= today
    BY <1>3, AnalyzeAssumption DEF Days
  <1>9. QED
    BY <1>1, <1>3, <1>5, <1>6, <1>7, <1>8, SerialOthersTurn

LEMMA SerialOthers ==
    ASSUME OneAtATime, TypeOK, SerialInv,
           BeginDaily \/ ReadBrands \/ CommitDay \/ Delist \/ Relist
    PROVE  SerialInv'
  <1>0. today \in Days /\ today \in Int /\ today <= today
    BY AnalyzeAssumption DEF TypeOK, Days
  <1>1. CASE BeginDaily
    <2>1. /\ \A p \in Adjusters : adjuster[p].pc = "idle"
          /\ daily' = [IdleDaily EXCEPT !.pc = "read", !.now = today, !.day = today]
          /\ UNCHANGED <<today, recorded, adjuster, faults, stored, times>>
      BY <1>1 DEF BeginDaily, OneAtATime, MayStart, Quiet, table
    <2>2. DayIsLate'
      <3>1. daily'.now = today /\ daily'.day = today
        BY <2>1 DEF IdleDaily
      <3>2. today >= today - Lookback
        BY <1>0, AnalyzeAssumption
      <3>3. QED
        BY <1>0, <2>1, <3>1, <3>2 DEF DayIsLate, SerialInv
    <2>3. \A a \in recorded : Applied(a)'
      BY <2>1 DEF SerialInv, Applied, AtMost
    <2>4. QED
      BY <1>0, <2>1, <2>2, <2>3, SerialOthersTurn
  <1>2. CASE ReadBrands
    <2>1. /\ daily.pc = "read" /\ UNCHANGED <<today, recorded, adjuster, faults, stored, times>>
          /\ daily' = [daily EXCEPT !.pc = "write", !.known = listed]
      BY <1>2 DEF ReadBrands, table
    <2>2. \A p \in Adjusters : adjuster[p].pc = "idle"
      BY <2>1 DEF SerialInv, Alone
    <2>3. DayIsLate'
      BY <2>1 DEF DayIsLate, SerialInv, TypeOK
    <2>4. \A a \in recorded : Applied(a)'
      BY <2>1 DEF SerialInv, Applied, AtMost
    <2>5. QED
      BY <1>0, <2>1, <2>2, <2>3, <2>4, SerialOthersTurn
  <1>3. CASE CommitDay
    BY <1>3, SerialCommit
  <1>4. CASE Delist
    <2>1. /\ \A p \in Adjusters : adjuster[p].pc = "idle"
          /\ stored' = {} /\ times' = [d \in Days |-> Raw]
          /\ UNCHANGED <<today, recorded, adjuster, daily, faults>>
      BY <1>4 DEF Delist, OneAtATime, MayStart, Quiet
    <2>2. DayIsLate'
      BY <2>1 DEF SerialInv, DayIsLate
    <2>2a. ASSUME NEW a \in recorded PROVE Applied(a)'
      <3>1. a \in Actions /\ faults \in Nat
        BY AnalyzeAssumption DEF TypeOK
      <3>2. QED
        BY <2>1, <3>1 DEF Applied, AtMost, Raw
    <2>3. QED
      BY <1>0, <2>1, <2>2, <2>2a, SerialOthersTurn
  <1>5. CASE Relist
    <2>1. /\ \A p \in Adjusters : adjuster[p].pc = "idle"
          /\ UNCHANGED <<today, recorded, adjuster, daily, faults, stored, times>>
      BY <1>5 DEF Relist, OneAtATime, MayStart, Quiet, table
    <2>2. DayIsLate' /\ \A a \in recorded : Applied(a)'
      BY <2>1 DEF SerialInv, DayIsLate, Applied, AtMost
    <2>3. QED
      BY <1>0, <2>1, <2>2, SerialOthersTurn
  <1>6. QED
    BY <1>1, <1>2, <1>3, <1>4, <1>5

LEMMA SerialDay ==
    ASSUME TypeOK, SerialInv, NextDay
    PROVE  SerialInv'
  <1>1. today' = today + 1 /\ UNCHANGED <<recorded, adjuster, daily, faults, stored, times>>
    BY DEF NextDay, table
  <1>2. today \in Int /\ \A a \in Actions : DateOf(a) \in Int
    BY AnalyzeAssumption DEF TypeOK, Days, DateOf
  <1>3. \A a \in Actions : DateOf(a) <= today => DateOf(a) <= today'
    BY <1>1, <1>2
  <1>4. \A a : (Applied(a) => Applied(a)') /\ (Untouched(a) => Untouched(a)')
    BY <1>1 DEF Applied, Untouched, AtMost
  <1>5. DayIsLate'
    <2>1. daily.now \in Int
      BY AnalyzeAssumption DEF TypeOK, Days
    <2>2. QED
      BY <1>1, <1>2, <2>1 DEF SerialInv, DayIsLate
  <1>6. Unrecorded' = Unrecorded /\ Alone'
    BY <1>1 DEF Unrecorded, SerialInv, Alone
  <1>7. \A p \in Adjusters, a \in Actions : InHand(adjuster[p], a) => InHand(adjuster[p], a)'
    BY <1>1, <1>3, <1>4 DEF InHand
  <1>8. recorded \subseteq Actions
    BY DEF TypeOK
  <1>9. QED
    BY <1>1, <1>3, <1>4, <1>5, <1>6, <1>7, <1>8 DEF SerialInv

\* A turn of an adjuster: everybody else is idle.
LEMMA SerialAdjusterTurn ==
    ASSUME NEW p \in Adjusters, daily.pc = "idle", UNCHANGED <<today, daily>>,
           \A q \in Adjusters : q # p => adjuster[q].pc = "idle" /\ adjuster'[q] = adjuster[q],
           \A a \in recorded' : Applied(a)' /\ DateOf(a) <= today,
           \A a \in Actions \ recorded' :
               a \notin adjuster'[p].for \/ adjuster'[p].pc # "record" => Untouched(a)',
           adjuster'[p].pc # "idle" => \E a \in Actions : InHand(adjuster[p], a)'
    PROVE  SerialInv'
  <1>1. Alone' /\ DayIsLate'
    BY DEF Alone, DayIsLate
  <1>2. adjuster'[p].pc = "record" => adjuster'[p].for \subseteq Unrecorded'
    BY DEF Unrecorded
  <1>3. \A a \in Actions \ (recorded' \cup Unrecorded') : Untouched(a)'
    BY <1>2
  <1>4. \A q \in Adjusters : adjuster'[q].pc # "idle" => q = p
    OBVIOUS
  <1>5. \A q \in Adjusters : adjuster'[q].pc # "idle" =>
            \E a \in Actions : InHand(adjuster[q], a)'
    BY <1>4
  <1>6. QED
    BY <1>1, <1>3, <1>5 DEF SerialInv

LEMMA SerialWrite ==
    ASSUME TypeOK, SerialInv, NEW p \in Adjusters, WriteRows(p)
    PROVE  SerialInv'
  <1> DEFINE c == adjuster[p]
  <1>1. /\ c.pc = "write" /\ adjuster \in [Adjusters -> AdjusterMemory]
        /\ UNCHANGED <<today, daily, recorded, faults>>
    BY DEF WriteRows, TypeOK, AdjusterMemory
  <1>2. /\ daily.pc = "idle"
        /\ \A q \in Adjusters : q # p => adjuster[q].pc = "idle"
    BY <1>1 DEF SerialInv, Alone
  <1>3. PICK a \in Actions : InHand(c, a)
    BY <1>1 DEF SerialInv
  <1>4. /\ c.for = {a} /\ a \notin recorded /\ DateOf(a) <= today
        /\ c.held = stored \cap Before(a) /\ c.copy = times
    BY <1>1, <1>3 DEF InHand
  <1>5. adjuster' = [adjuster EXCEPT ![p].pc = "record"]
    BY DEF WriteRows
  <1>6. /\ adjuster'[p].pc = "record" /\ adjuster'[p].for = {a}
        /\ \A q \in Adjusters : q # p => adjuster'[q] = adjuster[q]
    BY <1>1, <1>4, <1>5 DEF AdjusterMemory
  <1>7. /\ stored' = stored
        /\ times' = [d \in Days |-> IF d \in c.held THEN [times[d] EXCEPT ![a] = @ + 1]
                                                    ELSE times[d]]
    BY <1>4 DEF WriteRows
  <1>8. times \in Table /\ stored \subseteq Days
    BY DEF TypeOK, Table
  <1>9. ASSUME NEW d \in Days
        PROVE  /\ \A x \in Actions \ {a} : times'[d][x] = times[d][x]
               /\ times'[d][a] = IF d \in c.held THEN times[d][a] + 1 ELSE times[d][a]
    <2>1. times[d] \in [Actions -> Nat]
      BY <1>8 DEF Table
    <2>2. times'[d] = IF d \in c.held THEN [times[d] EXCEPT ![a] = @ + 1] ELSE times[d]
      BY <1>7
    <2>3. QED
      BY <2>1, <2>2, AppliedOnceMore
  <1> HIDE DEF c
  <1>10. Untouched(a)
    <2>1. a \notin Unrecorded
      BY <1>1, <1>2 DEF Unrecorded, c
    <2>2. QED
      BY <1>4, <2>1 DEF SerialInv
  <1>11. Applied(a)'
    <2>1. /\ DateOf(a) \in Int /\ Lookback \in Nat /\ faults \in Nat
          /\ \A d \in Days : d \in Int /\ times[d][a] \in Nat
      BY <1>8, AnalyzeAssumption DEF TypeOK, Table, DateOf, Days
    <2>2. ASSUME NEW d \in Days
          PROVE  times'[d][a] <= IF d < DateOf(a) THEN 1 + faults ELSE 0
      <3>1. d \in c.held => d < DateOf(a)
        BY <1>4 DEF Before
      <3>2. times[d][a] <= IF d < DateOf(a) THEN faults ELSE 0
        BY <1>10 DEF Untouched, AtMost
      <3>3. QED
        BY <1>9, <2>1, <3>1, <3>2
    <2>3. ASSUME NEW d \in stored, d < DateOf(a) - Lookback PROVE times'[d][a] >= 1
      <3>1. d \in Days /\ d \in c.held
        BY <1>4, <1>8, <2>1, <2>3 DEF Before
      <3>2. QED
        BY <1>9, <2>1, <3>1
    <2>4. QED
      BY <1>1, <1>7, <2>2, <2>3 DEF Applied, AtMost, DateOf
  <1>12. \A x \in Actions \ {a} : (Applied(x) => Applied(x)') /\ (Untouched(x) => Untouched(x)')
    BY <1>1, <1>7, <1>8, <1>9 DEF Applied, Untouched, AtMost, DateOf
  <1>13. InHand(adjuster[p], a)'
    BY <1>1, <1>4, <1>6, <1>11 DEF InHand
  <1>14. \A x \in recorded' : Applied(x)' /\ DateOf(x) <= today
    BY <1>1, <1>4, <1>12 DEF SerialInv, TypeOK
  <1>15. \A x \in Actions \ recorded' : x \notin {a} => Untouched(x)'
    <2>1. Unrecorded = {}
      BY <1>1, <1>2 DEF Unrecorded, c
    <2>2. QED
      BY <1>1, <1>12, <2>1 DEF SerialInv
  <1>16. QED
    BY <1>1, <1>2, <1>6, <1>13, <1>14, <1>15, SerialAdjusterTurn

LEMMA SerialAdjuster ==
    ASSUME OneAtATime, TypeOK, SerialInv, NEW p \in Adjusters,
           \/ \E a \in Actions : BeginAdjust(p, a)
           \/ ListRows(p) \/ WriteRows(p) \/ RecordAction(p)
    PROVE  SerialInv'
  <1>0. adjuster \in [Adjusters -> AdjusterMemory] /\ recorded \subseteq Actions
    BY DEF TypeOK, AdjusterMemory
  <1>1. ASSUME NEW a \in Actions, BeginAdjust(p, a) PROVE SerialInv'
    <2>1. /\ daily.pc = "idle" /\ \A q \in Adjusters : adjuster[q].pc = "idle"
          /\ DateOf(a) <= today /\ a \notin recorded
          /\ UNCHANGED <<today, recorded, daily, faults, stored, times>>
      BY <1>1 DEF BeginAdjust, OneAtATime, MayStart, Quiet, table
    <2>2. /\ adjuster'[p].pc = "list" /\ adjuster'[p].for = {a}
          /\ \A q \in Adjusters : q # p => adjuster'[q] = adjuster[q]
      BY <1>0, <1>1 DEF BeginAdjust, IdleAdjuster
    <2>3. Unrecorded = {}
      BY <2>1 DEF Unrecorded
    <2>4. \A x : (Applied(x) => Applied(x)') /\ (Untouched(x) => Untouched(x)')
      BY <2>1 DEF Applied, Untouched, AtMost
    <2>5. InHand(adjuster[p], a)'
      BY <2>1, <2>2 DEF InHand
    <2>6. QED
      BY <2>1, <2>2, <2>3, <2>4, <2>5, SerialAdjusterTurn DEF SerialInv
  <1>2. CASE ListRows(p)
    <2>1. adjuster[p].pc = "list" /\ UNCHANGED <<today, recorded, daily, faults, stored, times>>
      BY <1>2 DEF ListRows, table
    <2>2. daily.pc = "idle" /\ \A q \in Adjusters : q # p => adjuster[q].pc = "idle"
      BY <2>1 DEF SerialInv, Alone
    <2>3. PICK a \in Actions : InHand(adjuster[p], a)
      BY <2>1 DEF SerialInv
    <2>4. adjuster[p].for = {a} /\ a \notin recorded /\ DateOf(a) <= today
      BY <2>3 DEF InHand
    <2> DEFINE found == stored \cap Before(a)
    <2>5. adjuster' = [adjuster EXCEPT ![p] =
              IF found = {} THEN IdleAdjuster
              ELSE [adjuster[p] EXCEPT !.pc = "write", !.held = found, !.copy = times]]
      BY <1>2, <2>4 DEF ListRows
    <2>6. /\ \A q \in Adjusters : q # p => adjuster'[q] = adjuster[q]
          /\ adjuster'[p] = IF found = {} THEN IdleAdjuster
              ELSE [adjuster[p] EXCEPT !.pc = "write", !.held = found, !.copy = times]
      BY <1>0, <2>5
    <2>7. \/ adjuster'[p].pc = "idle"
          \/ adjuster'[p].pc = "write" /\ adjuster'[p].for = {a} /\ adjuster'[p].held = found
             /\ adjuster'[p].copy = times
      <3>1. CASE found = {}
        BY <2>6, <3>1 DEF IdleAdjuster
      <3>2. CASE found # {}
        BY <1>0, <2>4, <2>6, <3>2 DEF AdjusterMemory
      <3>3. QED
        BY <3>1, <3>2
    <2>8. Unrecorded = {}
      BY <2>1, <2>2 DEF Unrecorded
    <2>9. \A x : (Applied(x) => Applied(x)') /\ (Untouched(x) => Untouched(x)')
      BY <2>1 DEF Applied, Untouched, AtMost
    <2>10. adjuster'[p].pc # "idle" => InHand(adjuster[p], a)'
      BY <2>1, <2>4, <2>7 DEF InHand, Before, DateOf
    <2>11. QED
      BY <2>1, <2>2, <2>6, <2>8, <2>9, <2>10, SerialAdjusterTurn DEF SerialInv
  <1>3. CASE WriteRows(p)
    BY <1>3, SerialWrite
  <1>4. CASE RecordAction(p)
    <2>1. /\ adjuster[p].pc = "record" /\ UNCHANGED <<today, daily, faults, stored, times>>
          /\ recorded' = recorded \cup adjuster[p].for
      BY <1>4 DEF RecordAction, table
    <2>2. /\ adjuster'[p].pc = "idle"
          /\ \A q \in Adjusters : q # p => adjuster'[q] = adjuster[q]
      BY <1>0, <1>4 DEF RecordAction, IdleAdjuster
    <2>3. daily.pc = "idle" /\ \A q \in Adjusters : q # p => adjuster[q].pc = "idle"
      BY <2>1 DEF SerialInv, Alone
    <2>4. PICK a \in Actions : InHand(adjuster[p], a)
      BY <2>1 DEF SerialInv
    <2>5. adjuster[p].for = {a} /\ DateOf(a) <= today /\ Applied(a)
      BY <2>1, <2>4 DEF InHand
    <2>6. Unrecorded = {a}
      BY <2>1, <2>3, <2>5 DEF Unrecorded
    <2>7. \A x : (Applied(x) => Applied(x)') /\ (Untouched(x) => Untouched(x)')
      BY <2>1 DEF Applied, Untouched, AtMost
    <2>8. QED
      BY <2>1, <2>2, <2>3, <2>5, <2>6, <2>7, SerialAdjusterTurn DEF SerialInv
  <1>5. QED
    BY <1>1, <1>2, <1>3, <1>4

\* A crash loses what the process holds; an action it has written but not
\* recorded stays in the rows.
LEMMA SerialCrash ==
    ASSUME TypeOK, SerialInv, DailyDies \/ \E p \in Adjusters : AdjusterDies(p)
    PROVE  SerialInv'
  <1>1. /\ faults' = faults + 1 /\ UNCHANGED <<today, recorded, stored, times>>
        /\ daily'.pc # "idle" => daily' = daily
        /\ \A q \in Adjusters : adjuster'[q] = adjuster[q] \/ adjuster'[q].pc = "idle"
    BY DEF DailyDies, AdjusterDies, table, IdleDaily, IdleAdjuster, TypeOK
  <1>2. recorded \subseteq Actions
    BY DEF TypeOK
  <1>3. \A a \in Actions : (Applied(a) => Applied(a)') /\ (Untouched(a) => Untouched(a)')
                           /\ (Applied(a) => Untouched(a)')
    BY <1>1, MoreCrashes
  <1>4. Alone' /\ DayIsLate'
    BY <1>1 DEF SerialInv, Alone, DayIsLate
  <1>5. ASSUME NEW a \in Actions \ recorded PROVE Untouched(a) \/ Applied(a)
    <2>1. CASE a \notin Unrecorded
      BY <1>5, <2>1 DEF SerialInv
    <2>2. CASE a \in Unrecorded
      <3>1. PICK p \in Adjusters : adjuster[p].pc = "record" /\ a \in adjuster[p].for
        BY <2>2 DEF Unrecorded
      <3>2. PICK x \in Actions : InHand(adjuster[p], x)
        BY <3>1 DEF SerialInv
      <3>3. QED
        BY <3>1, <3>2 DEF InHand
    <2>3. QED
      BY <2>1, <2>2
  <1>6. \A p \in Adjusters : adjuster'[p].pc # "idle" => \E a \in Actions : InHand(adjuster[p], a)'
    <2>1. SUFFICES ASSUME NEW p \in Adjusters, adjuster'[p].pc # "idle"
                   PROVE  \E a \in Actions : InHand(adjuster[p], a)'
      OBVIOUS
    <2>2. adjuster'[p] = adjuster[p] /\ adjuster[p].pc # "idle"
      BY <1>1, <2>1
    <2>3. PICK a \in Actions : InHand(adjuster[p], a)
      BY <2>2 DEF SerialInv
    <2>4. InHand(adjuster[p], a)'
      BY <1>1, <1>3, <2>2, <2>3 DEF InHand
    <2>5. QED
      BY <2>4
  <1>7. QED
    BY <1>1, <1>2, <1>3, <1>4, <1>5, <1>6 DEF SerialInv

\* When the batches take turns, an action recorded as applied is in every row
\* that is further before its date than the daily batch looks back, once and once
\* more at most for each crash, and in no row of its date or later
\* (AdjustHistoricalDataForStockSplit and its consolidation twin, against
\* CreateDailyStockPrice and the delisting).
THEOREM AppliedBeyondLookback ==
    ASSUME OneAtATime
    PROVE  Spec => []AdjustedBeyondLookback
  <1>1. TypeOK /\ SerialInv /\ [Next]_vars => SerialInv'
    <2> SUFFICES ASSUME TypeOK, SerialInv, [Next]_vars PROVE SerialInv'
      OBVIOUS
    <2>1. CASE DailyDies \/ \E p \in Adjusters : AdjusterDies(p)
      BY <2>1, SerialCrash
    <2>2. ASSUME NEW p \in Adjusters,
                 \/ \E a \in Actions : BeginAdjust(p, a)
                 \/ ListRows(p) \/ WriteRows(p) \/ RecordAction(p)
          PROVE  SerialInv'
      BY <2>2, SerialAdjuster
    <2>3. CASE UNCHANGED vars
      <3>1. \A a : (Applied(a) <=> Applied(a)') /\ (Untouched(a) <=> Untouched(a)')
        BY <2>3 DEF vars, Applied, Untouched, AtMost
      <3>2. \A p \in Adjusters, a \in Actions : InHand(adjuster[p], a) => InHand(adjuster[p], a)'
        BY <2>3, <3>1 DEF vars, InHand
      <3>3. Unrecorded' = Unrecorded /\ Alone' /\ DayIsLate'
        BY <2>3 DEF vars, Unrecorded, SerialInv, Alone, DayIsLate
      <3>4. QED
        BY <2>3, <3>1, <3>2, <3>3 DEF vars, SerialInv
    <2>4. QED
      BY <2>1, <2>2, <2>3, SerialOthers, SerialDay DEF Next
  <1>2. SerialInv => AdjustedBeyondLookback
    BY DEF SerialInv, AdjustedBeyondLookback, Applied, AtMost
  <1>3. QED
    BY <1>1, <1>2, SerialInit, AnalyzeTypeCorrect, PTL DEF Spec
=============================================================================
