--------------------------- MODULE ComponentProofs ---------------------------
(***************************************************************************)
(* Proofs about components that share no state with any other: the sweep   *)
(* over the statements, the valuation, the listings page by page, the      *)
(* strategy ranking with its pool of goroutines, what else comes from      *)
(* outside (announcements, index charts, J-Quants prices), and what the    *)
(* HTTP handlers let through to the use cases.                             *)
(***************************************************************************)
EXTENDS ExternalData, Requests, Paging, Ranking, FoldProofs, SequenceTheorems

\* Min gives the least member of a set of naturals that is not empty.
LEMMA LeastNumber ==
    ASSUME NEW S, S \subseteq Nat, S # {}
    PROVE  Min(S) \in S /\ \A n \in S : Min(S) <= n
  BY LeastNatural DEF Min

\* The sequence made of a finite set has its elements and no others.
LEMMA SequenceOfSet ==
    ASSUME NEW S, IsFiniteSet(S)
    PROVE  ToSet(SetToSeq(S)) = S
  <1> DEFINE n == Cardinality(S)
             q == SetToSeq(S)
  <1>1. n \in Nat /\ ExistsBijection(1 .. n, S)
    BY FS_CardinalityType
  <1>2. \E f \in [1 .. n -> S] : IsInjective(f)
    BY <1>1 DEF ExistsBijection, Bijection, Injection
  <1>3. q \in [1 .. n -> S] /\ IsInjective(q)
    BY <1>2 DEF SetToSeq
  <1>4. q \in Injection(1 .. n, S)
    BY <1>3 DEF Injection
  <1>5. IsFiniteSet(1 .. n) /\ Cardinality(1 .. n) = n
    BY <1>1, FS_Interval
  <1>6. q \in Surjection(1 .. n, S)
    BY <1>4, <1>5, FS_Injection
  <1> HIDE DEF q
  <1>7. {q[i] : i \in 1 .. n} = S
    BY <1>3, <1>6 DEF Surjection
  <1>8. QED
    BY <1>3, <1>7 DEF ToSet, q

-----------------------------------------------------------------------------
(* The sweep over the statements *)

\* What is stored covers what was due of a document: this version or a later.
Covered(d, docs) == \E e \in docs : SameDocument(d, e) /\ e.version >= d.version

Sweeping == sweep.at \in {"asking", "saving"}

SweepTypes ==
    /\ keyValid \in BOOLEAN
    /\ mainMarket \subseteq FinSymbols
    /\ filed \subseteq Documents /\ IsFiniteSet(filed)
    /\ statements \subseteq Documents /\ IsFiniteSet(statements)
    /\ due \subseteq Documents
    /\ checkpoint \in Nat
    /\ sweep \in [at : {"idle", "asking", "saving", "ended"}, brands : SUBSET FinSymbols,
                  from : Nat, last : Nat, done : Nat, errors : Nat, max : Nat]

\* What a sweep that was due to bring a document knows: J-Quants still has it,
\* and its symbol is among the brands of the sweep that is running.
DueIsListed ==
    \A d \in due : /\ Covered(d, filed)
                   /\ d.sym \in mainMarket
                   /\ Sweeping => d.sym \in sweep.brands

\* How far the documents of a symbol have been asked for: to the checkpoint, by
\* the runs before (a run resumes behind their checkpoint), by this run, or
\* all of them.
Reached(s) ==
    \/ s <= checkpoint
    \/ Sweeping /\ (s <= sweep.from \/ s <= sweep.last)
    \/ sweep.at = "ended" /\ ~Limited(sweep)

ReachedIsStored == \A d \in due : d.sym \notin excused /\ Reached(d.sym) => Covered(d, statements)

SweepInv == SweepTypes /\ DueIsListed /\ ReachedIsStored

\* A reply has the documents of its symbol, or none when the key is refused.
LEMMA ReplyIsFiled ==
    ASSUME SweepTypes, NEW s
    PROVE  ToSet(Reply(s).rows) = IF keyValid THEN Of(filed, s) ELSE {}
  <1>1. ToSet(<<>>) = {}
    BY DEF ToSet
  <1>2. ToSet(SetToSeq(Of(filed, s))) = Of(filed, s)
    <2>1. IsFiniteSet(Of(filed, s))
      BY FS_Subset DEF SweepTypes, Of
    <2>2. QED
      BY <2>1, SequenceOfSet
  <1>3. QED
    BY <1>1, <1>2 DEF Reply, Fetched, Answer, SweepTypes

\* What was covered stays so: an upsert brings what J-Quants has, and that is
\* never older than what was due.
LEMMA UpsertCovers ==
    ASSUME SweepTypes, NEW d \in due, Covered(d, filed), NEW s \in FinSymbols
    PROVE  LET after == Upserted(ToSet(Reply(s).rows))
           IN  /\ Covered(d, statements) => Covered(d, after)
               /\ keyValid /\ d.sym = s => Covered(d, after)
  <1>3. ToSet(Reply(s).rows) = IF keyValid THEN Of(filed, s) ELSE {}
    BY ReplyIsFiled
  <1>4. d.sym = s \/ \A e \in statements, n \in Of(filed, s) : SameDocument(d, e) => ~SameDocument(e, n)
    BY DEF Of, SameDocument
  <1>5. d.sym = s => \E e \in Of(filed, s) : SameDocument(d, e) /\ e.version >= d.version
    BY DEF Covered, Of, SameDocument
  <1>6. QED
    BY <1>3, <1>4, <1>5 DEF Covered, Upserted

LEMMA SweepInitially == ASSUME FinInit PROVE SweepInv
  <1>1. IsFiniteSet({})
    BY FS_EmptySet
  <1>2. QED
    BY <1>1 DEF FinInit, SweepInv, SweepTypes, DueIsListed, ReachedIsStored, IdleSweep

LEMMA SweepStep ==
    ASSUME DocumentsAreNumbered, SweepInv, FinNext
    PROVE  SweepInv'
  <1> USE DEF SweepInv
  <1>t. SweepTypes /\ DueIsListed /\ ReachedIsStored
    OBVIOUS
  <1>d. /\ FinSymbols \subseteq Nat \ {0}
        /\ \A d \in due : d.sym \in FinSymbols
        /\ \A d \in Documents : Covered(d, {d})
    BY <1>t DEF DocumentsAreNumbered, FinSymbols, SweepTypes, Covered, SameDocument
  <1>1. ASSUME NEW max \in {0, 1}, StartSweep(max) PROVE SweepInv'
    <2> DEFINE fresh == {d \in filed : d.sym \in mainMarket}
    <2>1. /\ sweep' = [at |-> "asking", brands |-> mainMarket, from |-> checkpoint,
                       last |-> 0, done |-> 0, errors |-> 0, max |-> max]
          /\ due' = IF checkpoint = 0 THEN fresh ELSE due
          /\ excused' = IF checkpoint = 0 THEN {} ELSE excused
          /\ UNCHANGED <<keyValid, mainMarket, filed, statements, checkpoint>>
      BY <1>1 DEF StartSweep, IdleSweep
    <2>2. SweepTypes'
      BY <2>1, <1>t DEF SweepTypes
    <2>3. DueIsListed'
      <3>1. \A d \in fresh : Covered(d, filed) /\ d.sym \in mainMarket
        BY <1>t, <1>d DEF Covered, SweepTypes
      <3>2. QED
        BY <2>1, <3>1, <1>t DEF DueIsListed, Covered
    <2>4. \A d \in due' : d.sym \in Nat \ {0} /\ (Reached(d.sym)' => d.sym <= checkpoint)
      BY <2>1, <2>2, <1>d, <1>t DEF Reached, Sweeping, SweepTypes, FinSymbols
    <2>5. ReachedIsStored'
      BY <2>1, <2>4, <1>t DEF ReachedIsStored, Reached, SweepTypes, Covered
    <2>6. QED
      BY <2>2, <2>3, <2>5
  <1>2. ASSUME sweep.at = "asking", ~Finished(sweep)
        PROVE  LET s == Min(Remaining(sweep))
               IN  /\ s \in FinSymbols
                   /\ \A n \in FinSymbols : n \in sweep.brands /\ n <= s =>
                          n = s \/ n <= sweep.from \/ n <= sweep.last
    <2>1. Remaining(sweep) \subseteq FinSymbols /\ Remaining(sweep) # {}
      BY <1>2, <1>t DEF Remaining, Finished, SweepTypes
    <2> DEFINE s == Min(Remaining(sweep))
    <2>2. s \in Remaining(sweep) /\ \A n \in Remaining(sweep) : s <= n
      BY <2>1, <1>d, LeastNumber
    <2> HIDE DEF s
    <2>3. s \in FinSymbols
      BY <2>1, <2>2
    <2>4. \A n \in FinSymbols : n \in sweep.brands /\ n <= s =>
              n = s \/ n <= sweep.from \/ n <= sweep.last
      BY <2>2, <2>3, <1>d, <1>t DEF Remaining, SweepTypes
    <2>5. QED
      BY <2>3, <2>4 DEF s
  <1>3. ASSUME NEW s \in FinSymbols, sweep.at = "asking",
               \A n \in FinSymbols : n \in sweep.brands /\ n <= s =>
                   n = s \/ n <= sweep.from \/ n <= sweep.last,
               UNCHANGED <<mainMarket, filed, checkpoint, due, keyValid>>,
               NEW errors \in Nat,
               sweep' = [sweep EXCEPT !.at = "saving", !.last = s, !.done = @ + 1,
                                      !.errors = errors],
               excused \subseteq excused',
               statements' \subseteq Documents, IsFiniteSet(statements'),
               \A d \in due : /\ Covered(d, statements) => Covered(d, statements')
                              /\ d.sym = s => d.sym \in excused' \/ Covered(d, statements')
        PROVE  SweepInv'
    <2>1. SweepTypes'
      <3>1. s \in Nat /\ sweep.done + 1 \in Nat
        BY <1>t, <1>d DEF SweepTypes
      <3>2. QED
        BY <3>1, <1>3, <1>t DEF SweepTypes
    <2>2. DueIsListed'
      BY <1>3, <1>t DEF DueIsListed, Covered, Sweeping, SweepTypes
    <2>3. sweep'.at = "saving" /\ sweep'.last = s /\ sweep'.from = sweep.from
      BY <1>3, <1>t DEF SweepTypes
    <2>4. \A d \in due : d.sym \in FinSymbols /\ d.sym \in sweep.brands
      BY <1>3, <1>t, <1>d DEF DueIsListed, Sweeping
    <2>5. \A d \in due : Reached(d.sym)' => d.sym = s \/ Reached(d.sym)
      BY <2>3, <2>4, <1>3 DEF Reached, Sweeping
    <2>6. ReachedIsStored'
      BY <2>5, <1>3 DEF ReachedIsStored
    <2>7. QED
      BY <2>1, <2>2, <2>6
  <1>4. ASSUME Ask PROVE SweepInv'
    <2> DEFINE s == Min(Remaining(sweep))
    <2>1. /\ s \in FinSymbols
          /\ \A n \in FinSymbols : n \in sweep.brands /\ n <= s =>
                 n = s \/ n <= sweep.from \/ n <= sweep.last
      BY <1>2, <1>4 DEF Ask
    <2>2. /\ sweep.at = "asking"
          /\ statements' = Upserted(ToSet(Reply(s).rows))
          /\ excused' = IF keyValid THEN excused ELSE excused \cup {s}
          /\ sweep' = [sweep EXCEPT !.at = "saving", !.last = s, !.done = @ + 1]
          /\ UNCHANGED <<keyValid, mainMarket, filed, checkpoint, due>>
      BY <1>4 DEF Ask
    <2> HIDE DEF s
    <2>3. ToSet(Reply(s).rows) \subseteq Documents
      BY <2>1, ReplyIsFiled, <1>t DEF SweepTypes, Of
    <2>4. statements' \subseteq Documents /\ IsFiniteSet(statements')
      <3>1. IsFiniteSet(ToSet(Reply(s).rows))
        <4>1. IsFiniteSet(Of(filed, s)) /\ IsFiniteSet({})
          BY <1>t, FS_Subset, FS_EmptySet DEF SweepTypes, Of
        <4>2. QED
          BY <4>1, <1>t, ReplyIsFiled
      <3>2. IsFiniteSet({d \in statements : ~\E n \in ToSet(Reply(s).rows) : SameDocument(d, n)})
        BY <1>t, FS_Subset DEF SweepTypes
      <3>3. IsFiniteSet(statements')
        BY <2>2, <3>1, <3>2, FS_Union DEF Upserted
      <3>4. QED
        BY <2>2, <2>3, <3>3, <1>t DEF Upserted, SweepTypes
    <2>5. \A d \in due : /\ Covered(d, statements) => Covered(d, statements')
                         /\ d.sym = s => d.sym \in excused' \/ Covered(d, statements')
      BY <2>1, <2>2, <1>t, UpsertCovers DEF DueIsListed, SweepTypes
    <2>6. sweep' = [sweep EXCEPT !.at = "saving", !.last = s, !.done = @ + 1,
                                 !.errors = sweep.errors] /\ sweep.errors \in Nat
      BY <2>2, <1>t DEF SweepTypes
    <2>7. QED
      BY <1>3, <2>1, <2>2, <2>4, <2>5, <2>6
  <1>5. ASSUME AskFails PROVE SweepInv'
    <2> DEFINE s == Min(Remaining(sweep))
    <2>1. /\ s \in FinSymbols
          /\ \A n \in FinSymbols : n \in sweep.brands /\ n <= s =>
                 n = s \/ n <= sweep.from \/ n <= sweep.last
      BY <1>2, <1>5 DEF AskFails
    <2>2. /\ sweep.at = "asking"
          /\ excused' = excused \cup {s}
          /\ sweep' = [sweep EXCEPT !.at = "saving", !.last = s, !.done = @ + 1,
                                    !.errors = @ + 1]
          /\ UNCHANGED <<keyValid, mainMarket, filed, statements, checkpoint, due>>
      BY <1>5 DEF AskFails
    <2> HIDE DEF s
    <2>3. sweep' = [sweep EXCEPT !.at = "saving", !.last = s, !.done = @ + 1,
                                 !.errors = sweep.errors + 1] /\ sweep.errors + 1 \in Nat
      BY <2>2, <1>t DEF SweepTypes
    <2>4. statements' \subseteq Documents /\ IsFiniteSet(statements')
      BY <2>2, <1>t DEF SweepTypes
    <2>5. QED
      BY <1>3, <2>1, <2>2, <2>3, <2>4
  <1>6. ASSUME SaveCheckpoint \/ CheckpointNotSaved \/ SweepDies PROVE SweepInv'
    <2>1. /\ sweep' = [sweep EXCEPT !.at = "asking"] \/ sweep' = IdleSweep
          /\ Sweeping
          /\ checkpoint' = checkpoint \/ checkpoint' = sweep.last
          /\ UNCHANGED <<keyValid, mainMarket, filed, statements, due, excused>>
      BY <1>6 DEF SaveCheckpoint, CheckpointNotSaved, SweepDies, Sweeping
    <2>2. SweepTypes'
      BY <2>1, <1>t DEF SweepTypes, IdleSweep
    <2>3. DueIsListed'
      BY <2>1, <1>t DEF DueIsListed, Covered, Sweeping, SweepTypes, IdleSweep
    <2>4. /\ sweep'.at \in {"asking", "idle"}
          /\ sweep'.at = "asking" => sweep'.from = sweep.from /\ sweep'.last = sweep.last
      BY <2>1, <1>t DEF SweepTypes, IdleSweep
    <2>5. \A d \in due : Reached(d.sym)' => Reached(d.sym)
      BY <2>1, <2>4 DEF Reached, Sweeping
    <2>6. ReachedIsStored'
      BY <2>1, <2>5, <1>t DEF ReachedIsStored, Covered
    <2>7. QED
      BY <2>2, <2>3, <2>6
  <1>7. ASSUME EndSweep \/ EndUndeleted PROVE SweepInv'
    <2>1. /\ sweep' = [sweep EXCEPT !.at = "ended"]
          /\ sweep.at = "asking" /\ Finished(sweep)
          /\ checkpoint' = checkpoint \/ checkpoint' = 0
          /\ UNCHANGED <<keyValid, mainMarket, filed, statements, due, excused>>
      BY <1>7 DEF EndSweep, EndUndeleted
    <2>2. SweepTypes'
      BY <2>1, <1>t DEF SweepTypes
    <2>3. DueIsListed'
      BY <2>1, <1>t DEF DueIsListed, Covered, Sweeping, SweepTypes
    <2>4. sweep'.at = "ended" /\ (~Limited(sweep)' => Remaining(sweep) = {})
      BY <2>1, <1>t DEF SweepTypes, Finished, Limited
    <2>5. \A d \in due : /\ d.sym \in FinSymbols /\ d.sym \in sweep.brands
                         /\ Remaining(sweep) = {} => Reached(d.sym)
      BY <2>1, <1>t, <1>d DEF DueIsListed, Sweeping, Remaining, Reached, SweepTypes
    <2>6. \A d \in due : Reached(d.sym)' => Reached(d.sym)
      BY <2>1, <2>4, <2>5, <1>d, <1>t DEF Reached, Sweeping, SweepTypes
    <2>7. ReachedIsStored'
      BY <2>1, <2>6, <1>t DEF ReachedIsStored, Covered
    <2>8. QED
      BY <2>2, <2>3, <2>7
  <1>8. ASSUME NEW d \in Documents, File(d) PROVE SweepInv'
    <2>1. /\ filed' = {e \in filed : ~SameDocument(d, e)} \cup {d}
          /\ \A e \in filed : SameDocument(d, e) => e.version < d.version
          /\ UNCHANGED <<keyValid, mainMarket, statements, checkpoint, sweep, due, excused>>
      BY <1>8 DEF File
    <2>2. IsFiniteSet(filed')
      <3>1. IsFiniteSet({e \in filed : ~SameDocument(d, e)})
        BY <1>t, FS_Subset DEF SweepTypes
      <3>2. QED
        BY <3>1, <2>1, FS_AddElement
    <2>3. SweepTypes'
      BY <2>1, <2>2, <1>t DEF SweepTypes
    <2>4. \A x \in due : Covered(x, filed')
      <3> SUFFICES ASSUME NEW x \in due PROVE Covered(x, filed')
        OBVIOUS
      <3>1. PICK e \in filed : SameDocument(x, e) /\ e.version >= x.version
        BY <1>t DEF DueIsListed, Covered
      <3>2. CASE SameDocument(d, e)
        <4>1. x.version \in Int /\ e.version \in Int /\ d.version \in Int
          BY <1>t DEF SweepTypes, DocumentsAreNumbered
        <4>2. SameDocument(x, d) /\ d.version >= x.version
          BY <2>1, <3>1, <3>2, <4>1 DEF SameDocument
        <4>3. QED
          BY <2>1, <4>2 DEF Covered
      <3>3. CASE ~SameDocument(d, e)
        BY <2>1, <3>1, <3>3 DEF Covered
      <3>4. QED
        BY <3>2, <3>3
    <2>5. DueIsListed'
      BY <2>1, <2>4, <1>t DEF DueIsListed, Sweeping
    <2>6. ReachedIsStored'
      BY <2>1, <1>t DEF ReachedIsStored, Reached, Sweeping, Covered
    <2>7. QED
      BY <2>3, <2>5, <2>6
  <1>9. ASSUME \/ \E s \in FinSymbols : List(s)
               \/ KeyChanges \/ CheckpointExpires
        PROVE  SweepInv'
    <2>1. /\ mainMarket \subseteq mainMarket' /\ mainMarket' \subseteq FinSymbols
          /\ keyValid' \in BOOLEAN
          /\ checkpoint' = checkpoint \/ checkpoint' = 0
          /\ UNCHANGED <<filed, statements, sweep, due, excused>>
      BY <1>9, <1>t DEF List, KeyChanges, CheckpointExpires, SweepTypes
    <2>2. SweepTypes'
      BY <2>1, <1>t DEF SweepTypes
    <2>3. DueIsListed'
      BY <2>1, <1>t DEF DueIsListed, Covered, Sweeping
    <2>4. checkpoint \in Nat /\ \A d \in due : d.sym \in Nat \ {0}
      BY <1>d, <1>t DEF SweepTypes
    <2>5. \A d \in due : d.sym <= checkpoint' => d.sym <= checkpoint
      BY <2>1, <2>4
    <2>6. \A d \in due : Reached(d.sym)' => Reached(d.sym)
      BY <2>1, <2>5 DEF Reached, Sweeping
    <2>7. ReachedIsStored'
      BY <2>1, <2>6, <1>t DEF ReachedIsStored, Covered
    <2>8. QED
      BY <2>2, <2>3, <2>7
  <1>10. QED
    BY <1>1, <1>4, <1>5, <1>6, <1>7, <1>8, <1>9 DEF FinNext

LEMMA SweepAlways == ASSUME DocumentsAreNumbered PROVE FinSpec => []SweepInv
  <1>1. FinInit => SweepInv
    BY SweepInitially
  <1>2. SweepInv /\ [FinNext]_finVars => SweepInv'
    <2>1. SweepInv /\ UNCHANGED finVars => SweepInv'
      BY DEF finVars, SweepInv, SweepTypes, DueIsListed, ReachedIsStored, Covered,
             Reached, Sweeping, Limited
    <2>2. QED
      BY <2>1, SweepStep
  <1>3. QED
    BY <1>1, <1>2, PTL DEF FinSpec

\* What J-Quants had when a sweep began from the start is stored for each symbol
\* the checkpoint has passed, and for all of them once a sweep without a limit
\* has ended, unless the symbol's request failed: through crashes, resumed runs,
\* checkpoints that were not saved, not deleted or have expired, amendments and
\* new brands (SyncFinStatementsAllStocks).
THEOREM SweepsAreComplete ==
    ASSUME DocumentsAreNumbered
    PROVE  FinSpec => []SweepIsComplete
  <1>1. SweepInv => SweepIsComplete
    BY DEF SweepInv, ReachedIsStored, Reached, SweepIsComplete, Covered
  <1>2. QED
    BY <1>1, SweepAlways, PTL

\* A sequence of a finite set without repetitions has every element.
LEMMA OrderIsWhole ==
    ASSUME NEW S, IsFiniteSet(S), NEW q \in [1 .. Cardinality(S) -> S],
           \A i, j \in 1 .. Cardinality(S) : i < j => q[i] # q[j]
    PROVE  Cardinality(S) \in Nat /\ \A x \in S : \E i \in 1 .. Cardinality(S) : q[i] = x
  <1> DEFINE n == Cardinality(S)
  <1>1. n \in Nat
    BY FS_CardinalityType
  <1> HIDE DEF n
  <1>2. \A i, j \in 1 .. n : q[i] = q[j] => i = j
    BY <1>1 DEF n
  <1>3. q \in Injection(1 .. n, S)
    BY <1>2 DEF Injection, IsInjective, n
  <1>4. IsFiniteSet(1 .. n) /\ Cardinality(1 .. n) = n
    BY <1>1, FS_Interval
  <1>5. q \in Surjection(1 .. n, S)
    BY <1>3, <1>4, FS_Injection DEF n
  <1>6. QED
    BY <1>1, <1>5 DEF Surjection, n

\* In whichever order the documents of a symbol are read, newest first.
LEMMA NewestIsFound ==
    ASSUME DocumentsAreNumbered, ValuationLimit \in Nat,
           NEW docs, docs \subseteq Documents, IsFiniteSet(docs), NEW q \in Orders(docs)
    PROVE  LET Annual(e) == e.type = "FY" /\ e.eps # 0
           IN  /\ \A d \in TrailingEPS(q), e \in docs : Annual(e) => e.day <= d.day
               /\ TrailingEPS(q) = {} => \A e \in docs : Annual(e) =>
                      Cardinality({d \in docs : d.day >= e.day}) > ValuationLimit
  <1> DEFINE n == Cardinality(docs)
             Annual(e) == e.type = "FY" /\ e.eps # 0
             read == {i \in 1 .. n : i <= ValuationLimit /\ Annual(q[i])}
  <1>1. /\ q \in [1 .. n -> docs]
        /\ \A i, j \in 1 .. n : i < j => q[i] # q[j] /\ q[i].day >= q[j].day
    BY DEF Orders
  <1>2. n \in Nat /\ \A x \in docs : \E i \in 1 .. n : q[i] = x
    <2>1. \A i, j \in 1 .. n : i < j => q[i] # q[j]
      BY <1>1
    <2>2. QED
      BY <1>1, <2>1, OrderIsWhole
  <1>3. \A i \in 1 .. n : q[i] \in docs /\ q[i].day \in Int
    BY <1>1 DEF DocumentsAreNumbered
  <1>4. TrailingEPS(q) = IF read = {} THEN {} ELSE {q[Min(read)]}
    BY <1>1 DEF TrailingEPS
  <1>5. read \subseteq Nat
    OBVIOUS
  <1> HIDE DEF n
  <1>6. \A i, j \in 1 .. n : i <= j => q[i].day >= q[j].day
    BY <1>1, <1>2, <1>3
  <1>7. ASSUME NEW e \in docs, Annual(e), read # {}
        PROVE  e.day <= q[Min(read)].day
    <2>1. PICK i \in 1 .. n : q[i] = e
      BY <1>2
    <2>2. Min(read) \in read /\ \A k \in read : Min(read) <= k
      BY <1>5, <1>7, LeastNumber
    <2> DEFINE m == Min(read)
    <2> HIDE DEF m
    <2>3. m \in 1 .. n /\ m <= ValuationLimit
      BY <2>2 DEF m
    <2>4. i <= ValuationLimit => m <= i
      BY <2>1, <2>2, <1>7 DEF m
    <2>5. m <= i
      BY <2>3, <2>4, <1>2
    <2>6. q[m].day >= e.day
      BY <2>1, <2>3, <2>5, <1>6
    <2>7. q[m].day \in Int /\ e.day \in Int
      BY <2>1, <2>3, <1>3
    <2>8. QED
      BY <2>6, <2>7 DEF m
  <1>8. ASSUME NEW e \in docs, Annual(e), read = {}
        PROVE  Cardinality({d \in docs : d.day >= e.day}) > ValuationLimit
    <2> DEFINE newer == {d \in docs : d.day >= e.day}
    <2>1. PICK i \in 1 .. n : q[i] = e
      BY <1>2
    <2>2. i > ValuationLimit
      BY <2>1, <1>8, <1>2
    <2>3. \A k \in 1 .. i : q[k] \in newer
      BY <2>1, <1>2, <1>3, <1>6
    <2> HIDE DEF newer
    <2> DEFINE f == [k \in 1 .. i |-> q[k]]
    <2>4. \A k, l \in 1 .. i : f[k] = f[l] => k = l
      BY <1>1, <1>2, <2>1
    <2>5. f \in Injection(1 .. i, newer)
      BY <2>3, <2>4 DEF Injection, IsInjective
    <2>6. IsFiniteSet(newer)
      BY FS_Subset DEF newer
    <2>7. Cardinality(1 .. i) <= Cardinality(newer) /\ Cardinality(1 .. i) = i
      BY <2>1, <2>5, <2>6, <1>2, FS_Injection, FS_Interval
    <2>8. Cardinality(newer) \in Nat
      BY <2>6, FS_CardinalityType
    <2>9. QED
      BY <2>1, <2>2, <2>7, <2>8, <1>2 DEF newer
  <1>9. QED
    BY <1>4, <1>7, <1>8

\* The earnings a valuation shows are those of the newest annual statement that
\* is stored, in whichever order documents of a day are read, and a newer one is
\* missed only behind ValuationLimit others, at any moment of a sweep
\* (GetValuation, extractFinancialValues).
THEOREM ValuationsAreNewest ==
    ASSUME DocumentsAreNumbered, ValuationLimit \in Nat
    PROVE  FinSpec => []ValuationIsNewest
  <1>1. ASSUME SweepInv PROVE ValuationIsNewest
    <2> SUFFICES ASSUME NEW s \in FinSymbols, NEW q \in Orders(Of(statements, s))
                 PROVE  LET docs == Of(statements, s)
                        IN  /\ \A d \in TrailingEPS(q), e \in docs :
                                   e.type = "FY" /\ e.eps # 0 => e.day <= d.day
                            /\ TrailingEPS(q) = {} =>
                                   \A e \in docs : e.type = "FY" /\ e.eps # 0 =>
                                       Cardinality({d \in docs : d.day >= e.day}) > ValuationLimit
                            /\ \A per \in PER(100, q) : per >= 0
      BY DEF ValuationIsNewest, Valuation
    <2> DEFINE docs == Of(statements, s)
    <2>1. docs \subseteq Documents /\ IsFiniteSet(docs)
      BY <1>1, FS_Subset DEF SweepInv, SweepTypes, Of
    <2>2. \A d \in TrailingEPS(q) : d.eps \in Int
      <3>1. \A i \in DOMAIN q : q[i] \in Documents
        BY <2>1 DEF Orders
      <3>2. \A d \in TrailingEPS(q) : \E i \in DOMAIN q : d = q[i]
        <4> DEFINE read == {i \in DOMAIN q : /\ i <= ValuationLimit
                                            /\ q[i].type = "FY" /\ q[i].eps # 0}
        <4>1. DOMAIN q \subseteq Nat
          BY DEF Orders
        <4>2. read # {} => Min(read) \in read
          BY <4>1, LeastNumber
        <4>3. TrailingEPS(q) = IF read = {} THEN {} ELSE {q[Min(read)]}
          BY DEF TrailingEPS
        <4> HIDE DEF read
        <4>4. read \subseteq DOMAIN q
          BY DEF read
        <4>5. QED
          BY <4>2, <4>3, <4>4
      <3>3. QED
        BY <3>1, <3>2 DEF DocumentsAreNumbered
    <2>3. \A e \in Int : e > 0 => 100 \div e >= 0
      OBVIOUS
    <2>4. \A per \in PER(100, q) : per >= 0
      BY <2>2, <2>3 DEF PER
    <2>5. QED
      BY <2>1, <2>4, NewestIsFound
  <1>2. QED
    BY <1>1, SweepAlways, PTL

-----------------------------------------------------------------------------
(* Pages put together *)

\* The partial concatenations of the first n sequences of q, in the order
\* FlattenSeq takes them.
Joins(f, q, n) ==
    f = [i \in 1 .. n |-> IF i = 1 THEN q[i] ELSE f[i - 1] \o q[i]]

JoinedAt(f, q, i) == f[i] = IF i = 1 THEN q[i] ELSE f[i - 1] \o q[i]

LEMMA JoinsAt ==
    ASSUME NEW f, NEW q, NEW n, Joins(f, q, n)
    PROVE  \A i \in 1 .. n : JoinedAt(f, q, i)
  <1> DEFINE Body(j) == IF j = 1 THEN q[j] ELSE f[j - 1] \o q[j]
  <1>1. f = [j \in 1 .. n |-> Body(j)]
    BY DEF Joins
  <1> HIDE DEF Body
  <1>2. \A i \in 1 .. n : f[i] = Body(i)
    BY <1>1
  <1>3. QED
    BY <1>2 DEF Body, JoinedAt

LEMMA JoinsExist ==
    ASSUME NEW U, NEW q \in Seq(Seq(U))
    PROVE  \A n \in 0 .. Len(q) : \E f : Joins(f, q, n)
  <1> DEFINE Bad == {n \in 0 .. Len(q) : ~ \E f : Joins(f, q, n)}
  <1>1. Len(q) \in Nat /\ Bad \subseteq 0 .. Len(q)
    OBVIOUS
  <1>2. 0 \notin Bad
    <2> DEFINE f == [i \in 1 .. 0 |-> q[i]]
    <2>1. f = [i \in 1 .. 0 |-> IF i = 1 THEN q[i] ELSE f[i - 1] \o q[i]]
      BY 1 .. 0 = {}
    <2>2. Joins(f, q, 0)
      BY <2>1 DEF Joins
    <2> HIDE DEF f
    <2>3. QED
      BY <2>2
  <1>3. ASSUME NEW n \in 1 .. Len(q), n - 1 \notin Bad
        PROVE  n \notin Bad
    <2>1. n - 1 \in 0 .. Len(q)
      BY <1>1
    <2>2. PICK f : Joins(f, q, n - 1)
      BY <1>3, <2>1
    <2> DEFINE g == [i \in 1 .. n |-> IF i = 1 THEN q[i] ELSE f[i - 1] \o q[i]]
    <2>3. \A i \in 1 .. n - 1 : JoinedAt(f, q, i)
      BY <2>2, JoinsAt
    <2>4. \A i \in 1 .. n - 1 : g[i] = f[i]
      BY <2>3, <1>1 DEF JoinedAt
    <2>5. \A i \in 1 .. n : i # 1 => i - 1 \in 1 .. n - 1
      BY <1>1
    <2>6. \A i \in 1 .. n : g[i] = IF i = 1 THEN q[i] ELSE g[i - 1] \o q[i]
      BY <2>4, <2>5
    <2>7. g = [i \in 1 .. n |-> IF i = 1 THEN q[i] ELSE g[i - 1] \o q[i]]
      BY <2>6
    <2>8. Joins(g, q, n)
      BY <2>7 DEF Joins
    <2> HIDE DEF g
    <2>9. QED
      BY <2>8
  <1> HIDE DEF Bad
  <1>4. Bad = {}
    <2> SUFFICES ASSUME Bad # {} PROVE FALSE
      OBVIOUS
    <2>0. Bad \subseteq Nat
      BY <1>1
    <2>1. PICK n \in Bad : \A k \in Bad : n <= k
      BY <2>0, LeastNumber
    <2>2. n \in 1 .. Len(q) /\ n - 1 \notin Bad
      BY <1>1, <1>2, <2>1
    <2>3. QED
      BY <1>3, <2>1, <2>2
  <1>5. QED
    BY <1>4 DEF Bad

LEMMA JoinsAreUnique ==
    ASSUME NEW U, NEW q \in Seq(Seq(U)), NEW r \in Seq(Seq(U)),
           NEW n \in 0 .. Len(q), n <= Len(r), \A i \in 1 .. n : q[i] = r[i],
           NEW m \in n .. Len(r),
           NEW f, Joins(f, q, n), NEW g, Joins(g, r, m)
    PROVE  \A i \in 1 .. n : f[i] = g[i] /\ f[i] \in Seq(U)
  <1> DEFINE Bad == {i \in 1 .. n : ~(f[i] = g[i] /\ f[i] \in Seq(U))}
  <1>1. /\ n \in Nat /\ m \in Nat /\ n <= m /\ Bad \subseteq 1 .. n
        /\ \A i \in 1 .. n : q[i] \in Seq(U)
    OBVIOUS
  <1>2. \A i \in 1 .. n : JoinedAt(f, q, i) /\ JoinedAt(g, r, i)
    <2>0. 1 .. n \subseteq 1 .. m
      <3> HIDE DEF Bad
      <3>1. QED
        BY <1>1
    <2>1. \A i \in 1 .. n : i \in 1 .. m
      BY <2>0
    <2>2. \A i \in 1 .. n : JoinedAt(f, q, i)
      BY JoinsAt
    <2>3. \A i \in 1 .. m : JoinedAt(g, r, i)
      BY JoinsAt
    <2>4. QED
      BY <2>1, <2>2, <2>3
  <1>3. 1 \notin Bad
    BY <1>1, <1>2 DEF JoinedAt
  <1>4. ASSUME NEW i \in 2 .. n, i - 1 \notin Bad
        PROVE  i \notin Bad
    <2>1. i \in 1 .. n /\ i - 1 \in 1 .. n /\ i # 1
      BY <1>1
    <2>2. f[i - 1] = g[i - 1] /\ f[i - 1] \in Seq(U)
      BY <1>4, <2>1
    <2>3. f[i] = f[i - 1] \o q[i] /\ g[i] = g[i - 1] \o q[i]
      BY <1>2, <2>1 DEF JoinedAt
    <2>4. f[i - 1] \o q[i] \in Seq(U)
      BY <1>1, <2>1, <2>2, ConcatProperties
    <2>5. QED
      BY <2>2, <2>3, <2>4
  <1> HIDE DEF Bad
  <1>5. Bad = {}
    <2> SUFFICES ASSUME Bad # {} PROVE FALSE
      OBVIOUS
    <2>0. Bad \subseteq Nat
      BY <1>1
    <2>1. PICK i \in Bad : \A k \in Bad : i <= k
      BY <2>0, LeastNumber
    <2>2. i \in 1 .. n /\ i # 1
      BY <1>1, <1>3, <2>1
    <2>3. i \in 2 .. n /\ i - 1 \in Nat /\ i - 1 < i
      BY <2>2
    <2>4. i - 1 \notin Bad
      BY <2>0, <2>1, <2>3
    <2>5. QED
      BY <1>4, <2>1, <2>3, <2>4
  <1>6. QED
    BY <1>5 DEF Bad

LEMMA FlattenIsJoin ==
    ASSUME NEW U, NEW q \in Seq(Seq(U)), Len(q) # 0
    PROVE  \E f : Joins(f, q, Len(q)) /\ FlattenSeq(q) = f[Len(q)]
  <1> DEFINE F == CHOOSE f : f = [i \in 1 .. Len(q) |-> IF i = 1 THEN q[i] ELSE f[i - 1] \o q[i]]
  <1>1. \E f : Joins(f, q, Len(q))
    <2>1. Len(q) \in 0 .. Len(q)
      OBVIOUS
    <2>2. QED
      BY <2>1, JoinsExist, Zenon
  <1>2. F = [i \in 1 .. Len(q) |-> IF i = 1 THEN q[i] ELSE F[i - 1] \o q[i]]
    BY <1>1, Zenon DEF Joins
  <1>3. FlattenSeq(q) = F[Len(q)]
    BY DEF FlattenSeq
  <1>4. QED
    BY <1>2, <1>3, Zenon DEF Joins

\* One page more.
LEMMA FlattenAppend ==
    ASSUME NEW U, NEW q \in Seq(Seq(U)), NEW t \in Seq(U)
    PROVE  /\ FlattenSeq(<<>>) = <<>>
           /\ FlattenSeq(q) \in Seq(U)
           /\ FlattenSeq(Append(q, t)) = FlattenSeq(q) \o t
  <1> DEFINE n == Len(q)
             r == Append(q, t)
  <1>1. FlattenSeq(<<>>) = <<>>
    BY DEF FlattenSeq
  <1>2. /\ n \in Nat /\ r \in Seq(Seq(U)) /\ Len(r) = n + 1
        /\ \A i \in 1 .. n : r[i] = q[i]
        /\ r[n + 1] = t
    BY AppendProperties
  <1> HIDE DEF r
  <1>3. PICK g : Joins(g, r, n + 1) /\ FlattenSeq(r) = g[n + 1]
    BY <1>2, FlattenIsJoin
  <1>4. g[n + 1] = IF n + 1 = 1 THEN r[n + 1] ELSE g[n] \o r[n + 1]
    <2>1. n + 1 \in 1 .. n + 1 /\ (n + 1) - 1 = n
      BY <1>2
    <2>2. JoinedAt(g, r, n + 1)
      BY <1>3, <2>1, JoinsAt
    <2>3. QED
      BY <2>1, <2>2 DEF JoinedAt
  <1>5. CASE n = 0
    <2>1. q = <<>>
      BY <1>5, EmptySeq
    <2>2. FlattenSeq(r) = t
      BY <1>2, <1>3, <1>4, <1>5
    <2>3. <<>> \in Seq(U) /\ <<>> \o t = t
      BY ConcatEmptySeq, EmptySeq
    <2>4. QED
      BY <1>1, <2>1, <2>2, <2>3 DEF r
  <1>6. CASE n # 0
    <2>1. PICK f : Joins(f, q, n) /\ FlattenSeq(q) = f[n]
      BY <1>6, FlattenIsJoin
    <2>2. f[n] = g[n] /\ f[n] \in Seq(U)
      <3>1. /\ n \in 0 .. Len(q) /\ n <= Len(r) /\ n + 1 \in n .. Len(r)
            /\ \A i \in 1 .. n : q[i] = r[i]
        BY <1>2
      <3>2. \A i \in 1 .. n : f[i] = g[i] /\ f[i] \in Seq(U)
        BY <3>1, <1>2, <1>3, <2>1, JoinsAreUnique
      <3>3. QED
        BY <3>2, <1>2, <1>6
    <2>3. QED
      BY <1>1, <1>2, <1>3, <1>4, <1>6, <2>1, <2>2 DEF r
  <1>7. QED
    BY <1>5, <1>6

-----------------------------------------------------------------------------
(* What one query delivers *)

\* A set put in a sequence is there whole, each member once.
LEMMA SequenceIsWhole ==
    ASSUME NEW items, IsFiniteSet(items), NEW q \in SetToSeqs(items)
    PROVE  LET n == Cardinality(items)
           IN  /\ n \in Nat /\ q \in [1 .. n -> items] /\ q \in Seq(items) /\ Len(q) = n
               /\ \A i, j \in 1 .. n : q[i] = q[j] => i = j
               /\ \A x \in items : \E i \in 1 .. n : q[i] = x
  <1> DEFINE n == Cardinality(items)
  <1>1. n \in Nat
    BY FS_CardinalityType
  <1>2. /\ q \in [1 .. n -> items]
        /\ \A i, j \in 1 .. n : q[i] = q[j] => i = j
    BY DEF SetToSeqs
  <1>3. q \in Seq(items) /\ Len(q) = n
    BY <1>1, <1>2
  <1>4. q \in Injection(1 .. n, items)
    BY <1>2 DEF Injection, IsInjective
  <1>5. IsFiniteSet(1 .. n) /\ Cardinality(1 .. n) = n
    BY <1>1, FS_Interval
  <1>6. q \in Surjection(1 .. n, items)
    BY <1>4, <1>5, FS_Injection
  <1>7. QED
    BY <1>1, <1>2, <1>3, <1>6 DEF Surjection

\* A delivery has each item once, in an order the query allows.
LEMMA DeliveryIsWhole ==
    ASSUME NEW items, IsFiniteSet(items), NEW q \in Deliveries(items)
    PROVE  LET n == Cardinality(items)
           IN  /\ n \in Nat /\ q \in [1 .. n -> items] /\ q \in Seq(items) /\ Len(q) = n
               /\ \A i, j \in 1 .. n : q[i] = q[j] => i = j
               /\ \A x \in items : \E i \in 1 .. n : q[i] = x
               /\ \A i, j \in 1 .. n : i < j => ~Precedes(q[j], q[i])
  <1>1. /\ q \in SetToSeqs(items)
        /\ \A i, j \in DOMAIN q : i < j => ~Precedes(q[j], q[i])
    BY DEF Deliveries
  <1>2. QED
    BY <1>1, SequenceIsWhole

LEMMA Leasts ==
    ASSUME NEW a \in Int, NEW b \in Int
    PROVE  /\ LeastOf(a, b) \in Int /\ LeastOf(a, b) <= a /\ LeastOf(a, b) <= b
           /\ LeastOf(a, b) = a \/ LeastOf(a, b) = b
  BY DEF LeastOf

Ascending(q) == \A i, j \in DOMAIN q : i < j => q[i].symbol < q[j].symbol

\* A page from a cursor has the items from the cursor to the next one, in order.
LEMMA CursorPage ==
    ASSUME NEW I, IsFiniteSet(I), \A x \in I : x.symbol \in Nat,
           \A x, y \in I : x # y => x.symbol # y.symbol,
           listing \in CursorListings, PageLimit \in Nat \ {0}, cursor \in Nat,
           NEW q \in Deliveries({x \in I : x.symbol >= cursor})
    PROVE  LET found == SubSeq(q, 1, LeastOf(Len(q), PageLimit + 1))
               shown == SubSeq(found, 1, LeastOf(Len(found), PageLimit))
               next == NextCursor(found)
           IN  /\ shown \in Seq(I) /\ Ascending(shown)
               /\ \A i \in DOMAIN shown : cursor <= shown[i].symbol
               /\ Len(found) > PageLimit =>
                      /\ next \in Nat /\ shown # <<>>
                      /\ \A i \in DOMAIN shown : shown[i].symbol < next
                      /\ \A x \in I : x.symbol < next =>
                             x.symbol < cursor \/ x \in Range(shown)
               /\ ~(Len(found) > PageLimit) =>
                      \A x \in I : x.symbol < cursor \/ x \in Range(shown)
  <1> DEFINE J == {x \in I : x.symbol >= cursor}
             n == Cardinality(J)
             found == SubSeq(q, 1, LeastOf(Len(q), PageLimit + 1))
             shown == SubSeq(found, 1, LeastOf(Len(found), PageLimit))
             k == LeastOf(n, PageLimit + 1)
             m == LeastOf(k, PageLimit)
  <1>1. IsFiniteSet(J)
    BY FS_Subset
  <1>a. q \in Deliveries(J) /\ \A x \in J : x \in I /\ cursor <= x.symbol /\ x.symbol \in Nat
    OBVIOUS
  <1>b. \A x \in I : x.symbol < cursor \/ x \in J
    OBVIOUS
  <1> HIDE DEF J
  <1>2. /\ n \in Nat /\ q \in [1 .. n -> J] /\ Len(q) = n
        /\ \A i, j \in 1 .. n : q[i] = q[j] => i = j
        /\ \A x \in J : \E i \in 1 .. n : q[i] = x
        /\ \A i, j \in 1 .. n : i < j => ~Precedes(q[j], q[i])
    BY <1>1, <1>a, DeliveryIsWhole
  <1> HIDE DEF n
  <1>3. /\ k \in Nat /\ k <= n /\ k <= PageLimit + 1 /\ (k = n \/ k = PageLimit + 1)
        /\ m \in Nat /\ m <= k /\ m <= PageLimit /\ (m = k \/ m = PageLimit)
    <2>0. n \in Int /\ PageLimit + 1 \in Int /\ PageLimit \in Int
      BY <1>2
    <2>1. k \in Int /\ k <= n /\ k <= PageLimit + 1 /\ (k = n \/ k = PageLimit + 1)
      BY <2>0, Leasts
    <2> HIDE DEF k
    <2>2. m \in Int /\ m <= k /\ m <= PageLimit /\ (m = k \/ m = PageLimit)
      BY <2>0, <2>1, Leasts
    <2>3. QED
      BY <2>1, <2>2, <1>2
  <1> HIDE DEF k, m
  <1>4. \A i \in 1 .. n : q[i] \in I /\ cursor <= q[i].symbol /\ q[i].symbol \in Nat
    BY <1>2, <1>a
  <1>5. \A i, j \in 1 .. n : i < j => q[i].symbol < q[j].symbol
    <2>1. \A i, j \in 1 .. n : i < j => ~(q[j].symbol < q[i].symbol)
      BY <1>2 DEF Precedes, BySymbol, CursorListings
    <2>2. \A i, j \in 1 .. n : i < j => q[i].symbol # q[j].symbol
      BY <1>2, <1>4
    <2>3. QED
      BY <2>1, <2>2, <1>4
  <1>6. found \in Seq(I) /\ Len(found) = k /\ \A i \in 1 .. k : found[i] = q[i]
    <2>1. \A i \in 1 .. k : q[i] \in I
      BY <1>3, <1>4, <1>2
    <2>2. found = SubSeq(q, 1, k)
      BY <1>2 DEF k
    <2> HIDE DEF found
    <2>3. QED
      BY <2>1, <2>2, <1>3, SubSeqProperties
  <1>7. shown \in Seq(I) /\ Len(shown) = m /\ \A i \in 1 .. m : shown[i] = q[i]
    <2>1. \A i \in 1 .. m : found[i] \in I
      BY <1>3, <1>6
    <2>2. shown = SubSeq(found, 1, m)
      BY <1>6 DEF m
    <2> HIDE DEF found, shown
    <2>3. shown \in Seq(I) /\ Len(shown) = m /\ \A i \in 1 .. m : shown[i] = found[i]
      BY <2>1, <2>2, <1>3, SubSeqProperties
    <2>4. QED
      BY <2>3, <1>6, <1>3
  <1> HIDE DEF found, shown
  <1>8. DOMAIN shown = 1 .. m /\ \A i \in 1 .. m : i \in 1 .. n
    BY <1>3, <1>7, <1>2
  <1>9. Ascending(shown) /\ \A i \in DOMAIN shown : cursor <= shown[i].symbol
    BY <1>4, <1>5, <1>7, <1>8 DEF Ascending
  <1>10. \A i \in 1 .. m : q[i] \in Range(shown)
    BY <1>7, <1>8 DEF Range
  <1>11. \A x \in I : x.symbol < cursor \/ \E i \in 1 .. n : q[i] = x
    BY <1>2, <1>b
  <1>12. ASSUME Len(found) > PageLimit
         PROVE  /\ NextCursor(found) \in Nat /\ shown # <<>>
                /\ \A i \in DOMAIN shown : shown[i].symbol < NextCursor(found)
                /\ \A x \in I : x.symbol < NextCursor(found) =>
                       x.symbol < cursor \/ x \in Range(shown)
    <2>1. k = PageLimit + 1 /\ m = PageLimit /\ k \in 1 .. n
      BY <1>12, <1>3, <1>6
    <2>2. NextCursor(found) = q[k].symbol
      BY <2>1, <1>3, <1>6 DEF NextCursor
    <2>3. \A i \in 1 .. m : q[i].symbol < q[k].symbol
      BY <2>1, <1>5, <1>8, <1>3
    <2>4. ASSUME NEW x \in I, x.symbol < q[k].symbol, ~(x.symbol < cursor)
          PROVE  x \in Range(shown)
      <3>1. PICK i \in 1 .. n : q[i] = x
        BY <2>4, <1>11
      <3>2. i < k
        <4> SUFFICES ASSUME ~(i < k) PROVE FALSE
          OBVIOUS
        <4>1. i = k \/ k < i
          BY <3>1, <2>1, <1>3, <1>2
        <4>2. x.symbol \in Nat /\ q[k].symbol \in Nat
          BY <2>1, <1>4
        <4>3. QED
          BY <4>1, <4>2, <3>1, <2>1, <2>4, <1>5
      <3>3. i \in 1 .. m
        BY <3>1, <3>2, <2>1, <1>3, <1>2
      <3>4. QED
        BY <3>1, <3>3, <1>10
    <2>5. shown # <<>>
      BY <1>7, <2>1
    <2>6. \A i \in DOMAIN shown : shown[i].symbol < NextCursor(found)
      BY <2>2, <2>3, <1>7, <1>8
    <2>7. QED
      BY <2>1, <2>2, <2>4, <2>5, <2>6, <1>4
  <1>13. ASSUME ~(Len(found) > PageLimit)
         PROVE  \A x \in I : x.symbol < cursor \/ x \in Range(shown)
    <2>1. m = n
      BY <1>13, <1>3, <1>6, <1>2
    <2>2. QED
      BY <2>1, <1>10, <1>11
  <1>14. QED
    BY <1>7, <1>9, <1>12, <1>13 DEF found, shown

\* The order tells any two items apart.
Ordered(items) ==
    \A x, y \in items : x # y =>
        (Precedes(x, y) \/ Precedes(y, x)) /\ ~(Precedes(x, y) /\ Precedes(y, x))

Irreflexive(items) == \A x \in items : ~Precedes(x, x)

\* How many items come before one.
Rank(items, x) == Cardinality({y \in items : Precedes(y, x)})

LEMMA RankIsPlace ==
    ASSUME NEW items, IsFiniteSet(items), Ordered(items), Irreflexive(items),
           NEW q \in Deliveries(items), NEW k \in 1 .. Cardinality(items)
    PROVE  Rank(items, q[k]) = k - 1
  <1> DEFINE n == Cardinality(items)
             B == {y \in items : Precedes(y, q[k])}
             f == [i \in 1 .. k - 1 |-> q[i]]
  <1>1. /\ n \in Nat /\ q \in [1 .. n -> items] /\ k \in 1 .. n
        /\ \A i, j \in 1 .. n : q[i] = q[j] => i = j
        /\ \A x \in items : \E i \in 1 .. n : q[i] = x
        /\ \A i, j \in 1 .. n : i < j => ~Precedes(q[j], q[i])
    BY DeliveryIsWhole
  <1> HIDE DEF n
  <1>2. \A i \in 1 .. k - 1 : i \in 1 .. n /\ i < k
    BY <1>1
  <1>3. \A i \in 1 .. k - 1 : Precedes(q[i], q[k])
    BY <1>1, <1>2 DEF Ordered
  <1>4. \A x \in B : \E i \in 1 .. k - 1 : q[i] = x
    <2> SUFFICES ASSUME NEW x \in B PROVE \E i \in 1 .. k - 1 : q[i] = x
      OBVIOUS
    <2>1. PICK i \in 1 .. n : q[i] = x
      BY <1>1
    <2>2. i # k /\ ~(k < i)
      BY <1>1, <2>1 DEF Irreflexive
    <2>3. i \in 1 .. k - 1
      BY <1>1, <2>1, <2>2
    <2>4. QED
      BY <2>1, <2>3
  <1>5. f \in Bijection(1 .. k - 1, B)
    <2>1. \A i \in 1 .. k - 1 : q[i] \in B
      BY <1>1, <1>2, <1>3
    <2> HIDE DEF B
    <2>2. f \in [1 .. k - 1 -> B]
      BY <2>1
    <2>3. \A i, j \in 1 .. k - 1 : f[i] = f[j] => i = j
      BY <1>1, <1>2
    <2>4. \A x \in B : \E i \in 1 .. k - 1 : f[i] = x
      BY <1>4
    <2> HIDE DEF f
    <2>5. QED
      BY <2>2, <2>3, <2>4 DEF Bijection, Injection, Surjection, IsInjective
  <1> HIDE DEF f, B
  <1>6. IsFiniteSet(1 .. k - 1) /\ Cardinality(1 .. k - 1) = k - 1
    <2>1. 1 \in Int /\ k - 1 \in Int
      BY <1>1
    <2>2. /\ IsFiniteSet(1 .. k - 1)
          /\ Cardinality(1 .. k - 1) = IF 1 > k - 1 THEN 0 ELSE (k - 1) - 1 + 1
      BY <2>1, FS_Interval
    <2>3. (IF 1 > k - 1 THEN 0 ELSE (k - 1) - 1 + 1) = k - 1
      BY <1>1
    <2>4. QED
      BY <2>2, <2>3
  <1>7. Cardinality(B) = k - 1
    BY <1>5, <1>6, FS_Bijection DEF ExistsBijection
  <1>8. QED
    BY <1>7 DEF Rank, B

LEMMA RankIsSmall ==
    ASSUME NEW items, IsFiniteSet(items), Irreflexive(items), NEW x \in items
    PROVE  Rank(items, x) \in Nat /\ Rank(items, x) < Cardinality(items)
  <1> DEFINE B == {y \in items : Precedes(y, x)}
  <1>1. IsFiniteSet(items \ {x}) /\ Cardinality(items \ {x}) = Cardinality(items) - 1
    BY FS_RemoveElement
  <1>2. B \subseteq items \ {x}
    BY DEF Irreflexive
  <1>3. IsFiniteSet(B) /\ Cardinality(B) <= Cardinality(items \ {x})
    BY <1>1, <1>2, FS_Subset
  <1>4. Cardinality(B) \in Nat /\ Cardinality(items) \in Nat
    BY <1>3, FS_CardinalityType
  <1>5. Rank(items, x) = Cardinality(B)
    BY DEF Rank
  <1> HIDE DEF B
  <1>6. QED
    BY <1>1, <1>3, <1>4, <1>5

\* A page by number has the items whose place is on it, in order.
LEMMA NumberedPage ==
    ASSUME NEW items, IsFiniteSet(items), Ordered(items), Irreflexive(items),
           NEW q \in Deliveries(items), PageLimit \in Nat \ {0}, page \in Nat \ {0}
    PROVE  /\ PageOf(q) \in Seq(items)
           /\ \A i, j \in DOMAIN PageOf(q) : i < j => Precedes(PageOf(q)[i], PageOf(q)[j])
           /\ Range(PageOf(q)) = {x \in items : /\ Offset <= Rank(items, x)
                                                /\ Rank(items, x) < Offset + PageLimit}
           /\ \A x, y \in items : Rank(items, x) < Rank(items, y) => Precedes(x, y)
  <1> DEFINE n == Cardinality(items)
             a == Offset
             k == LeastOf(n, a + PageLimit)
             p == PageOf(q)
  <1>1. /\ n \in Nat /\ q \in [1 .. n -> items] /\ Len(q) = n
        /\ \A i, j \in 1 .. n : q[i] = q[j] => i = j
        /\ \A x \in items : \E i \in 1 .. n : q[i] = x
        /\ \A i, j \in 1 .. n : i < j => ~Precedes(q[j], q[i])
    BY DeliveryIsWhole
  <1>2. \A i \in 1 .. n : Rank(items, q[i]) = i - 1
    BY RankIsPlace
  <1>3. \A i, j \in 1 .. n : i < j => Precedes(q[i], q[j])
    BY <1>1 DEF Ordered
  <1> HIDE DEF n
  <1>4. a \in Nat
    <2>1. page - 1 \in Nat
      OBVIOUS
    <2>2. QED
      BY <2>1 DEF Offset
  <1> HIDE DEF a
  <1>5. k \in Nat /\ k <= n /\ k <= a + PageLimit /\ (k = n \/ k = a + PageLimit)
    <2>1. n \in Int /\ a + PageLimit \in Int /\ a + PageLimit \in Nat
      BY <1>1, <1>4
    <2>2. k \in Int /\ k <= n /\ k <= a + PageLimit /\ (k = n \/ k = a + PageLimit)
      BY <2>1, Leasts
    <2> HIDE DEF k
    <2>3. QED
      BY <2>1, <2>2, <1>1
  <1>6. p = SubSeq(q, a + 1, k)
    BY <1>1 DEF PageOf, a
  <1> HIDE DEF k, p
  <1>7. /\ p \in Seq(items)
        /\ Len(p) = IF a + 1 <= k THEN k - a ELSE 0
        /\ \A i \in 1 .. k - a : p[i] = q[a + i]
    <2>1. \A i \in a + 1 .. k : q[i] \in items
      BY <1>1, <1>4, <1>5
    <2>2. a + 1 \in Int /\ k \in Int
      BY <1>4, <1>5
    <2>3. /\ p \in Seq(items)
          /\ Len(p) = IF a + 1 <= k THEN k - (a + 1) + 1 ELSE 0
          /\ \A i \in 1 .. k - (a + 1) + 1 : p[i] = q[(a + 1) + i - 1]
      BY <1>6, <2>1, <2>2, SubSeqProperties
    <2>4. k - (a + 1) + 1 = k - a
      BY <1>4, <1>5
    <2>5. \A i \in 1 .. k - a : (a + 1) + i - 1 = a + i
      BY <1>4
    <2>6. \A i \in 1 .. k - a : p[i] = q[(a + 1) + i - 1]
      BY <2>3, <2>4
    <2>7. \A i \in 1 .. k - a : p[i] = q[a + i]
      BY <2>5, <2>6
    <2>8. Len(p) = IF a + 1 <= k THEN k - a ELSE 0
      BY <2>3, <2>4
    <2>9. QED
      BY <2>3, <2>7, <2>8
  <1>8. DOMAIN p = 1 .. k - a
    BY <1>7, <1>4, <1>5
  <1>9. \A i \in 1 .. k - a : a + i \in 1 .. n /\ p[i] = q[a + i]
    BY <1>4, <1>5, <1>7, <1>1
  <1>10. \A i, j \in DOMAIN p : i < j => Precedes(p[i], p[j])
    BY <1>3, <1>8, <1>9, <1>4
  <1>11. ASSUME NEW x \in items
         PROVE  x \in Range(p) <=> a <= Rank(items, x) /\ Rank(items, x) < a + PageLimit
    <2>1. PICK i \in 1 .. n : q[i] = x
      BY <1>1
    <2>2. Rank(items, x) = i - 1
      BY <1>2, <2>1
    <2>3. x \in Range(p) <=> \E j \in 1 .. k - a : a + j = i
      BY <2>1, <1>1, <1>8, <1>9 DEF Range
    <2>4. (\E j \in 1 .. k - a : a + j = i) <=> a < i /\ i <= k
      <3>1. a < i /\ i <= k => i - a \in 1 .. k - a /\ a + (i - a) = i
        BY <2>1, <1>1, <1>4, <1>5
      <3>2. QED
        BY <3>1, <2>1, <1>1, <1>4, <1>5
    <2>5. i <= k <=> i <= a + PageLimit
      BY <2>1, <1>1, <1>4, <1>5
    <2>6. QED
      BY <2>1, <2>2, <2>3, <2>4, <2>5, <1>1, <1>4
  <1>12. Range(p) \subseteq items
    BY <1>7 DEF Range
  <1>13. \A x, y \in items : Rank(items, x) < Rank(items, y) => Precedes(x, y)
    <2> SUFFICES ASSUME NEW x \in items, NEW y \in items, Rank(items, x) < Rank(items, y)
                 PROVE  Precedes(x, y)
      OBVIOUS
    <2>1. PICK i \in 1 .. n : q[i] = x
      BY <1>1
    <2>2. PICK j \in 1 .. n : q[j] = y
      BY <1>1
    <2>3. i < j
      BY <2>1, <2>2, <1>2, <1>1
    <2>4. QED
      BY <2>1, <2>2, <2>3, <1>3
  <1>14. Range(p) = {x \in items : a <= Rank(items, x) /\ Rank(items, x) < a + PageLimit}
    BY <1>11, <1>12
  <1>15. QED
    BY <1>7, <1>10, <1>13, <1>14 DEF p, a

\* The pages by number are enough for what was counted.
LEMMA PagesSuffice ==
    ASSUME PageLimit \in Nat \ {0}, page \in Nat \ {0}, total \in Nat, page >= TotalPages
    PROVE  total <= page * PageLimit
  <1>1. CASE total = 0
    <2>1. page * PageLimit \in Nat
      OBVIOUS
    <2>2. QED
      BY <1>1, <2>1
  <1>2. CASE total # 0
    <2> DEFINE x == total + PageLimit - 1
               t == x \div PageLimit
    <2>1. page >= t
      BY <1>2 DEF TotalPages
    <2>2. x \in Nat /\ t \in Int /\ x < PageLimit * t + PageLimit
      OBVIOUS
    <2> HIDE DEF t
    <2>3. PageLimit * t <= PageLimit * page
      BY <2>1, <2>2
    <2>4. page * PageLimit = PageLimit * page /\ PageLimit * page \in Int /\ PageLimit * t \in Int
      BY <2>2
    <2>5. QED
      BY <2>2, <2>3, <2>4
  <1>3. QED
    BY <1>1, <1>2
-----------------------------------------------------------------------------
(* A client that reads a listing to its end *)

\* What a page may have: a row, or the stock of a group of signals.
Listable == TableRows \cup {[symbol |-> r.symbol, day |-> r.day] : r \in TableRows}

PagingTypes ==
    /\ rows \subseteq ever /\ ever \subseteq TableRows /\ stable \subseteq rows
    /\ listing \in Listings
    /\ step \in (IF listing \in CursorListings THEN {"find", "done"}
                 ELSE {"count", "find", "byDates", "done"})
    /\ step = "byDates" => listing = "dates"
    /\ page \in Nat \ {0} /\ cursor \in Nat /\ total \in Nat /\ changes \in Nat
    /\ answered \in Seq(Seq(Listable))

\* A client of a cursor that must see K has the members of K up to the cursor,
\* and at the end all of them.
ReadUpTo(K, pages, s, c) ==
    LET A == FlattenSeq(pages)
    IN  /\ Ascending(A)
        /\ s = "find" => /\ \A i \in DOMAIN A : A[i].symbol < c
                         /\ \A x \in K : x.symbol < c => x \in Range(A)
                         /\ pages # <<>> => A # <<>>
        /\ s = "done" => K \subseteq Range(A)

StableAreRead ==
    listing \in {"brands", "highVolume"} /\ ~Crowded => ReadUpTo(stable, answered, step, cursor)

GroupsAreRead ==
    listing = "signals" /\ changes = 0 =>
        /\ ReadUpTo(SignalGroups(rows), answered, step, cursor)
        /\ Range(Answered) \subseteq SignalGroups(rows)

\* What a client of page numbers has when the items before an offset are those
\* of the pages read: items is what is counted, place says where a row belongs.
NumbersAreRead ==
    /\ listing = "history" \/ (listing = "announcements" /\ \A a, b \in rows : a # b => a.day # b.day)
    /\ changes = 0
    => /\ \A i, j \in DOMAIN Answered : i < j => Precedes(Answered[i], Answered[j])
       /\ Range(Answered) = {r \in rows : Rank(rows, r) < Offset}
       /\ step = "find" => total = Cardinality(rows)
       /\ step = "done" => Cardinality(rows) <= Offset

DatesAreRead ==
    listing = "dates" /\ changes = 0 =>
        LET days == DistinctDates(rows)
        IN  /\ \A i, j \in DOMAIN Answered : i < j => NewestFirst(Answered[i], Answered[j])
            /\ Range(Answered) = {r \in rows : Rank(days, r.day) < Offset}
            /\ step = "byDates" => dates = {d \in days : /\ Offset <= Rank(days, d)
                                                         /\ Rank(days, d) < Offset + PageLimit}
            /\ step \in {"find", "byDates"} => total = Cardinality(days)
            /\ step = "done" => Cardinality(days) <= Offset

PagingInv == PagingTypes /\ StableAreRead /\ GroupsAreRead /\ NumbersAreRead /\ DatesAreRead

-----------------------------------------------------------------------------
(* The pages read so far, and one more *)

LEMMA OnePageMore ==
    ASSUME NEW U, NEW pages \in Seq(Seq(U)), NEW t \in Seq(U)
    PROVE  LET A == FlattenSeq(pages)
               B == FlattenSeq(Append(pages, t))
           IN  /\ A \in Seq(U) /\ B \in Seq(U)
               /\ DOMAIN B = 1 .. Len(A) + Len(t)
               /\ \A i \in 1 .. Len(A) : B[i] = A[i]
               /\ \A i \in 1 .. Len(t) : B[Len(A) + i] = t[i]
               /\ Range(B) = Range(A) \cup Range(t)
               /\ t # <<>> => B # <<>>
  <1> DEFINE A == FlattenSeq(pages)
             B == FlattenSeq(Append(pages, t))
  <1>1. A \in Seq(U) /\ B = A \o t
    BY FlattenAppend
  <1> HIDE DEF A, B
  <1>2. /\ B \in Seq(U) /\ Len(B) = Len(A) + Len(t)
        /\ \A i \in 1 .. Len(A) + Len(t) : B[i] = IF i <= Len(A) THEN A[i] ELSE t[i - Len(A)]
    BY <1>1, ConcatProperties
  <1>3. /\ Len(A) \in Nat /\ Len(t) \in Nat /\ DOMAIN B = 1 .. Len(A) + Len(t)
        /\ DOMAIN A = 1 .. Len(A) /\ DOMAIN t = 1 .. Len(t)
    BY <1>1, <1>2
  <1>4. \A i \in 1 .. Len(A) : i \in 1 .. Len(A) + Len(t) /\ B[i] = A[i]
    BY <1>2, <1>3
  <1>5. \A i \in 1 .. Len(t) : Len(A) + i \in 1 .. Len(A) + Len(t) /\ B[Len(A) + i] = t[i]
    <2> SUFFICES ASSUME NEW i \in 1 .. Len(t)
                 PROVE  Len(A) + i \in 1 .. Len(A) + Len(t) /\ B[Len(A) + i] = t[i]
      OBVIOUS
    <2>1. Len(A) + i \in 1 .. Len(A) + Len(t) /\ ~(Len(A) + i <= Len(A)) /\ (Len(A) + i) - Len(A) = i
      BY <1>3
    <2>2. QED
      BY <1>2, <2>1
  <1>6. \A i \in 1 .. Len(A) + Len(t) : B[i] \in Range(A) \cup Range(t)
    <2> SUFFICES ASSUME NEW i \in 1 .. Len(A) + Len(t) PROVE B[i] \in Range(A) \cup Range(t)
      OBVIOUS
    <2>1. CASE i <= Len(A)
      BY <2>1, <1>3, <1>4 DEF Range
    <2>2. CASE ~(i <= Len(A))
      <3>1. i - Len(A) \in DOMAIN t /\ B[i] = t[i - Len(A)]
        BY <2>2, <1>2, <1>3
      <3>2. QED
        BY <3>1 DEF Range
    <2>3. QED
      BY <2>1, <2>2
  <1>7. Range(B) = Range(A) \cup Range(t)
    <2>1. Range(B) \subseteq Range(A) \cup Range(t)
      BY <1>3, <1>6 DEF Range
    <2>2. Range(A) \subseteq Range(B)
      BY <1>3, <1>4 DEF Range
    <2>3. Range(t) \subseteq Range(B)
      BY <1>3, <1>5 DEF Range
    <2>4. QED
      BY <2>1, <2>2, <2>3
  <1>8. t # <<>> => B # <<>>
    <2>1. t # <<>> => Len(t) # 0
      BY EmptySeq
    <2>2. QED
      BY <2>1, <1>2, <1>3
  <1>9. QED
    BY <1>1, <1>2, <1>3, <1>4, <1>5, <1>7, <1>8 DEF A, B

\* Any two of the pages' items are in the relation, in their order.
InOrder(R, q) == \A i, j \in DOMAIN q : i < j => <<q[i], q[j]>> \in R

LEMMA InOrderStill ==
    ASSUME NEW U, NEW pages \in Seq(Seq(U)), NEW t \in Seq(U), NEW R,
           InOrder(R, FlattenSeq(pages)), InOrder(R, t),
           \A x \in Range(FlattenSeq(pages)), y \in Range(t) : <<x, y>> \in R
    PROVE  InOrder(R, FlattenSeq(Append(pages, t)))
  <1> DEFINE A == FlattenSeq(pages)
             B == FlattenSeq(Append(pages, t))
  <1>1. /\ A \in Seq(U)
        /\ DOMAIN B = 1 .. Len(A) + Len(t)
        /\ \A i \in 1 .. Len(A) : B[i] = A[i]
        /\ \A i \in 1 .. Len(t) : B[Len(A) + i] = t[i]
    BY OnePageMore
  <1>2. /\ \A i, j \in DOMAIN A : i < j => <<A[i], A[j]>> \in R
        /\ \A i, j \in DOMAIN t : i < j => <<t[i], t[j]>> \in R
        /\ \A i \in DOMAIN A, j \in DOMAIN t : <<A[i], t[j]>> \in R
    BY DEF InOrder, Range
  <1> HIDE DEF A, B
  <1> SUFFICES ASSUME NEW i \in DOMAIN B, NEW j \in DOMAIN B, i < j PROVE <<B[i], B[j]>> \in R
    BY DEF InOrder, B
  <1> DEFINE m == Len(A)
             n == Len(t)
  <1>3. /\ m \in Nat /\ n \in Nat /\ DOMAIN A = 1 .. m /\ DOMAIN t = 1 .. n
        /\ i \in 1 .. m + n /\ j \in 1 .. m + n
    BY <1>1
  <1>4. \A k \in 1 .. m : B[k] = A[k]
    BY <1>1
  <1>5. \A k \in m + 1 .. m + n : k - m \in 1 .. n /\ B[k] = t[k - m]
    <2> SUFFICES ASSUME NEW k \in m + 1 .. m + n PROVE k - m \in 1 .. n /\ B[k] = t[k - m]
      OBVIOUS
    <2>1. k - m \in 1 .. n /\ m + (k - m) = k
      BY <1>3
    <2>2. QED
      BY <1>1, <2>1
  <1> HIDE DEF m, n
  <1>6. CASE i \in 1 .. m /\ j \in 1 .. m
    BY <1>6, <1>2, <1>3, <1>4
  <1>7. CASE i \in 1 .. m /\ j \in m + 1 .. m + n
    BY <1>7, <1>2, <1>3, <1>4, <1>5
  <1>8. CASE i \in m + 1 .. m + n /\ j \in m + 1 .. m + n
    <2>1. i - m < j - m
      BY <1>3, <1>8
    <2>2. QED
      BY <2>1, <1>8, <1>2, <1>3, <1>5
  <1>9. QED
    BY <1>3, <1>6, <1>7, <1>8

\* A page from the cursor on, put behind the pages before.
LEMMA CursorTurn ==
    ASSUME NEW U, \A x \in U : x.symbol \in Nat, NEW I \in SUBSET U, NEW K \in SUBSET I,
           NEW pages \in Seq(Seq(U)), NEW c \in Nat, ReadUpTo(K, pages, "find", c),
           NEW t \in Seq(I), Ascending(t), \A i \in DOMAIN t : c <= t[i].symbol
    PROVE  /\ \A d \in Nat :
                  /\ t # <<>> /\ \A i \in DOMAIN t : t[i].symbol < d
                  /\ \A x \in I : x.symbol < d => x.symbol < c \/ x \in Range(t)
                  => ReadUpTo(K, Append(pages, t), "find", d)
           /\ (\A x \in I : x.symbol < c \/ x \in Range(t)) =>
                  \A d : ReadUpTo(K, Append(pages, t), "done", d)
  <1> DEFINE A == FlattenSeq(pages)
             B == FlattenSeq(Append(pages, t))
             R == {p \in U \X U : p[1].symbol < p[2].symbol}
  <1>1. t \in Seq(U) /\ DOMAIN t = 1 .. Len(t) /\ \A i \in DOMAIN t : t[i] \in U
    OBVIOUS
  <1>2. /\ A \in Seq(U) /\ B \in Seq(U)
        /\ Range(B) = Range(A) \cup Range(t) /\ (t # <<>> => B # <<>>)
    BY <1>1, OnePageMore
  <1>3. /\ \A i \in DOMAIN A : A[i].symbol < c
        /\ \A x \in K : x.symbol < c => x \in Range(A)
        /\ \A i, j \in DOMAIN A : i < j => A[i].symbol < A[j].symbol
    BY DEF ReadUpTo, Ascending
  <1> HIDE DEF A, B
  <1>4. \A i \in DOMAIN A : A[i] \in U
    BY <1>2
  <1>5. \A x \in Range(A) : x \in U /\ x.symbol < c
    BY <1>3, <1>4 DEF Range
  <1>6. \A x \in Range(t) : x \in U /\ c <= x.symbol
    BY <1>1 DEF Range
  <1>7. InOrder(R, A)
    BY <1>3, <1>4 DEF InOrder
  <1>8. InOrder(R, t)
    BY <1>1 DEF InOrder, Ascending
  <1>9. \A x \in Range(A), y \in Range(t) : <<x, y>> \in R
    BY <1>5, <1>6
  <1> HIDE DEF R
  <1>10. InOrder(R, B)
    BY <1>1, <1>7, <1>8, <1>9, InOrderStill DEF A, B
  <1>11. Ascending(B)
    BY <1>10 DEF InOrder, R, Ascending
  <1>12. ASSUME NEW d \in Nat, t # <<>>, \A i \in DOMAIN t : t[i].symbol < d,
                \A x \in I : x.symbol < d => x.symbol < c \/ x \in Range(t)
         PROVE  ReadUpTo(K, Append(pages, t), "find", d)
    <2>1. 1 \in DOMAIN t
      BY <1>1, <1>12, EmptySeq
    <2>2. c < d
      <3>1. t[1] \in U /\ c <= t[1].symbol /\ t[1].symbol < d
        BY <2>1, <1>1, <1>12
      <3>2. QED
        BY <3>1
    <2>3. \A x \in Range(B) : x.symbol < d
      <3>1. \A x \in Range(t) : x.symbol < d
        BY <1>12 DEF Range
      <3>2. \A x \in Range(A) : x.symbol < d
        BY <1>5, <2>2
      <3>3. QED
        BY <3>1, <3>2, <1>2
    <2>4. \A i \in DOMAIN B : B[i].symbol < d
      BY <2>3 DEF Range
    <2>5. \A x \in K : x.symbol < d => x \in Range(B)
      BY <1>2, <1>3, <1>12
    <2>6. QED
      BY <2>4, <2>5, <1>2, <1>11, <1>12 DEF ReadUpTo, B
  <1>13. ASSUME NEW d, \A x \in I : x.symbol < c \/ x \in Range(t)
         PROVE  ReadUpTo(K, Append(pages, t), "done", d)
    <2>1. K \subseteq Range(B)
      BY <1>2, <1>3, <1>13
    <2>2. QED
      BY <2>1, <1>11 DEF ReadUpTo, B
  <1>14. QED
    BY <1>12, <1>13

\* A client that has read K up to its cursor has, with one page more, read it
\* up to the next cursor.
LEMMA CursorStep ==
    ASSUME RowsHaveIds, PageLimit \in Nat \ {0}, PagingTypes, FindFromCursor,
           \A x, y \in Items(rows) : x # y => x.symbol # y.symbol,
           IsFiniteSet(Items(rows)), Items(rows) \subseteq Listable,
           NEW K \in SUBSET Items(rows), ReadUpTo(K, answered, step, cursor)
    PROVE  /\ ReadUpTo(K, answered', step', cursor')
           /\ cursor' \in Nat /\ step' \in {"find", "done"}
           /\ \E t \in Seq(Items(rows)) : answered' = Append(answered, t)
  <1> DEFINE I == Items(rows)
  <1>1. /\ listing \in CursorListings /\ step = "find" /\ cursor \in Nat
        /\ answered \in Seq(Seq(Listable))
    BY DEF FindFromCursor, PagingTypes
  <1>2. \A x \in Listable : x.symbol \in Nat
    BY DEF Listable, RowsHaveIds
  <1>3. /\ I \in SUBSET Listable /\ K \in SUBSET I /\ IsFiniteSet(I)
        /\ \A x \in I : x.symbol \in Nat
        /\ \A x, y \in I : x # y => x.symbol # y.symbol
    BY <1>2
  <1>4. PICK q \in Deliveries({i \in I : i.symbol >= cursor}) :
           LET found == SubSeq(q, 1, LeastOf(Len(q), PageLimit + 1))
               more == Len(found) > PageLimit
           IN /\ answered' = Append(answered, SubSeq(found, 1, LeastOf(Len(found), PageLimit)))
              /\ cursor' = IF more THEN NextCursor(found) ELSE cursor
              /\ step' = IF more THEN "find" ELSE "done"
    BY DEF FindFromCursor
  <1> DEFINE found == SubSeq(q, 1, LeastOf(Len(q), PageLimit + 1))
             shown == SubSeq(found, 1, LeastOf(Len(found), PageLimit))
             next == NextCursor(found)
             more == Len(found) > PageLimit
  <1> HIDE DEF I
  <1>5. /\ shown \in Seq(I) /\ Ascending(shown)
        /\ \A i \in DOMAIN shown : cursor <= shown[i].symbol
        /\ more => /\ next \in Nat /\ shown # <<>>
                   /\ \A i \in DOMAIN shown : shown[i].symbol < next
                   /\ \A x \in I : x.symbol < next => x.symbol < cursor \/ x \in Range(shown)
        /\ ~more => \A x \in I : x.symbol < cursor \/ x \in Range(shown)
    BY <1>1, <1>3, <1>4, CursorPage
  <1>6. /\ answered' = Append(answered, shown)
        /\ cursor' = IF more THEN next ELSE cursor
        /\ step' = IF more THEN "find" ELSE "done"
    BY <1>4
  <1> HIDE DEF found, shown, next, more
  <1>7. /\ \A d \in Nat :
              /\ shown # <<>> /\ \A i \in DOMAIN shown : shown[i].symbol < d
              /\ \A x \in I : x.symbol < d => x.symbol < cursor \/ x \in Range(shown)
              => ReadUpTo(K, Append(answered, shown), "find", d)
        /\ (\A x \in I : x.symbol < cursor \/ x \in Range(shown)) =>
              \A d : ReadUpTo(K, Append(answered, shown), "done", d)
    <2>1. ReadUpTo(K, answered, "find", cursor)
      BY <1>1
    <2>2. QED
      BY <2>1, <1>1, <1>2, <1>3, <1>5, CursorTurn
  <1>8. CASE more
    <2>1. /\ next \in Nat /\ shown # <<>>
          /\ \A i \in DOMAIN shown : shown[i].symbol < next
          /\ \A x \in I : x.symbol < next => x.symbol < cursor \/ x \in Range(shown)
      BY <1>5, <1>8
    <2>2. ReadUpTo(K, Append(answered, shown), "find", next)
      BY <2>1, <1>7
    <2>3. cursor' = next /\ step' = "find"
      BY <1>6, <1>8
    <2>4. QED
      BY <2>1, <2>2, <2>3, <1>5, <1>6 DEF I
  <1>9. CASE ~more
    <2>1. \A d : ReadUpTo(K, Append(answered, shown), "done", d)
      BY <1>5, <1>7, <1>9
    <2>2. cursor' = cursor /\ step' = "done"
      BY <1>6, <1>9
    <2>3. QED
      BY <2>1, <2>2, <1>1, <1>5, <1>6 DEF I
  <1>10. QED
    BY <1>8, <1>9

\* What the items of a listing are made of.
LEMMA ItemsAreListable ==
    ASSUME RowsHaveIds, PagingTypes
    PROVE  /\ IsFiniteSet(rows) /\ IsFiniteSet(SignalGroups(rows)) /\ IsFiniteSet(DistinctDates(rows))
           /\ rows \subseteq Listable /\ SignalGroups(rows) \subseteq Listable
           /\ \A g, h \in SignalGroups(rows) : g # h => g.symbol # h.symbol
  <1>1. rows \subseteq TableRows /\ IsFiniteSet(rows)
    BY FS_Subset DEF RowsHaveIds, PagingTypes
  <1> DEFINE G == {[symbol |-> r.symbol, day |-> r.day] : r \in rows}
  <1>2. SignalGroups(rows) \subseteq G
    BY DEF SignalGroups
  <1>3. IsFiniteSet(G)
    <2> DEFINE f == [r \in rows |-> [symbol |-> r.symbol, day |-> r.day]]
    <2>1. f \in Surjection(rows, G)
      BY DEF Surjection
    <2> HIDE DEF f, G
    <2>2. QED
      BY <2>1, <1>1, FS_Surjection
  <1>4. IsFiniteSet(SignalGroups(rows))
    <2> HIDE DEF G
    <2>1. QED
      BY <1>2, <1>3, FS_Subset
  <1>5. IsFiniteSet(DistinctDates(rows))
    <2> DEFINE f == [r \in rows |-> r.day]
    <2>1. f \in Surjection(rows, DistinctDates(rows))
      BY DEF DistinctDates, Surjection
    <2> HIDE DEF f
    <2>2. QED
      BY <2>1, <1>1, FS_Surjection
  <1>6. ASSUME NEW g \in SignalGroups(rows), NEW h \in SignalGroups(rows), g.symbol = h.symbol
        PROVE  g = h
    <2>1. PICK r \in rows : /\ g = [symbol |-> r.symbol, day |-> r.day]
                            /\ \A y \in rows : y.day <= r.day
      BY DEF SignalGroups
    <2>2. PICK s \in rows : /\ h = [symbol |-> s.symbol, day |-> s.day]
                            /\ \A y \in rows : y.day <= s.day
      BY DEF SignalGroups
    <2>3. r.day <= s.day /\ s.day <= r.day /\ r.day \in Nat /\ s.day \in Nat
      BY <1>1, <2>1, <2>2 DEF RowsHaveIds
    <2>4. r.day = s.day /\ r.symbol = s.symbol
      BY <1>6, <2>1, <2>2, <2>3
    <2>5. QED
      BY <2>1, <2>2, <2>4
  <1>7. rows \subseteq Listable /\ SignalGroups(rows) \subseteq Listable
    BY <1>1, <1>2 DEF Listable
  <1>8. QED
    BY <1>1, <1>4, <1>5, <1>6, <1>7

\* Orders that tell the items of a listing by page number apart.
LEMMA NumbersAreOrdered ==
    ASSUME RowsHaveIds, PagingTypes
    PROVE  /\ listing = "history" => Ordered(rows) /\ Irreflexive(rows)
           /\ listing = "announcements" /\ (\A a, b \in rows : a # b => a.day # b.day)
                  => Ordered(rows) /\ Irreflexive(rows)
           /\ listing = "dates" => Ordered(DistinctDates(rows)) /\ Irreflexive(DistinctDates(rows))
           /\ \A r, s \in rows : r # s => NewestFirst(r, s) \/ NewestFirst(s, r)
           /\ \A r, s \in rows : NewestFirst(r, s) => r # s
           /\ \A r, s \in rows : NewestFirst(r, s) => ~NewestFirst(s, r)
  <1>1. /\ \A r \in rows : r.id \in Nat /\ r.symbol \in Nat /\ r.day \in Nat
        /\ \A r, s \in rows : r.id = s.id => r = s
    BY DEF RowsHaveIds, PagingTypes
  <1>2. /\ \A r, s \in rows : r # s => NewestFirst(r, s) \/ NewestFirst(s, r)
        /\ \A r, s \in rows : NewestFirst(r, s) => r # s
        /\ \A r, s \in rows : NewestFirst(r, s) => ~NewestFirst(s, r)
    BY <1>1 DEF NewestFirst
  <1>3. listing = "history" => \A a, b : Precedes(a, b) <=> NewestFirst(a, b)
    BY DEF Precedes
  <1>4. listing = "announcements" => \A a, b : Precedes(a, b) <=> a.day < b.day
    BY DEF Precedes, ByAnnouncementDate
  <1>5. listing = "dates" => \A a, b : Precedes(a, b) <=> a > b
    BY DEF Precedes
  <1>6. DistinctDates(rows) \subseteq Nat
    BY <1>1 DEF DistinctDates
  <1>7. listing = "history" => Ordered(rows) /\ Irreflexive(rows)
    BY <1>2, <1>3 DEF Ordered, Irreflexive
  <1>8. ASSUME listing = "announcements", \A a, b \in rows : a # b => a.day # b.day
        PROVE  Ordered(rows) /\ Irreflexive(rows)
    BY <1>8, <1>1, <1>4 DEF Ordered, Irreflexive
  <1>9. listing = "dates" => Ordered(DistinctDates(rows)) /\ Irreflexive(DistinctDates(rows))
    BY <1>5, <1>6 DEF Ordered, Irreflexive
  <1>10. QED
    BY <1>2, <1>7, <1>8, <1>9

\* A client that has read the pages by number up to one has, with that one too,
\* read the rows before the next.
LEMMA NumberStep ==
    ASSUME RowsHaveIds, PageLimit \in Nat \ {0}, PagingTypes, FindPage,
           Ordered(rows), Irreflexive(rows),
           \A i, j \in DOMAIN Answered : i < j => Precedes(Answered[i], Answered[j]),
           Range(Answered) = {r \in rows : Rank(rows, r) < Offset},
           total = Cardinality(rows)
    PROVE  LET B == FlattenSeq(answered')
           IN  /\ \A i, j \in DOMAIN B : i < j => Precedes(B[i], B[j])
               /\ Range(B) = {r \in rows : Rank(rows, r) < page * PageLimit}
               /\ step' = "done" => Cardinality(rows) <= page * PageLimit
  <1> DEFINE A == FlattenSeq(answered)
             B == FlattenSeq(answered')
             R == {p \in rows \X rows : Precedes(p[1], p[2])}
             a == Offset
  <1>1. /\ IsFiniteSet(rows) /\ rows \subseteq Listable
        /\ answered \in Seq(Seq(Listable)) /\ page \in Nat \ {0} /\ total \in Nat
    BY ItemsAreListable DEF PagingTypes
  <1>2. PICK q \in Deliveries(rows) : answered' = Append(answered, PageOf(q))
    BY DEF FindPage
  <1> DEFINE t == PageOf(q)
  <1>3. /\ t \in Seq(rows)
        /\ \A i, j \in DOMAIN t : i < j => Precedes(t[i], t[j])
        /\ Range(t) = {x \in rows : a <= Rank(rows, x) /\ Rank(rows, x) < a + PageLimit}
        /\ \A x, y \in rows : Rank(rows, x) < Rank(rows, y) => Precedes(x, y)
    BY <1>1, NumberedPage
  <1>4. B = FlattenSeq(Append(answered, t))
    BY <1>2
  <1> HIDE DEF t
  <1>5. t \in Seq(Listable) /\ \A i \in DOMAIN t : t[i] \in rows
    BY <1>1, <1>3
  <1>6. Range(B) = Range(A) \cup Range(t)
    BY <1>1, <1>4, <1>5, OnePageMore
  <1>7. /\ \A i, j \in DOMAIN A : i < j => Precedes(A[i], A[j])
        /\ Range(A) = {r \in rows : Rank(rows, r) < a}
    BY DEF Answered
  <1> HIDE DEF A
  <1>8. \A i \in DOMAIN A : A[i] \in rows
    BY <1>7 DEF Range
  <1>9. InOrder(R, A)
    BY <1>7, <1>8 DEF InOrder
  <1>10. InOrder(R, t)
    BY <1>3, <1>5 DEF InOrder
  <1>11. a \in Nat /\ a + PageLimit = page * PageLimit
    <2>1. page - 1 \in Nat /\ PageLimit \in Nat
      BY <1>1
    <2>2. (page - 1) * PageLimit \in Nat /\ (page - 1) * PageLimit + PageLimit = page * PageLimit
      BY <1>1, <2>1
    <2>3. QED
      BY <2>2 DEF Offset
  <1>12. \A x \in rows : Rank(rows, x) \in Nat /\ Rank(rows, x) < Cardinality(rows)
    BY <1>1, RankIsSmall
  <1> HIDE DEF a
  <1>13. \A x \in Range(A), y \in Range(t) : <<x, y>> \in R
    <2> SUFFICES ASSUME NEW x \in Range(A), NEW y \in Range(t) PROVE <<x, y>> \in R
      OBVIOUS
    <2>1. x \in rows /\ y \in rows /\ Rank(rows, x) < a /\ a <= Rank(rows, y)
      BY <1>3, <1>7
    <2>2. Rank(rows, x) < Rank(rows, y)
      BY <2>1, <1>11, <1>12
    <2>3. Precedes(x, y)
      BY <2>1, <2>2, <1>3
    <2>4. QED
      BY <2>1, <2>3
  <1> HIDE DEF R
  <1>14. InOrder(R, FlattenSeq(Append(answered, t)))
    BY <1>1, <1>5, <1>9, <1>10, <1>13, InOrderStill DEF A
  <1>15. InOrder(R, B)
    BY <1>4, <1>14
  <1> HIDE DEF B
  <1>16. \A i, j \in DOMAIN B : i < j => Precedes(B[i], B[j])
    BY <1>15 DEF InOrder, R
  <1>17. Range(B) = {r \in rows : Rank(rows, r) < page * PageLimit}
    <2>1. \A r \in rows : r \in Range(B) <=> Rank(rows, r) < page * PageLimit
      BY <1>3, <1>6, <1>7, <1>11, <1>12
    <2>2. Range(B) \subseteq rows
      BY <1>3, <1>6, <1>7
    <2>3. QED
      BY <2>1, <2>2
  <1>18. step' = "done" => Cardinality(rows) <= page * PageLimit
    <2>1. step' = "done" => page >= TotalPages
      BY DEF FindPage, Turn
    <2>2. QED
      BY <2>1, <1>1, PagesSuffice
  <1>19. QED
    BY <1>16, <1>17, <1>18 DEF B

\* The days of a page by number.
LEMMA DaysStep ==
    ASSUME RowsHaveIds, PageLimit \in Nat \ {0}, PagingTypes, FindDistinctDates
    PROVE  LET days == DistinctDates(rows)
           IN  dates' = {d \in days : Offset <= Rank(days, d) /\ Rank(days, d) < Offset + PageLimit}
  <1> DEFINE days == DistinctDates(rows)
  <1>1. IsFiniteSet(days) /\ page \in Nat \ {0} /\ listing = "dates"
    BY ItemsAreListable DEF PagingTypes, FindDistinctDates
  <1>2. Ordered(days) /\ Irreflexive(days)
    BY <1>1, NumbersAreOrdered
  <1>3. PICK q \in Deliveries(days) : dates' = Range(PageOf(q))
    BY DEF FindDistinctDates
  <1> HIDE DEF days
  <1>4. QED
    BY <1>1, <1>2, <1>3, NumberedPage DEF days

\* The rows of the days of a page, put behind the pages before.
LEMMA RowsOfDaysStep ==
    ASSUME RowsHaveIds, PageLimit \in Nat \ {0}, PagingTypes, FindByDates,
           \A i, j \in DOMAIN Answered : i < j => NewestFirst(Answered[i], Answered[j]),
           Range(Answered) = {r \in rows : Rank(DistinctDates(rows), r.day) < Offset},
           dates = {d \in DistinctDates(rows) : /\ Offset <= Rank(DistinctDates(rows), d)
                                                /\ Rank(DistinctDates(rows), d) < Offset + PageLimit}
    PROVE  LET B == FlattenSeq(answered')
           IN  /\ \A i, j \in DOMAIN B : i < j => NewestFirst(B[i], B[j])
               /\ Range(B) = {r \in rows : Rank(DistinctDates(rows), r.day) < Offset + PageLimit}
               /\ \E t \in Seq(rows) : answered' = Append(answered, t)
  <1> DEFINE A == FlattenSeq(answered)
             B == FlattenSeq(answered')
             R == {p \in rows \X rows : NewestFirst(p[1], p[2])}
             a == Offset
             days == DistinctDates(rows)
             place(r) == Rank(days, r.day)
             those == {r \in rows : r.day \in dates}
  <1>1. /\ IsFiniteSet(rows) /\ IsFiniteSet(days) /\ rows \subseteq Listable
        /\ answered \in Seq(Seq(Listable)) /\ page \in Nat \ {0} /\ listing = "dates"
        /\ \A r, s \in rows : r # s => NewestFirst(r, s) \/ NewestFirst(s, r)
    BY ItemsAreListable, NumbersAreOrdered DEF PagingTypes, FindByDates
  <1>2. PICK t \in SetToSeqs(those) :
           /\ \A i, j \in DOMAIN t : i < j => ~NewestFirst(t[j], t[i])
           /\ answered' = Append(answered, t)
    BY DEF FindByDates
  <1>3. those \subseteq rows /\ IsFiniteSet(those)
    BY <1>1, FS_Subset
  <1> DEFINE n == Cardinality(those)
  <1>4. /\ n \in Nat /\ t \in [1 .. n -> those] /\ t \in Seq(those) /\ Len(t) = n
        /\ \A i, j \in 1 .. n : t[i] = t[j] => i = j
        /\ \A x \in those : \E i \in 1 .. n : t[i] = x
    BY <1>3, SequenceIsWhole
  <1> HIDE DEF n, those
  <1>5. /\ t \in Seq(rows) /\ t \in Seq(Listable) /\ DOMAIN t = 1 .. n
        /\ \A i \in DOMAIN t : t[i] \in rows
    BY <1>1, <1>3, <1>4
  <1>6. Range(t) = those
    BY <1>4 DEF Range
  <1>7. \A i, j \in DOMAIN t : i < j => NewestFirst(t[i], t[j])
    <2>1. \A i, j \in DOMAIN t : i < j => t[i] # t[j]
      BY <1>4, <1>5
    <2>2. QED
      BY <2>1, <1>1, <1>2, <1>5
  <1>8. /\ \A i, j \in DOMAIN A : i < j => NewestFirst(A[i], A[j])
        /\ Range(A) = {r \in rows : place(r) < a}
    BY DEF Answered
  <1>9. \A r \in rows : r.day \in days
    BY DEF DistinctDates
  <1>10. \A r \in rows : r \in those <=> a <= place(r) /\ place(r) < a + PageLimit
    BY <1>9 DEF those
  <1>11. a \in Nat
    <2>1. page - 1 \in Nat /\ PageLimit \in Nat
      BY <1>1
    <2>2. QED
      BY <2>1 DEF Offset
  <1>12. \A r \in rows : place(r) \in Nat
    <2>1. Irreflexive(days)
      BY <1>1, NumbersAreOrdered
    <2> HIDE DEF days
    <2>2. QED
      BY <2>1, <1>1, <1>9, RankIsSmall
  <1>13. B = FlattenSeq(Append(answered, t))
    BY <1>2
  <1>14. Range(B) = Range(A) \cup Range(t)
    BY <1>1, <1>5, <1>13, OnePageMore
  <1> HIDE DEF A
  <1>15. \A i \in DOMAIN A : A[i] \in rows
    BY <1>8 DEF Range
  <1>16. InOrder(R, A)
    BY <1>8, <1>15 DEF InOrder
  <1>17. InOrder(R, t)
    BY <1>5, <1>7 DEF InOrder
  <1>18. \A d, e \in days : Rank(days, d) < Rank(days, e) => d > e
    <2> SUFFICES ASSUME NEW d \in days, NEW e \in days, Rank(days, d) < Rank(days, e)
                 PROVE  d > e
      OBVIOUS
    <2>1. days \subseteq Nat
      BY <1>1 DEF DistinctDates, RowsHaveIds, PagingTypes
    <2> HIDE DEF days
    <2> DEFINE X == {z \in days : z > d}
               Y == {z \in days : z > e}
    <2>2. \A z, w : Precedes(z, w) <=> z > w
      BY <1>1 DEF Precedes
    <2>3. Rank(days, d) = Cardinality(X) /\ Rank(days, e) = Cardinality(Y)
      BY <2>2 DEF Rank
    <2>4. ~(d > e) => Y \subseteq X
      <3>1. ~(d > e) => \A z \in days : z > e => z > d
        <4>1. d \in Nat /\ e \in Nat /\ \A z \in days : z \in Nat
          BY <2>1
        <4>2. QED
          BY <4>1
      <3>2. QED
        BY <3>1
    <2>5. IsFiniteSet(X)
      BY <1>1, FS_Subset
    <2> HIDE DEF X, Y
    <2>6. Y \subseteq X => Cardinality(Y) <= Cardinality(X)
      BY <2>5, FS_Subset
    <2>7. Cardinality(X) \in Nat
      BY <2>5, FS_CardinalityType
    <2>8. Y \subseteq X => Cardinality(Y) \in Nat
      BY <2>5, FS_Subset, FS_CardinalityType
    <2>9. QED
      BY <2>3, <2>4, <2>6, <2>7, <2>8
  <1> HIDE DEF a
  <1>19. \A x \in Range(A), y \in Range(t) : <<x, y>> \in R
    <2> SUFFICES ASSUME NEW x \in Range(A), NEW y \in Range(t) PROVE <<x, y>> \in R
      OBVIOUS
    <2>1. x \in rows /\ y \in rows /\ place(x) < a /\ a <= place(y)
      BY <1>3, <1>6, <1>8, <1>10
    <2>2. place(x) < place(y)
      BY <2>1, <1>11, <1>12
    <2>3. x.day > y.day
      BY <2>1, <2>2, <1>9, <1>18
    <2>4. NewestFirst(x, y)
      BY <2>3 DEF NewestFirst
    <2>5. QED
      BY <2>1, <2>4
  <1> HIDE DEF R
  <1>20. InOrder(R, FlattenSeq(Append(answered, t)))
    BY <1>1, <1>5, <1>16, <1>17, <1>19, InOrderStill DEF A
  <1>21. InOrder(R, B)
    BY <1>13, <1>20
  <1> HIDE DEF B
  <1>22. \A i, j \in DOMAIN B : i < j => NewestFirst(B[i], B[j])
    BY <1>21 DEF InOrder, R
  <1>23. Range(B) = {r \in rows : place(r) < a + PageLimit}
    <2>1. \A r \in rows : r \in Range(B) <=> place(r) < a + PageLimit
      <3> HIDE DEF place
      <3>1. \A r \in rows : r \in Range(A) <=> place(r) < a
        BY <1>8
      <3>2. QED
        BY <3>1, <1>6, <1>10, <1>11, <1>12, <1>14
    <2>2. Range(B) \subseteq rows
      BY <1>3, <1>6, <1>8, <1>14
    <2>3. QED
      BY <2>1, <2>2
  <1>24. QED
    BY <1>2, <1>5, <1>22, <1>23 DEF B, a

LEMMA PartOf ==
    ASSUME NEW U, NEW q \in Seq(U), NEW a \in Nat \ {0}, NEW b \in Int, b <= Len(q)
    PROVE  /\ SubSeq(q, a, b) \in Seq(U)
           /\ Len(SubSeq(q, a, b)) = IF a <= b THEN b - a + 1 ELSE 0
  <1>1. \A i \in a .. b : q[i] \in U
    BY LenProperties
  <1>2. a \in Int
    OBVIOUS
  <1>3. QED
    BY <1>1, <1>2, SubSeqProperties

LEMMA PagingTypesStart ==
    ASSUME RowsHaveIds, PagingInit
    PROVE  PagingTypes
  <1>1. answered \in Seq(Seq(Listable))
    BY EmptySeq DEF PagingInit
  <1>2. QED
    BY <1>1 DEF PagingInit, PagingTypes, Listings, CursorListings

LEMMA PagingTypesStep ==
    ASSUME RowsHaveIds, PageLimit \in Nat \ {0}, PagingTypes, [PagingNext]_pagingVars
    PROVE  PagingTypes'
  <1> USE DEF PagingTypes
  <1>0. /\ \A x \in Listable : x.symbol \in Nat
        /\ IsFiniteSet(rows) /\ rows \subseteq Listable /\ IsFiniteSet(SignalGroups(rows))
        /\ SignalGroups(rows) \subseteq Listable /\ IsFiniteSet(DistinctDates(rows))
    BY ItemsAreListable DEF Listable, RowsHaveIds
  <1>1. CASE ChangeTable
    <2>1. changes' \in Nat
      BY <1>1 DEF ChangeTable
    <2>2. rows' \subseteq ever' /\ ever' \subseteq TableRows /\ stable' \subseteq rows'
      BY <1>1 DEF ChangeTable
    <2>3. QED
      BY <1>1, <2>1, <2>2 DEF ChangeTable
  <1>2. CASE FindFromCursor
    <2> DEFINE I == Items(rows)
               J == {i \in I : i.symbol >= cursor}
    <2>1. listing \in CursorListings /\ page' = page + 1 /\ UNCHANGED <<rows, listing, total, dates, stable, ever, changes>>
      BY <1>2 DEF FindFromCursor
    <2>2. IsFiniteSet(I) /\ I \subseteq Listable
      BY <2>1, <1>0 DEF Items, CursorListings
    <2>3. PICK q \in Deliveries(J) :
             LET found == SubSeq(q, 1, LeastOf(Len(q), PageLimit + 1))
                 more == Len(found) > PageLimit
             IN /\ answered' = Append(answered, SubSeq(found, 1, LeastOf(Len(found), PageLimit)))
                /\ cursor' = IF more THEN NextCursor(found) ELSE cursor
                /\ step' = IF more THEN "find" ELSE "done"
      BY <1>2 DEF FindFromCursor
    <2>4. IsFiniteSet(J) /\ J \subseteq Listable
      BY <2>2, FS_Subset
    <2> HIDE DEF J
    <2>5. q \in Seq(J)
      BY <2>4, DeliveryIsWhole
    <2>6. q \in Seq(Listable)
      BY <2>4, <2>5
    <2> DEFINE found == SubSeq(q, 1, LeastOf(Len(q), PageLimit + 1))
               shown == SubSeq(found, 1, LeastOf(Len(found), PageLimit))
    <2>7. found \in Seq(Listable)
      <3>1. Len(q) \in Int /\ PageLimit + 1 \in Int
        BY <2>6
      <3>2. LeastOf(Len(q), PageLimit + 1) \in Int /\ LeastOf(Len(q), PageLimit + 1) <= Len(q)
        BY <3>1, Leasts
      <3>3. QED
        BY <2>6, <3>2, PartOf
    <2>8. answered' = Append(answered, shown)
      BY <2>3
    <2>9. /\ cursor' = IF Len(found) > PageLimit THEN NextCursor(found) ELSE cursor
          /\ step' = IF Len(found) > PageLimit THEN "find" ELSE "done"
      BY <2>3
    <2> HIDE DEF found
    <2>10. shown \in Seq(Listable)
      <3>1. Len(found) \in Int /\ PageLimit \in Int
        BY <2>7
      <3>2. LeastOf(Len(found), PageLimit) \in Int /\ LeastOf(Len(found), PageLimit) <= Len(found)
        BY <3>1, Leasts
      <3>3. QED
        BY <2>7, <3>2, PartOf
    <2> HIDE DEF shown
    <2>11. answered' \in Seq(Seq(Listable))
      BY <2>8, <2>10, AppendProperties
    <2>12. cursor' \in Nat
      <3>1. CASE Len(found) > PageLimit
        <4>1. PageLimit + 1 \in 1 .. Len(found)
          BY <3>1, <2>7
        <4>2. found[PageLimit + 1] \in Listable
          BY <4>1, <2>7
        <4>3. QED
          BY <4>2, <3>1, <2>9, <1>0 DEF NextCursor
      <3>2. CASE ~(Len(found) > PageLimit)
        BY <3>2, <2>9
      <3>3. QED
        BY <3>1, <3>2
    <2>13. step' \in {"find", "done"}
      BY <2>9
    <2>14. page' \in Nat \ {0}
      BY <2>1
    <2>15. QED
      BY <2>1, <2>11, <2>12, <2>13, <2>14
  <1>3. CASE CountRows
    <2>1. /\ listing \notin CursorListings
          /\ step' = "find" /\ total' = Cardinality(Items(rows))
          /\ UNCHANGED <<rows, listing, page, cursor, dates, answered, stable, ever, changes>>
      BY <1>3 DEF CountRows
    <2>2. IsFiniteSet(Items(rows))
      BY <1>0 DEF Items
    <2>3. total' \in Nat
      BY <2>1, <2>2, FS_CardinalityType
    <2>4. QED
      BY <2>1, <2>3
  <1>4. CASE FindPage
    <2>1. PICK q \in Deliveries(rows) : answered' = Append(answered, PageOf(q))
      BY <1>4 DEF FindPage
    <2>2. q \in Seq(rows)
      BY <1>0, DeliveryIsWhole
    <2>3. q \in Seq(Listable)
      BY <1>0, <2>2
    <2>4. PageOf(q) \in Seq(Listable)
      <3>1. Offset \in Nat
        <4>1. page - 1 \in Nat /\ PageLimit \in Nat
          OBVIOUS
        <4>2. QED
          BY <4>1 DEF Offset
      <3>2. Len(q) \in Int /\ Offset + PageLimit \in Int /\ Offset + 1 \in Nat \ {0}
        BY <2>3, <3>1
      <3>3. /\ LeastOf(Len(q), Offset + PageLimit) \in Int
            /\ LeastOf(Len(q), Offset + PageLimit) <= Len(q)
        BY <3>2, Leasts
      <3>4. QED
        BY <2>3, <3>2, <3>3, PartOf DEF PageOf
    <2>5. answered' \in Seq(Seq(Listable))
      BY <2>1, <2>4, AppendProperties
    <2>6. /\ listing \notin CursorListings /\ page' \in Nat \ {0} /\ step' \in {"done", "count"}
          /\ UNCHANGED <<rows, listing, cursor, total, dates, stable, ever, changes>>
      BY <1>4 DEF FindPage, Turn, CursorListings
    <2>7. QED
      BY <2>5, <2>6
  <1>5. CASE FindDistinctDates
    <2>1. answered' \in Seq(Seq(Listable)) /\ page' \in Nat \ {0} /\ step' \in {"done", "count", "byDates"}
      <3>1. <<>> \in Seq(Listable)
        BY EmptySeq
      <3>2. Append(answered, <<>>) \in Seq(Seq(Listable))
        BY <3>1, AppendProperties
      <3>3. page + 1 \in Nat \ {0}
        OBVIOUS
      <3>4. CASE dates' = {}
        <4>1. answered' = Append(answered, <<>>) /\ page' = page + 1 /\ step' \in {"done", "count"}
          BY <3>4, <1>5 DEF FindDistinctDates, Turn
        <4>2. QED
          BY <4>1, <3>2, <3>3
      <3>5. CASE dates' # {}
        <4>1. UNCHANGED <<answered, page>> /\ step' = "byDates"
          BY <3>5, <1>5 DEF FindDistinctDates
        <4>2. QED
          BY <4>1
      <3>6. QED
        BY <3>4, <3>5
    <2>2. /\ listing = "dates" /\ listing \notin CursorListings
          /\ UNCHANGED <<rows, listing, cursor, total, stable, ever, changes>>
      BY <1>5 DEF FindDistinctDates, CursorListings
    <2>3. QED
      BY <2>1, <2>2
  <1>6. CASE FindByDates
    <2> DEFINE those == {r \in rows : r.day \in dates}
    <2>1. PICK t \in SetToSeqs(those) : answered' = Append(answered, t)
      BY <1>6 DEF FindByDates
    <2>2. IsFiniteSet(those) /\ those \subseteq Listable
      BY <1>0, FS_Subset
    <2> HIDE DEF those
    <2>3. t \in Seq(those)
      BY <2>2, SequenceIsWhole
    <2>4. t \in Seq(Listable)
      BY <2>2, <2>3
    <2>5. answered' \in Seq(Seq(Listable))
      BY <2>1, <2>4, AppendProperties
    <2>6. /\ step = "byDates" /\ page' \in Nat \ {0} /\ step' \in {"done", "count"}
          /\ UNCHANGED <<rows, listing, cursor, total, dates, stable, ever, changes>>
      BY <1>6 DEF FindByDates, Turn
    <2>7. listing = "dates" /\ listing \notin CursorListings
      BY <2>6 DEF CursorListings
    <2>8. QED
      BY <2>5, <2>6, <2>7
  <1>7. CASE UNCHANGED pagingVars
    BY <1>7 DEF pagingVars
  <1>8. QED
    BY <1>1, <1>2, <1>3, <1>4, <1>5, <1>6, <1>7 DEF PagingNext

\* Only a change of the table touches what there was.
LEMMA OthersReadOnly ==
    ASSUME [PagingNext]_pagingVars
    PROVE  \/ ChangeTable
           \/ /\ UNCHANGED <<rows, listing, stable, ever, changes>>
              /\ \/ FindFromCursor \/ CountRows \/ FindPage \/ FindDistinctDates \/ FindByDates
                 \/ UNCHANGED pagingVars
  BY DEF PagingNext, ChangeTable, FindFromCursor, CountRows, FindPage, FindDistinctDates,
         FindByDates, pagingVars

LEMMA StableAreReadStep ==
    ASSUME RowsHaveIds, PageLimit \in Nat \ {0}, PagingTypes, StableAreRead,
           [PagingNext]_pagingVars
    PROVE  StableAreRead'
  <1> SUFFICES ASSUME listing' \in {"brands", "highVolume"}, ~Crowded'
               PROVE  ReadUpTo(stable', answered', step', cursor')
    BY DEF StableAreRead
  <1>1. listing' = listing
    BY OthersReadOnly DEF ChangeTable
  <1>2. ever \subseteq ever' /\ ~Crowded
    <2>1. ever \subseteq ever'
      BY OthersReadOnly DEF ChangeTable
    <2>2. QED
      BY <2>1 DEF Crowded
  <1>3. ReadUpTo(stable, answered, step, cursor)
    BY <1>1, <1>2 DEF StableAreRead
  <1>4. CASE ChangeTable
    <2>1. stable' \subseteq stable /\ UNCHANGED <<answered, step, cursor>>
      BY <1>4 DEF ChangeTable
    <2>2. QED
      BY <2>1, <1>3 DEF ReadUpTo
  <1>5. CASE FindFromCursor
    <2>1. Items(rows) = rows
      BY <1>1 DEF Items
    <2>2. \A x, y \in rows : x # y => x.symbol # y.symbol
      BY <1>2 DEF Crowded, PagingTypes
    <2>3. stable \in SUBSET rows /\ stable' = stable
      BY <1>5 DEF PagingTypes, FindFromCursor
    <2>4. IsFiniteSet(rows) /\ rows \subseteq Listable
      BY ItemsAreListable
    <2>5. ReadUpTo(stable, answered', step', cursor')
      BY <1>3, <1>5, <2>1, <2>2, <2>3, <2>4, CursorStep
    <2>6. QED
      BY <2>3, <2>5
  <1>6. CASE UNCHANGED pagingVars
    BY <1>3, <1>6 DEF pagingVars
  <1>7. ~CountRows /\ ~FindPage /\ ~FindDistinctDates /\ ~FindByDates
    BY <1>1 DEF PagingTypes, CursorListings, CountRows, FindPage, FindDistinctDates, FindByDates
  <1>8. QED
    BY <1>4, <1>5, <1>6, <1>7 DEF PagingNext

LEMMA GroupsAreReadStep ==
    ASSUME RowsHaveIds, PageLimit \in Nat \ {0}, PagingTypes, GroupsAreRead,
           [PagingNext]_pagingVars
    PROVE  GroupsAreRead'
  <1> DEFINE G == SignalGroups(rows)
  <1> SUFFICES ASSUME listing' = "signals", changes' = 0
               PROVE  /\ ReadUpTo(SignalGroups(rows'), answered', step', cursor')
                      /\ Range(FlattenSeq(answered')) \subseteq SignalGroups(rows')
    BY DEF GroupsAreRead, Answered
  <1>1. ~ChangeTable
    BY DEF ChangeTable, PagingTypes
  <1>2. UNCHANGED <<rows, listing, changes>>
    BY <1>1, OthersReadOnly
  <1>3. ReadUpTo(G, answered, step, cursor) /\ Range(FlattenSeq(answered)) \subseteq G
    BY <1>2 DEF GroupsAreRead, Answered
  <1>4. SignalGroups(rows') = G
    BY <1>2
  <1> SUFFICES /\ ReadUpTo(G, answered', step', cursor')
               /\ Range(FlattenSeq(answered')) \subseteq G
    BY <1>4
  <1>5. CASE FindFromCursor
    <2>1. Items(rows) = G
      BY <1>2 DEF Items
    <2>2. /\ \A x, y \in G : x # y => x.symbol # y.symbol
          /\ IsFiniteSet(G) /\ G \subseteq Listable
      BY ItemsAreListable
    <2> HIDE DEF G
    <2>3. G \in SUBSET G
      OBVIOUS
    <2>4. /\ ReadUpTo(G, answered', step', cursor')
          /\ \E t \in Seq(G) : answered' = Append(answered, t)
      BY <1>3, <1>5, <2>1, <2>2, <2>3, CursorStep
    <2>5. PICK t \in Seq(G) : answered' = Append(answered, t)
      BY <2>4
    <2>6. t \in Seq(Listable) /\ Range(t) \subseteq G
      BY <2>2 DEF Range
    <2>7. Range(FlattenSeq(Append(answered, t))) = Range(FlattenSeq(answered)) \cup Range(t)
      BY <2>6, OnePageMore DEF PagingTypes
    <2>8. QED
      BY <2>4, <2>5, <2>6, <2>7, <1>3
  <1>6. CASE UNCHANGED pagingVars
    BY <1>3, <1>6 DEF pagingVars
  <1>7. ~CountRows /\ ~FindPage /\ ~FindDistinctDates /\ ~FindByDates
    BY <1>2 DEF PagingTypes, CursorListings, CountRows, FindPage, FindDistinctDates, FindByDates
  <1>8. QED
    BY <1>1, <1>5, <1>6, <1>7 DEF PagingNext

LEMMA NumbersAreReadStep ==
    ASSUME RowsHaveIds, PageLimit \in Nat \ {0}, PagingTypes, NumbersAreRead,
           [PagingNext]_pagingVars
    PROVE  NumbersAreRead'
  <1> DEFINE Told == \/ listing = "history"
                     \/ listing = "announcements" /\ \A a, b \in rows : a # b => a.day # b.day
  <1> SUFFICES ASSUME Told', changes' = 0
               PROVE  NumbersAreRead'
    BY DEF NumbersAreRead
  <1>1. ~ChangeTable
    BY DEF ChangeTable, PagingTypes
  <1>2. UNCHANGED <<rows, listing, changes>>
    BY <1>1, OthersReadOnly
  <1>3. Told /\ changes = 0
    BY <1>2
  <1>4. /\ \A i, j \in DOMAIN Answered : i < j => Precedes(Answered[i], Answered[j])
        /\ Range(Answered) = {r \in rows : Rank(rows, r) < Offset}
        /\ step = "find" => total = Cardinality(rows)
        /\ step = "done" => Cardinality(rows) <= Offset
    BY <1>3 DEF NumbersAreRead
  <1>5. \A a, b : Precedes(a, b)' <=> Precedes(a, b)
    BY <1>2 DEF Precedes, NewestFirst, ByAnnouncementDate, BySymbol
  <1>6. \A x : Rank(rows, x)' = Rank(rows, x)
    BY <1>2, <1>5 DEF Rank
  <1>7. listing \in {"history", "announcements"}
    BY <1>3
  <1>8. ASSUME /\ \A i, j \in DOMAIN Answered' : i < j => Precedes(Answered'[i], Answered'[j])
               /\ Range(Answered') = {r \in rows : Rank(rows, r) < Offset'}
               /\ step' = "find" => total' = Cardinality(rows)
               /\ step' = "done" => Cardinality(rows) <= Offset'
        PROVE  NumbersAreRead'
    <2>1. \A i, j \in DOMAIN Answered' : i < j => Precedes(Answered[i], Answered[j])'
      BY <1>2, <1>8 DEF Precedes, NewestFirst, ByAnnouncementDate, BySymbol
    <2>2. Range(Answered') = {r \in rows' : Rank(rows, r)' < Offset'}
      BY <1>2, <1>6, <1>8
    <2>3. QED
      BY <2>1, <2>2, <1>2, <1>8 DEF NumbersAreRead
  <1>9. CASE UNCHANGED pagingVars
    <2>1. UNCHANGED <<answered, page, step, total, rows>> /\ Answered' = Answered /\ Offset' = Offset
      BY <1>9 DEF pagingVars, Answered, Offset
    <2>2. QED
      BY <2>1, <1>4, <1>8
  <1>10. CASE CountRows
    <2>1. /\ UNCHANGED <<answered, page, rows>> /\ Answered' = Answered /\ Offset' = Offset
          /\ step' = "find" /\ total' = Cardinality(rows)
      BY <1>7, <1>10 DEF CountRows, Answered, Offset, Items
    <2>2. QED
      BY <2>1, <1>4, <1>8
  <1>11. CASE FindPage
    <2>1. Ordered(rows) /\ Irreflexive(rows)
      BY <1>3, NumbersAreOrdered
    <2>2. total = Cardinality(rows)
      BY <1>4, <1>11 DEF FindPage
    <2> DEFINE B == FlattenSeq(answered')
    <2>3. /\ \A i, j \in DOMAIN B : i < j => Precedes(B[i], B[j])
          /\ Range(B) = {r \in rows : Rank(rows, r) < page * PageLimit}
          /\ step' = "done" => Cardinality(rows) <= page * PageLimit
      BY <1>4, <1>11, <2>1, <2>2, NumberStep
    <2>4. Answered' = B
      BY DEF Answered
    <2>5. Offset' = page * PageLimit
      <3>1. page' = page + 1 /\ page \in Nat
        BY <1>11 DEF FindPage, Turn, PagingTypes
      <3>2. (page + 1) - 1 = page
        BY <3>1
      <3>3. QED
        BY <3>1, <3>2 DEF Offset
    <2>6. step' # "find"
      BY <1>11 DEF FindPage, Turn
    <2> HIDE DEF B
    <2>7. QED
      BY <2>3, <2>4, <2>5, <2>6, <1>8
  <1>12. ~FindFromCursor /\ ~FindDistinctDates /\ ~FindByDates
    BY <1>7 DEF PagingTypes, CursorListings, FindFromCursor, FindDistinctDates, FindByDates
  <1>13. QED
    BY <1>1, <1>9, <1>10, <1>11, <1>12 DEF PagingNext

LEMMA DatesAreReadStep ==
    ASSUME RowsHaveIds, PageLimit \in Nat \ {0}, PagingTypes, DatesAreRead,
           [PagingNext]_pagingVars
    PROVE  DatesAreRead'
  <1> DEFINE days == DistinctDates(rows)
             place(r) == Rank(days, r.day)
  <1> SUFFICES ASSUME listing' = "dates", changes' = 0
               PROVE  DatesAreRead'
    BY DEF DatesAreRead
  <1>1. ~ChangeTable
    BY DEF ChangeTable, PagingTypes
  <1>2. UNCHANGED <<rows, listing, changes>> /\ listing = "dates" /\ changes = 0
    BY <1>1, OthersReadOnly
  <1>3. /\ \A i, j \in DOMAIN Answered : i < j => NewestFirst(Answered[i], Answered[j])
        /\ Range(Answered) = {r \in rows : place(r) < Offset}
        /\ step = "byDates" => dates = {d \in days : Offset <= Rank(days, d)
                                                     /\ Rank(days, d) < Offset + PageLimit}
        /\ step \in {"find", "byDates"} => total = Cardinality(days)
        /\ step = "done" => Cardinality(days) <= Offset
    BY <1>2 DEF DatesAreRead
  <1>4. \A x : Rank(DistinctDates(rows), x)' = Rank(days, x)
    <2>1. \A a, b : Precedes(a, b)' <=> Precedes(a, b)
      BY <1>2 DEF Precedes, NewestFirst, ByAnnouncementDate, BySymbol
    <2>2. DistinctDates(rows)' = days
      BY <1>2
    <2>3. QED
      BY <2>1, <2>2 DEF Rank
  <1>5. ASSUME /\ \A i, j \in DOMAIN Answered' : i < j => NewestFirst(Answered'[i], Answered'[j])
               /\ Range(Answered') = {r \in rows : place(r) < Offset'}
               /\ step' = "byDates" => dates' = {d \in days : /\ Offset' <= Rank(days, d)
                                                              /\ Rank(days, d) < Offset' + PageLimit}
               /\ step' \in {"find", "byDates"} => total' = Cardinality(days)
               /\ step' = "done" => Cardinality(days) <= Offset'
        PROVE  DatesAreRead'
    <2>1. DistinctDates(rows') = days
      BY <1>2
    <2>2. \A r : Rank(DistinctDates(rows), r.day)' = place(r)
      BY <1>4
    <2> HIDE DEF days, place
    <2>3. QED
      BY <1>2, <1>4, <1>5, <2>1, <2>2 DEF DatesAreRead
  <1>6. IsFiniteSet(rows) /\ IsFiniteSet(days) /\ page \in Nat \ {0} /\ Offset \in Nat
        /\ Offset + PageLimit = page * PageLimit
    <2>1. page \in Nat \ {0} /\ page - 1 \in Nat /\ PageLimit \in Nat
      BY DEF PagingTypes
    <2>2. (page - 1) * PageLimit \in Nat /\ (page - 1) * PageLimit + PageLimit = page * PageLimit
      BY <2>1
    <2>3. QED
      BY <2>1, <2>2, ItemsAreListable DEF Offset
  <1>7. page' = page + 1 => Offset' = Offset + PageLimit
    <2>1. page' = page + 1 => page' - 1 = page
      BY <1>6
    <2>2. QED
      BY <2>1, <1>6 DEF Offset
  <1>8. step' = "done" /\ total = Cardinality(days) /\ Turn => Cardinality(days) <= Offset + PageLimit
    <2>1. step' = "done" /\ Turn => page >= TotalPages
      BY DEF Turn
    <2>2. QED
      BY <2>1, <1>6, PagesSuffice DEF PagingTypes
  <1>9. CASE UNCHANGED pagingVars
    <2>1. UNCHANGED <<answered, page, step, total, rows, dates>> /\ Answered' = Answered /\ Offset' = Offset
      BY <1>9 DEF pagingVars, Answered, Offset
    <2>2. QED
      BY <2>1, <1>3, <1>5
  <1>10. CASE CountRows
    <2>1. /\ UNCHANGED <<answered, page, rows>> /\ Answered' = Answered /\ Offset' = Offset
          /\ step' = "find" /\ total' = Cardinality(days)
      BY <1>2, <1>10 DEF CountRows, Answered, Offset, Items
    <2>2. QED
      BY <2>1, <1>3, <1>5
  <1>11. CASE FindDistinctDates
    <2>1. dates' = {d \in days : Offset <= Rank(days, d) /\ Rank(days, d) < Offset + PageLimit}
      BY <1>11, DaysStep
    <2>2. total = Cardinality(days) /\ UNCHANGED total
      BY <1>3, <1>11 DEF FindDistinctDates
    <2>3. CASE dates' # {}
      <3>1. step' = "byDates" /\ UNCHANGED <<answered, page>> /\ Answered' = Answered /\ Offset' = Offset
        BY <2>3, <1>11 DEF FindDistinctDates, Answered, Offset
      <3>2. QED
        BY <3>1, <2>1, <2>2, <1>3, <1>5
    <2>4. CASE dates' = {}
      <3>1. answered' = Append(answered, <<>>) /\ Turn
        BY <2>4, <1>11 DEF FindDistinctDates
      <3>2. Answered' = Answered
        <4>1. answered \in Seq(Seq(Listable)) /\ <<>> \in Seq(Listable)
          BY EmptySeq DEF PagingTypes
        <4>2. /\ FlattenSeq(answered) \in Seq(Listable)
              /\ FlattenSeq(Append(answered, <<>>)) = FlattenSeq(answered) \o <<>>
          BY <4>1, FlattenAppend
        <4>3. FlattenSeq(answered) \o <<>> = FlattenSeq(answered)
          BY <4>2, ConcatEmptySeq
        <4>4. QED
          BY <4>2, <4>3, <3>1 DEF Answered
      <3>3. Offset' = Offset + PageLimit /\ step' \in {"count", "done"}
        BY <3>1, <1>7 DEF Turn
      <3>4. \A r \in rows : r.day \in days
        BY DEF DistinctDates
      <3>5. \A r \in rows : place(r) \in Nat
        <4>1. Irreflexive(days)
          BY <1>2, NumbersAreOrdered
        <4> HIDE DEF days
        <4>2. QED
          BY <4>1, <1>6, <3>4, RankIsSmall
      <3>6. \A r \in rows : ~(Offset <= place(r) /\ place(r) < Offset + PageLimit)
        BY <2>1, <2>4, <3>4
      <3>7. \A r \in rows : place(r) < Offset <=> place(r) < Offset + PageLimit
        <4> HIDE DEF place
        <4>1. QED
          BY <3>5, <3>6, <1>6
      <3>8. Range(Answered') = {r \in rows : place(r) < Offset'}
        <4> HIDE DEF place
        <4>1. QED
          BY <3>2, <3>3, <3>7, <1>3
      <3>9. step' = "done" => Cardinality(days) <= Offset'
        BY <3>1, <3>3, <2>2, <1>8
      <3>10. QED
        BY <3>2, <3>3, <3>8, <3>9, <1>3, <1>5
    <2>5. QED
      BY <2>3, <2>4
  <1>12. CASE FindByDates
    <2>1. step = "byDates" /\ Turn /\ UNCHANGED total
      BY <1>12 DEF FindByDates
    <2> DEFINE B == FlattenSeq(answered')
    <2>2. /\ \A i, j \in DOMAIN B : i < j => NewestFirst(B[i], B[j])
          /\ Range(B) = {r \in rows : place(r) < Offset + PageLimit}
      BY <1>3, <1>12, <2>1, RowsOfDaysStep
    <2>3. Answered' = B
      BY DEF Answered
    <2>4. Offset' = Offset + PageLimit /\ step' \in {"count", "done"}
      BY <2>1, <1>7 DEF Turn
    <2>5. step' = "done" => Cardinality(days) <= Offset'
      BY <2>1, <2>4, <1>3, <1>8
    <2> HIDE DEF B
    <2>6. QED
      BY <2>2, <2>3, <2>4, <2>5, <1>5
  <1>13. ~FindFromCursor /\ ~FindPage
    BY <1>2 DEF CursorListings, FindFromCursor, FindPage
  <1>14. QED
    BY <1>1, <1>9, <1>10, <1>11, <1>12, <1>13 DEF PagingNext

LEMMA PagingStarts ==
    ASSUME RowsHaveIds, PageLimit \in Nat \ {0}, PagingInit
    PROVE  PagingInv
  <1>1. PagingTypes
    BY PagingTypesStart
  <1>2. FlattenSeq(answered) = <<>> /\ DOMAIN FlattenSeq(answered) = {} /\ Range(FlattenSeq(answered)) = {}
    BY DEF PagingInit, FlattenSeq, Range
  <1>3. Offset = 0
    BY DEF Offset, PagingInit
  <1>4. /\ step = IF listing \in CursorListings THEN "find" ELSE "count"
        /\ answered = <<>> /\ cursor = 0 /\ listing \in Listings
    BY DEF PagingInit
  <1>5. \A x \in Listable : x.symbol \in Nat
    BY DEF Listable, RowsHaveIds
  <1>6. /\ rows \subseteq Listable /\ SignalGroups(rows) \subseteq Listable /\ stable \subseteq rows
        /\ IsFiniteSet(rows) /\ IsFiniteSet(DistinctDates(rows))
    BY <1>1, ItemsAreListable DEF PagingTypes
  <1>7. listing \in CursorListings =>
           \A K \in SUBSET Listable : ReadUpTo(K, answered, step, cursor)
    BY <1>2, <1>4, <1>5 DEF ReadUpTo, Ascending
  <1>8. StableAreRead
    BY <1>6, <1>7 DEF StableAreRead, CursorListings
  <1>9. GroupsAreRead
    BY <1>2, <1>6, <1>7 DEF GroupsAreRead, CursorListings, Answered
  <1>10. NumbersAreRead
    <2> SUFFICES ASSUME listing = "history" \/ (listing = "announcements"
                                               /\ \A a, b \in rows : a # b => a.day # b.day)
                 PROVE  {r \in rows : Rank(rows, r) < 0} = {} /\ step = "count"
      BY <1>2, <1>3 DEF NumbersAreRead, Answered
    <2>1. Irreflexive(rows)
      BY <1>1, NumbersAreOrdered
    <2>2. \A r \in rows : Rank(rows, r) \in Nat
      BY <1>6, <2>1, RankIsSmall
    <2>3. \A r \in rows : ~(Rank(rows, r) < 0)
      BY <2>2
    <2>4. step = "count"
      BY <1>4 DEF CursorListings
    <2>5. QED
      BY <2>3, <2>4
  <1>11. DatesAreRead
    <2> DEFINE days == DistinctDates(rows)
    <2> SUFFICES ASSUME listing = "dates"
                 PROVE  {r \in rows : Rank(days, r.day) < 0} = {} /\ step = "count"
      BY <1>2, <1>3 DEF DatesAreRead, Answered
    <2>1. Irreflexive(days)
      BY <1>1, NumbersAreOrdered
    <2>2. \A r \in rows : r.day \in days
      BY DEF DistinctDates
    <2> HIDE DEF days
    <2>3. \A r \in rows : Rank(days, r.day) \in Nat
      BY <1>6, <2>1, <2>2, RankIsSmall DEF days
    <2>4. \A r \in rows : ~(Rank(days, r.day) < 0)
      BY <2>3
    <2>5. step = "count"
      BY <1>4 DEF CursorListings
    <2>6. QED
      BY <2>4, <2>5
  <1>12. QED
    BY <1>1, <1>8, <1>9, <1>10, <1>11 DEF PagingInv

LEMMA PagingAlways ==
    ASSUME RowsHaveIds, PageLimit \in Nat \ {0}
    PROVE  PagingSpec => []PagingInv
  <1>1. PagingInit => PagingInv
    BY PagingStarts
  <1>2. PagingInv /\ [PagingNext]_pagingVars => PagingInv'
    <2> SUFFICES ASSUME PagingInv, [PagingNext]_pagingVars PROVE PagingInv'
      OBVIOUS
    <2>1. PagingTypes'
      BY PagingTypesStep DEF PagingInv
    <2>2. StableAreRead'
      BY StableAreReadStep DEF PagingInv
    <2>3. GroupsAreRead'
      BY GroupsAreReadStep DEF PagingInv
    <2>4. NumbersAreRead'
      BY NumbersAreReadStep DEF PagingInv
    <2>5. DatesAreRead'
      BY DatesAreReadStep DEF PagingInv
    <2>6. QED
      BY <2>1, <2>2, <2>3, <2>4, <2>5 DEF PagingInv
  <1>3. QED
    BY <1>1, <1>2, PTL DEF PagingSpec

LEMMA OffsetIsNat ==
    ASSUME PageLimit \in Nat \ {0}, PagingTypes
    PROVE  Offset \in Nat
  <1>1. page - 1 \in Nat /\ PageLimit \in Nat
    BY DEF PagingTypes
  <1>2. QED
    BY <1>1 DEF Offset

\* The place of every row is before the end.
LEMMA AllBeforeTheEnd ==
    ASSUME RowsHaveIds, PageLimit \in Nat \ {0}, PagingTypes, Irreflexive(rows),
           Cardinality(rows) <= Offset
    PROVE  {r \in rows : Rank(rows, r) < Offset} = rows
  <1>1. IsFiniteSet(rows) /\ Cardinality(rows) \in Nat /\ Offset \in Nat
    BY ItemsAreListable, FS_CardinalityType, OffsetIsNat
  <1>2. \A r \in rows : Rank(rows, r) \in Nat /\ Rank(rows, r) < Cardinality(rows)
    BY <1>1, RankIsSmall
  <1>3. QED
    BY <1>1, <1>2

\* In order, and so none twice, is every row as often as it should be.
LEMMA InOrderIsOnce ==
    ASSUME RowsHaveIds, PagingTypes, listing = "announcements",
           \A a, b \in rows : a # b => a.day # b.day,
           \A i, j \in DOMAIN Answered : i < j => Precedes(Answered[i], Answered[j]),
           Range(Answered) = rows, NEW r \in rows
    PROVE  Times(r) = 1
  <1>1. Answered \in Seq(Listable)
    <2>1. answered \in Seq(Seq(Listable)) /\ <<>> \in Seq(Listable)
      BY EmptySeq DEF PagingTypes
    <2>2. QED
      BY <2>1, FlattenAppend DEF Answered
  <1>2. DOMAIN Answered = 1 .. Len(Answered) /\ Len(Answered) \in Nat
    BY <1>1
  <1>3. PICK k \in DOMAIN Answered : Answered[k] = r
    BY DEF Range
  <1>4. Irreflexive(rows)
    BY NumbersAreOrdered
  <1>5. \A i \in DOMAIN Answered : Answered[i] = r => i = k
    <2> SUFFICES ASSUME NEW i \in DOMAIN Answered, Answered[i] = r, i # k PROVE FALSE
      OBVIOUS
    <2>1. i < k \/ k < i
      BY <1>2, <1>3
    <2>2. Precedes(r, r)
      BY <2>1, <1>3
    <2>3. QED
      BY <2>2, <1>4 DEF Irreflexive
  <1>6. {i \in DOMAIN Answered : Answered[i] = r} = {k}
    BY <1>3, <1>5
  <1>7. QED
    BY <1>6, FS_Singleton DEF Times

\* Whoever reads a listing page by page gets what was promised: by the cursor of
\* the brands every row that was there all the while, in order and none twice,
\* whatever is stored or deleted meanwhile; the stocks of several signals each
\* once, and by page number every row once and newest first (the announcements
\* when no two share a day), unless rows change meanwhile. For any table,
\* any limit of a page and any number of pages: the LIMIT + 1 of the cursor
\* queries and the COUNT, OFFSET and total pages of the others fit together.
THEOREM ListingsAreWhole ==
    ASSUME RowsHaveIds, PageLimit \in Nat \ {0}
    PROVE  PagingSpec => []PagesAreExact
  <1>1. PagingInv => PagesAreExact
    <2> SUFFICES ASSUME PagingInv PROVE PagesAreExact
      OBVIOUS
    <2>0. PagingTypes
      BY DEF PagingInv
    <2>1. Answered \in Seq(Listable)
      <3>1. answered \in Seq(Seq(Listable)) /\ <<>> \in Seq(Listable)
        BY <2>0, EmptySeq DEF PagingTypes
      <3>2. QED
        BY <3>1, FlattenAppend DEF Answered
    <2>2. CursorsVisitEverything
      <3> SUFFICES ASSUME listing \in {"brands", "highVolume"}, ~Crowded
                   PROVE  /\ \A i, j \in DOMAIN Answered : i < j => Answered[i].symbol < Answered[j].symbol
                          /\ step = "done" => stable \subseteq Range(Answered)
                          /\ step = "find" /\ answered # <<>> => cursor > Last(Answered).symbol
        BY DEF CursorsVisitEverything
      <3>1. ReadUpTo(stable, answered, step, cursor)
        BY DEF PagingInv, StableAreRead
      <3>2. /\ Ascending(Answered)
            /\ step = "find" => /\ \A i \in DOMAIN Answered : Answered[i].symbol < cursor
                                /\ answered # <<>> => Answered # <<>>
            /\ step = "done" => stable \subseteq Range(Answered)
        BY <3>1 DEF ReadUpTo, Answered
      <3>3. ASSUME step = "find", answered # <<>> PROVE cursor > Last(Answered).symbol
        <4>1. Len(Answered) \in DOMAIN Answered
          BY <3>2, <3>3, <2>1, EmptySeq
        <4>2. Answered[Len(Answered)].symbol < cursor
          BY <4>1, <3>2, <3>3
        <4>3. Last(Answered) = Answered[Len(Answered)]
          BY DEF Last
        <4>4. QED
          BY <4>2, <4>3
      <3>4. QED
        BY <3>2, <3>3 DEF Ascending
    <2>3. SignalsVisitedOnce
      <3> SUFFICES ASSUME listing = "signals", changes = 0
                   PROVE  /\ \A i, j \in DOMAIN Answered : i < j => Answered[i].symbol < Answered[j].symbol
                          /\ step = "done" => Range(Answered) = SignalGroups(rows)
        BY DEF SignalsVisitedOnce
      <3>1. /\ ReadUpTo(SignalGroups(rows), answered, step, cursor)
            /\ Range(Answered) \subseteq SignalGroups(rows)
        BY DEF PagingInv, GroupsAreRead
      <3>2. /\ Ascending(Answered)
            /\ step = "done" => SignalGroups(rows) \subseteq Range(Answered)
        BY <3>1 DEF ReadUpTo, Answered
      <3>3. QED
        BY <3>1, <3>2 DEF Ascending
    <2>4. ASSUME listing = "history", changes = 0
          PROVE  /\ \A i, j \in DOMAIN Answered : i < j => NewestFirst(Answered[i], Answered[j])
                 /\ step = "done" => Range(Answered) = rows
      <3>1. /\ \A i, j \in DOMAIN Answered : i < j => Precedes(Answered[i], Answered[j])
            /\ Range(Answered) = {r \in rows : Rank(rows, r) < Offset}
            /\ step = "done" => Cardinality(rows) <= Offset
        BY <2>4 DEF PagingInv, NumbersAreRead
      <3>2. \A a, b : Precedes(a, b) <=> NewestFirst(a, b)
        BY <2>4 DEF Precedes
      <3>3. step = "done" => Range(Answered) = rows
        BY <2>0, <2>4, <3>1, AllBeforeTheEnd, NumbersAreOrdered
      <3>4. QED
        BY <3>1, <3>2, <3>3
    <2>5. ASSUME listing = "dates", changes = 0
          PROVE  /\ \A i, j \in DOMAIN Answered : i < j => NewestFirst(Answered[i], Answered[j])
                 /\ step = "done" => Range(Answered) = rows
      <3> DEFINE days == DistinctDates(rows)
      <3>1. /\ \A i, j \in DOMAIN Answered : i < j => NewestFirst(Answered[i], Answered[j])
            /\ Range(Answered) = {r \in rows : Rank(days, r.day) < Offset}
            /\ step = "done" => Cardinality(days) <= Offset
        BY <2>5 DEF PagingInv, DatesAreRead
      <3>2. \A r \in rows : r.day \in days
        BY DEF DistinctDates
      <3>3. Irreflexive(days) /\ IsFiniteSet(days)
        BY <2>0, <2>5, NumbersAreOrdered, ItemsAreListable
      <3>4. Offset \in Nat
        BY <2>0, OffsetIsNat
      <3> HIDE DEF days
      <3>5. \A d \in days : Rank(days, d) \in Nat /\ Rank(days, d) < Cardinality(days)
        BY <3>3, RankIsSmall
      <3>6. Cardinality(days) \in Nat
        BY <3>3, FS_CardinalityType
      <3>7. step = "done" => \A r \in rows : Rank(days, r.day) < Offset
        <4> SUFFICES ASSUME step = "done", NEW r \in rows PROVE Rank(days, r.day) < Offset
          OBVIOUS
        <4>1. Rank(days, r.day) \in Nat /\ Rank(days, r.day) < Cardinality(days)
          BY <3>2, <3>5
        <4>2. QED
          BY <4>1, <3>1, <3>4, <3>6
      <3>8. QED
        BY <3>1, <3>7
    <2>6. ASSUME listing = "announcements", changes = 0, step = "done",
                 \A a, b \in rows : a # b => a.day # b.day
          PROVE  \A r \in rows : Times(r) = 1
      <3>1. /\ \A i, j \in DOMAIN Answered : i < j => Precedes(Answered[i], Answered[j])
            /\ Range(Answered) = {r \in rows : Rank(rows, r) < Offset}
            /\ Cardinality(rows) <= Offset
        BY <2>6 DEF PagingInv, NumbersAreRead
      <3>2. Range(Answered) = rows
        BY <2>0, <2>6, <3>1, AllBeforeTheEnd, NumbersAreOrdered
      <3>3. QED
        BY <2>0, <2>6, <3>1, <3>2, InOrderIsOnce
    <2>7. PagesVisitOnce
      BY <2>4, <2>5, <2>6 DEF PagesVisitOnce
    <2>8. QED
      BY <2>2, <2>3, <2>7 DEF PagesAreExact
  <1>2. QED
    BY <1>1, PagingAlways, PTL

-----------------------------------------------------------------------------
(* The strategy ranking: what holds while the goroutines work *)

PoolTypes ==
    /\ given \in 0 .. Len(Jobs) /\ feeding \in BOOLEAN /\ cancelled \in BOOLEAN
    /\ job \in [Workers -> 0 .. Len(Jobs)] /\ left \in SUBSET Workers
    /\ kept \in [Workers -> Seq(Eligible)]

\* A brand is in the hands of one worker, or in one place of its results.
KeptOnce ==
    \A w, v \in Workers : \A i \in DOMAIN kept[w], j \in DOMAIN kept[v] :
        kept[w][i] = kept[v][j] => w = v /\ i = j

KeptWereGiven ==
    \A w \in Workers : \A i \in DOMAIN kept[w] :
        \E k \in 1 .. given : kept[w][i] = Jobs[k]

HeldOnce ==
    /\ \A w \in Workers : job[w] <= given
    /\ \A w, v \in Workers : job[w] = job[v] /\ job[w] # 0 => w = v
    /\ \A w, v \in Workers : \A i \in DOMAIN kept[w] :
         job[v] # 0 => kept[w][i] # Jobs[job[v]]

\* Unless an error has cancelled the run, no brand with enough bars is lost.
NoneIsLost ==
    ~cancelled =>
      \A k \in 1 .. given : Jobs[k] \in Eligible =>
        \E w \in Workers : job[w] = k \/ \E i \in DOMAIN kept[w] : kept[w][i] = Jobs[k]

\* Nobody leaves before the channel is closed, and it is closed when all is sent.
LeftInTime ==
    /\ \A w \in left : job[w] = 0
    /\ phase # "idle" /\ ~cancelled =>
         /\ feeding => left = {}
         /\ ~feeding => given = Len(Jobs)

PhasesInOrder ==
    /\ phase \in {"idle", "pool", "publish"} /\ runNo \in 0 .. MaxRankingRuns
    /\ phase # "idle" => runNo # 0
    /\ phase = "publish" => Ended /\ ~cancelled /\ ranking.at = runNo
    /\ toSet \in Seq(StrategySet)
    /\ ranking.at \in 0 .. runNo

PoolInv ==
    /\ PoolTypes /\ KeptOnce /\ KeptWereGiven /\ HeldOnce /\ NoneIsLost
    /\ LeftInTime /\ PhasesInOrder

\* What a sequential loop over the brands gives for a run.
Winners(n, s) == {b \in Eligible : At(n, s, b).ret > 0}
Traders(n) == {b \in Eligible : \E s \in StrategySet : At(n, s, b).trades > 0}
Returns(n, s) == Total([b \in Eligible |-> At(n, s, b).ret])

RankingOf(n, items) ==
    /\ {items[i].strategy : i \in DOMAIN items} = StrategySet
    /\ \A i \in DOMAIN items :
         /\ items[i].stockCount = Cardinality(Eligible)
         /\ items[i].sumReturn = Returns(n, items[i].strategy)
         /\ items[i].positiveCount = Cardinality(Winners(n, items[i].strategy))
         /\ i > 1 => items[i].sumReturn <= items[i - 1].sumReturn
    /\ Total([i \in DOMAIN items |-> items[i].bestCount]) = Cardinality(Traders(n))

DrillDownOf(n, s, list) ==
    /\ Len(list) = Cardinality(Eligible) /\ Range(list) = Eligible
    /\ \A i \in 2 .. Len(list) : At(n, s, list[i]).ret <= At(n, s, list[i - 1]).ret
    /\ Cardinality({k \in DOMAIN list : At(n, s, list[k]).ret > 0}) =
         Cardinality(Winners(n, s))

StoredAreExact ==
    /\ ranking.at # 0 => RankingOf(ranking.at, ranking.items)
    /\ DOMAIN stocks = StrategySet
    /\ \A s \in StrategySet :
         stocks[s].at # 0 => /\ DrillDownOf(stocks[s].at, s, stocks[s].items)
                             /\ stocks[s].at \in 1 .. ranking.at

RankingInv == PoolInv /\ StoredAreExact

LEMMA BrandsAreDistinct ==
    ASSUME RankingParams
    PROVE  /\ Len(Jobs) \in Nat /\ DOMAIN Jobs = 1 .. Len(Jobs)
           /\ \A i, j \in 1 .. Len(Jobs) : Jobs[i] = Jobs[j] => i = j
           /\ \A b \in Eligible : \E i \in 1 .. Len(Jobs) : Jobs[i] = b
  <1>1. Len(Jobs) \in Nat /\ DOMAIN Jobs = 1 .. Len(Jobs)
    BY DEF RankingParams
  <1>2. \A i, j \in DOMAIN Jobs : Jobs[i] = Jobs[j] => i = j
    BY DEF RankingParams, IsInjective
  <1>3. \A b \in Eligible : \E i \in DOMAIN Jobs : Jobs[i] = b
    BY DEF RankingParams, Range
  <1>4. QED
    BY <1>1, <1>2, <1>3

LEMMA PoolStarts ==
    ASSUME RankingParams, RankingInit
    PROVE  PoolInv
  <1>1. Len(Jobs) \in Nat /\ 0 .. MaxRankingRuns # {} /\ MaxRankingRuns \in Nat
    BY BrandsAreDistinct DEF RankingParams
  <1>2. <<>> \in Seq(Eligible) /\ <<>> \in Seq(StrategySet) /\ DOMAIN <<>> = {}
    OBVIOUS
  <1>3. PoolTypes
    <2>1. kept \in [Workers -> Seq(Eligible)]
      BY <1>2 DEF RankingInit
    <2>2. job \in [Workers -> 0 .. Len(Jobs)]
      BY <1>1 DEF RankingInit
    <2>3. given \in 0 .. Len(Jobs) /\ feeding \in BOOLEAN /\ cancelled \in BOOLEAN
      <3>1. given = 0 /\ feeding \in BOOLEAN /\ cancelled \in BOOLEAN
        BY DEF RankingInit
      <3>2. QED
        BY <1>1, <3>1
    <2>4. left \in SUBSET Workers
      BY DEF RankingInit
    <2>5. QED
      BY <2>1, <2>2, <2>3, <2>4 DEF PoolTypes
  <1>4. \A w \in Workers : kept[w] = <<>> /\ job[w] = 0 /\ DOMAIN kept[w] = {}
    BY <1>2 DEF RankingInit
  <1>5. KeptOnce /\ KeptWereGiven
    BY <1>4 DEF KeptOnce, KeptWereGiven
  <1>6. HeldOnce /\ NoneIsLost
    BY <1>4 DEF RankingInit, HeldOnce, NoneIsLost
  <1>7. LeftInTime /\ PhasesInOrder
    BY <1>1, <1>2, <1>4 DEF RankingInit, LeftInTime, PhasesInOrder
  <1>8. QED
    BY <1>3, <1>5, <1>6, <1>7 DEF PoolInv

LEMMA StartKeepsPool ==
    ASSUME RankingParams, PoolInv, StartRanking
    PROVE  PoolInv'
  <1>1. Len(Jobs) \in Nat /\ MaxRankingRuns \in Nat
    BY BrandsAreDistinct DEF RankingParams
  <1>2. <<>> \in Seq(Eligible) /\ DOMAIN <<>> = {}
    OBVIOUS
  <1>3. PoolTypes'
    <2>1. kept' \in [Workers -> Seq(Eligible)]
      BY <1>2 DEF StartRanking, FreshPool
    <2>2. job' \in [Workers -> 0 .. Len(Jobs)]
      BY <1>1 DEF StartRanking, FreshPool
    <2>3. given' \in 0 .. Len(Jobs) /\ feeding' \in BOOLEAN /\ cancelled' \in BOOLEAN
      <3>1. given' = 0 /\ feeding' \in BOOLEAN /\ cancelled' \in BOOLEAN
        BY DEF StartRanking, FreshPool
      <3>2. QED
        BY <1>1, <3>1
    <2>4. left' \in SUBSET Workers
      BY DEF StartRanking, FreshPool
    <2>5. QED
      BY <2>1, <2>2, <2>3, <2>4 DEF PoolTypes
  <1>4. \A w \in Workers : kept'[w] = <<>> /\ job'[w] = 0 /\ DOMAIN kept'[w] = {}
    BY <1>2 DEF StartRanking, FreshPool
  <1>5. KeptOnce' /\ KeptWereGiven'
    BY <1>4 DEF KeptOnce, KeptWereGiven
  <1>6. HeldOnce' /\ NoneIsLost'
    BY <1>4 DEF StartRanking, FreshPool, HeldOnce, NoneIsLost
  <1>7. LeftInTime'
    BY <1>4 DEF StartRanking, FreshPool, LeftInTime
  <1>8. PhasesInOrder'
    BY <1>1 DEF PoolInv, StartRanking, PhasesInOrder
  <1>9. QED
    BY <1>3, <1>5, <1>6, <1>7, <1>8 DEF PoolInv

LEMMA HandKeepsPool ==
    ASSUME RankingParams, PoolInv, RunWorkers, NEW w \in Workers, Hand(w)
    PROVE  PoolInv'
  <1>1. /\ Len(Jobs) \in Nat
        /\ \A i, j \in 1 .. Len(Jobs) : Jobs[i] = Jobs[j] => i = j
    BY BrandsAreDistinct
  <1>2. /\ feeding /\ given < Len(Jobs) /\ w \notin left /\ job[w] = 0
        /\ given' = given + 1 /\ job' = [job EXCEPT ![w] = given + 1]
        /\ UNCHANGED <<feeding, left, kept, cancelled>>
    BY DEF Hand, Receiving, CanHand
  <1>3. UNCHANGED <<runNo, phase, toSet, ranking>>
    BY DEF RunWorkers
  <1>4. PoolTypes /\ given \in 0 .. Len(Jobs) /\ job \in [Workers -> 0 .. Len(Jobs)]
    BY DEF PoolInv, PoolTypes
  <1>5. PoolTypes'
    BY <1>1, <1>2, <1>4 DEF PoolTypes
  <1>6. KeptOnce'
    BY <1>2 DEF PoolInv, KeptOnce
  <1>7. KeptWereGiven'
    <2>1. \A v \in Workers : \A i \in DOMAIN kept[v] : \E k \in 1 .. given : kept[v][i] = Jobs[k]
      BY DEF PoolInv, KeptWereGiven
    <2>2. \A k \in 1 .. given : k \in 1 .. given + 1
      BY <1>4
    <2>3. QED
      BY <1>2, <2>1, <2>2 DEF KeptWereGiven
  <1>8. HeldOnce'
    <2>1. /\ \A v \in Workers : job[v] <= given
          /\ \A u, v \in Workers : job[u] = job[v] /\ job[u] # 0 => u = v
          /\ \A u, v \in Workers : \A i \in DOMAIN kept[u] :
                job[v] # 0 => kept[u][i] # Jobs[job[v]]
      BY DEF PoolInv, HeldOnce
    <2>2. \A v \in Workers : job'[v] = IF v = w THEN given + 1 ELSE job[v]
      BY <1>2, <1>4
    <2>3. \A v \in Workers : job'[v] <= given + 1
      BY <1>4, <2>1, <2>2
    <2>4. \A u, v \in Workers : job'[u] = job'[v] /\ job'[u] # 0 => u = v
      BY <1>4, <2>1, <2>2
    <2>5. ASSUME NEW u \in Workers, NEW v \in Workers, NEW i \in DOMAIN kept[u], job'[v] # 0
          PROVE  kept[u][i] # Jobs[job'[v]]
      <3>1. CASE v # w
        BY <2>1, <2>2, <2>5, <3>1
      <3>2. CASE v = w
        <4>1. PICK k \in 1 .. given : kept[u][i] = Jobs[k]
          BY DEF PoolInv, KeptWereGiven
        <4>2. k \in 1 .. Len(Jobs) /\ given + 1 \in 1 .. Len(Jobs) /\ k # given + 1
          BY <1>1, <1>2, <1>4
        <4>3. Jobs[k] # Jobs[given + 1]
          BY <1>1, <4>2
        <4>4. QED
          BY <2>2, <3>2, <4>1, <4>3
      <3>3. QED
        BY <3>1, <3>2
    <2>6. QED
      BY <1>2, <2>3, <2>4, <2>5 DEF HeldOnce
  <1>9. NoneIsLost'
    <2>1. SUFFICES ASSUME ~cancelled, NEW k \in 1 .. given + 1, Jobs[k] \in Eligible
                   PROVE  \E v \in Workers :
                            job'[v] = k \/ \E i \in DOMAIN kept[v] : kept[v][i] = Jobs[k]
      BY <1>2 DEF NoneIsLost
    <2>2. CASE k = given + 1
      BY <1>2, <1>4, <2>2
    <2>3. CASE k # given + 1
      <3>1. k \in 1 .. given
        BY <1>4, <2>3
      <3>2. PICK v \in Workers : job[v] = k \/ \E i \in DOMAIN kept[v] : kept[v][i] = Jobs[k]
        BY <2>1, <3>1 DEF PoolInv, NoneIsLost
      <3>3. job[v] = k => job'[v] = k
        BY <1>2, <1>4, <3>1
      <3>4. QED
        BY <3>2, <3>3
    <2>4. QED
      BY <2>2, <2>3
  <1>10. LeftInTime'
    BY <1>2, <1>3, <1>4 DEF PoolInv, LeftInTime
  <1>11. PhasesInOrder'
    BY <1>2, <1>3 DEF PoolInv, PhasesInOrder, Ended
  <1>12. QED
    BY <1>5, <1>6, <1>7, <1>8, <1>9, <1>10, <1>11 DEF PoolInv

LEMMA WorkKeepsPool ==
    ASSUME RankingParams, PoolInv, RunWorkers, NEW w \in Workers, Work(w)
    PROVE  PoolInv'
  <1> DEFINE b == Jobs[job[w]]
             n == Len(kept[w])
  <1>1. /\ Len(Jobs) \in Nat
        /\ \A i, j \in 1 .. Len(Jobs) : Jobs[i] = Jobs[j] => i = j
    BY BrandsAreDistinct
  <1>2. /\ job[w] # 0 /\ job' = [job EXCEPT ![w] = 0] /\ kept' = [kept EXCEPT ![w] = KeptWith(w)]
        /\ UNCHANGED <<given, feeding, left, cancelled>>
    BY DEF Work, Busy
  <1>3. UNCHANGED <<runNo, phase, toSet, ranking>>
    BY DEF RunWorkers
  <1>4. /\ PoolTypes /\ given \in 0 .. Len(Jobs) /\ job \in [Workers -> 0 .. Len(Jobs)]
        /\ kept \in [Workers -> Seq(Eligible)]
    BY DEF PoolInv, PoolTypes
  <1>5. /\ job[w] \in 1 .. given /\ job[w] \in 1 .. Len(Jobs)
        /\ n \in Nat /\ DOMAIN kept[w] = 1 .. n
    BY <1>1, <1>2, <1>4 DEF PoolInv, HeldOnce
  <1>6. /\ \A v \in Workers \ {w} : kept'[v] = kept[v] /\ job'[v] = job[v]
        /\ job'[w] = 0
        /\ b \notin Eligible => kept'[w] = kept[w]
        /\ b \in Eligible => /\ kept'[w] = Append(kept[w], b)
                             /\ DOMAIN kept'[w] = 1 .. n + 1
                             /\ kept'[w][n + 1] = b
                             /\ \A i \in 1 .. n : kept'[w][i] = kept[w][i]
    <2>1. kept'[w] = KeptWith(w) /\ job'[w] = 0
      BY <1>2, <1>4
    <2>2. \A v \in Workers \ {w} : kept'[v] = kept[v] /\ job'[v] = job[v]
      BY <1>2, <1>4
    <2>3. ASSUME b \in Eligible
          PROVE  /\ kept'[w] = Append(kept[w], b)
                 /\ DOMAIN kept'[w] = 1 .. n + 1
                 /\ kept'[w][n + 1] = b
                 /\ \A i \in 1 .. n : kept'[w][i] = kept[w][i]
      <3>1. kept'[w] = Append(kept[w], b) /\ kept[w] \in Seq(Eligible)
        BY <1>4, <2>1, <2>3 DEF KeptWith
      <3>2. QED
        BY <2>3, <3>1, AppendProperties
    <2>4. b \notin Eligible => kept'[w] = kept[w]
      BY <2>1 DEF KeptWith
    <2>5. QED
      BY <2>1, <2>2, <2>3, <2>4
  <1>7. \A v \in Workers : kept'[v] \in Seq(Eligible)
    <2>1. TAKE v \in Workers
    <2>2. CASE v = w /\ b \in Eligible
      <3>1. kept[w] \in Seq(Eligible) /\ kept'[v] = Append(kept[w], b)
        BY <1>4, <1>6, <2>2
      <3>2. QED
        BY <2>2, <3>1, AppendProperties
    <2>3. CASE ~(v = w /\ b \in Eligible)
      BY <1>4, <1>6, <2>3
    <2>4. QED
      BY <2>2, <2>3
  <1>8. PoolTypes'
    BY <1>1, <1>2, <1>4, <1>7 DEF PoolTypes
  <1> DEFINE Was(v, i) == i \in DOMAIN kept[v] /\ kept'[v][i] = kept[v][i]
  \* What a worker has kept it had, or it is the brand it has just read.
  <1>9. \A v \in Workers : \A i \in DOMAIN kept'[v] :
            \/ Was(v, i)
            \/ v = w /\ i = n + 1 /\ kept'[v][i] = b /\ b \in Eligible
    <2>1. TAKE v \in Workers
    <2>2. CASE v = w /\ b \in Eligible
      <3>1. /\ DOMAIN kept'[w] = 1 .. n + 1 /\ kept'[w][n + 1] = b
            /\ \A i \in 1 .. n : kept'[w][i] = kept[w][i]
        BY <1>6, <2>2
      <3>2. n \in Nat /\ DOMAIN kept[w] = 1 .. n
        BY <1>5
      <3>3. \A i \in 1 .. n + 1 : i \in 1 .. n \/ i = n + 1
        BY <3>2
      <3> HIDE DEF n, b
      <3>4. QED
        BY <2>2, <3>1, <3>2, <3>3
    <2>3. CASE ~(v = w /\ b \in Eligible)
      <3>1. kept'[v] = kept[v]
        BY <1>6, <2>3
      <3>2. QED
        BY <3>1
    <2>4. QED
      BY <2>2, <2>3
  <1>10. \A v \in Workers : \A i \in DOMAIN kept[v] : i \in DOMAIN kept'[v] /\ kept'[v][i] = kept[v][i]
    <2>1. TAKE v \in Workers
    <2>2. CASE v = w /\ b \in Eligible
      BY <1>5, <1>6, <2>2
    <2>3. CASE ~(v = w /\ b \in Eligible)
      BY <1>5, <1>6, <2>3
    <2>4. QED
      BY <2>2, <2>3
  <1>11. /\ \A v \in Workers : job[v] <= given
         /\ \A u, v \in Workers : job[u] = job[v] /\ job[u] # 0 => u = v
         /\ \A u, v \in Workers : \A i \in DOMAIN kept[u] :
                job[v] # 0 => kept[u][i] # Jobs[job[v]]
    BY DEF PoolInv, HeldOnce
  <1>12. \A v \in Workers : \A i \in DOMAIN kept[v] : kept[v][i] # b
    BY <1>2, <1>11
  <1>13. KeptOnce'
    <2>1. SUFFICES ASSUME NEW u \in Workers, NEW v \in Workers,
                          NEW i \in DOMAIN kept'[u], NEW j \in DOMAIN kept'[v],
                          kept'[u][i] = kept'[v][j]
                   PROVE  u = v /\ i = j
      BY DEF KeptOnce
    <2>2. CASE Was(u, i) /\ Was(v, j)
      <3>1. i \in DOMAIN kept[u] /\ j \in DOMAIN kept[v] /\ kept[u][i] = kept[v][j]
        BY <2>1, <2>2
      <3>2. QED
        BY <3>1 DEF PoolInv, KeptOnce
    <2>3. CASE ~Was(u, i) /\ ~Was(v, j)
      BY <1>9, <2>3
    <2>4. CASE Was(u, i) /\ ~Was(v, j)
      BY <1>9, <1>12, <2>1, <2>4
    <2>5. CASE ~Was(u, i) /\ Was(v, j)
      BY <1>9, <1>12, <2>1, <2>5
    <2>6. QED
      BY <2>2, <2>3, <2>4, <2>5
  <1>14. KeptWereGiven'
    <2>1. SUFFICES ASSUME NEW v \in Workers, NEW i \in DOMAIN kept'[v]
                   PROVE  \E k \in 1 .. given : kept'[v][i] = Jobs[k]
      BY <1>2 DEF KeptWereGiven
    <2>2. CASE Was(v, i)
      BY <2>2 DEF PoolInv, KeptWereGiven
    <2>3. CASE ~Was(v, i)
      BY <1>5, <1>9, <2>3
    <2>4. QED
      BY <2>2, <2>3
  <1>15. HeldOnce'
    <2>1. \A v \in Workers : job'[v] = 0 \/ (v # w /\ job'[v] = job[v])
      BY <1>6
    <2>2. \A v \in Workers : job'[v] <= given'
      BY <1>2, <1>4, <1>11, <2>1
    <2>3. \A u, v \in Workers : job'[u] = job'[v] /\ job'[u] # 0 => u = v
      BY <1>11, <2>1
    <2>4. ASSUME NEW u \in Workers, NEW v \in Workers, NEW i \in DOMAIN kept'[u], job'[v] # 0
          PROVE  kept'[u][i] # Jobs[job'[v]]
      <3>1. v # w /\ job'[v] = job[v] /\ job[v] # 0
        BY <2>1, <2>4
      <3>2. CASE Was(u, i)
        BY <1>11, <3>1, <3>2
      <3>3. CASE ~Was(u, i)
        <4>1. job[v] \in 1 .. Len(Jobs) /\ job[v] # job[w]
          BY <1>4, <1>11, <3>1
        <4>2. Jobs[job[v]] # b
          BY <1>1, <1>5, <4>1
        <4>3. QED
          BY <1>9, <3>1, <3>3, <4>2
      <3>4. QED
        BY <3>2, <3>3
    <2>5. QED
      BY <2>2, <2>3, <2>4 DEF HeldOnce
  <1>16. NoneIsLost'
    <2>1. SUFFICES ASSUME ~cancelled, NEW k \in 1 .. given, Jobs[k] \in Eligible
                   PROVE  \E v \in Workers :
                            job'[v] = k \/ \E i \in DOMAIN kept'[v] : kept'[v][i] = Jobs[k]
      BY <1>2 DEF NoneIsLost
    <2>2. PICK v \in Workers : job[v] = k \/ \E i \in DOMAIN kept[v] : kept[v][i] = Jobs[k]
      BY <2>1 DEF PoolInv, NoneIsLost
    <2>3. CASE job[v] = k /\ v = w
      <3>1. n + 1 \in DOMAIN kept'[w] /\ kept'[w][n + 1] = Jobs[k]
        BY <1>5, <1>6, <2>1, <2>3
      <3>2. QED
        BY <3>1
    <2>4. CASE job[v] = k /\ v # w
      BY <1>6, <2>4
    <2>5. CASE \E i \in DOMAIN kept[v] : kept[v][i] = Jobs[k]
      BY <1>10, <2>5
    <2>6. QED
      BY <2>2, <2>3, <2>4, <2>5
  <1>17. LeftInTime'
    BY <1>2, <1>3, <1>6 DEF PoolInv, LeftInTime, PoolTypes
  <1>18. PhasesInOrder'
    BY <1>2, <1>3 DEF PoolInv, PhasesInOrder, Ended
  <1>19. QED
    BY <1>8, <1>13, <1>14, <1>15, <1>16, <1>17, <1>18 DEF PoolInv

\* A worker that leaves, with an error or at the end, holds no brand.
LEMMA LeavingKeepsPool ==
    ASSUME RankingParams, PoolInv, RunWorkers, NEW w \in Workers, ReadFails(w) \/ Leave(w)
    PROVE  PoolInv'
  <1>1. UNCHANGED <<given, feeding, kept>> /\ left' = left \cup {w}
    BY DEF ReadFails, Leave, Busy, CanLeave
  <1>2. UNCHANGED <<runNo, phase, toSet, ranking>> /\ phase = "pool"
    BY DEF RunWorkers
  <1>3. /\ PoolTypes /\ given \in 0 .. Len(Jobs) /\ job \in [Workers -> 0 .. Len(Jobs)]
        /\ left \in SUBSET Workers
    BY DEF PoolInv, PoolTypes
  <1>4. Len(Jobs) \in Nat
    BY BrandsAreDistinct
  <1>5. /\ job'[w] = 0 /\ \A v \in Workers : job'[v] = 0 \/ job'[v] = job[v]
        /\ job' \in [Workers -> 0 .. Len(Jobs)]
    <2>1. CASE ReadFails(w)
      BY <1>3, <1>4, <2>1 DEF ReadFails, Busy
    <2>2. CASE Leave(w)
      BY <1>3, <1>4, <2>2 DEF Leave, Receiving, CanLeave
    <2>3. QED
      BY <2>1, <2>2
  <1>6. cancelled' = TRUE \/ (cancelled' = cancelled /\ job' = job /\ ~feeding)
    BY DEF ReadFails, Leave, Busy, CanLeave
  <1>7. PoolTypes'
    BY <1>1, <1>3, <1>5, <1>6 DEF PoolTypes
  <1>8. KeptOnce' /\ KeptWereGiven'
    BY <1>1 DEF PoolInv, KeptOnce, KeptWereGiven
  <1>9. HeldOnce'
    <2>1. /\ \A v \in Workers : job[v] <= given
          /\ \A u, v \in Workers : job[u] = job[v] /\ job[u] # 0 => u = v
          /\ \A u, v \in Workers : \A i \in DOMAIN kept[u] :
                job[v] # 0 => kept[u][i] # Jobs[job[v]]
      BY DEF PoolInv, HeldOnce
    <2>2. \A v \in Workers : job'[v] <= given'
      BY <1>1, <1>3, <1>5, <2>1
    <2>3. \A u, v \in Workers : job'[u] = job'[v] /\ job'[u] # 0 => u = v
      BY <1>5, <2>1
    <2>4. \A u, v \in Workers : \A i \in DOMAIN kept'[u] : job'[v] # 0 => kept'[u][i] # Jobs[job'[v]]
      BY <1>1, <1>5, <2>1
    <2>5. QED
      BY <2>2, <2>3, <2>4 DEF HeldOnce
  <1>10. NoneIsLost'
    BY <1>1, <1>6 DEF PoolInv, NoneIsLost
  <1>11. LeftInTime'
    <2>1. \A v \in left' : job'[v] = 0
      BY <1>1, <1>3, <1>5 DEF PoolInv, LeftInTime
    <2>2. phase' # "idle" /\ ~cancelled' => (feeding' => left' = {}) /\ (~feeding' => given' = Len(Jobs))
      BY <1>1, <1>2, <1>6 DEF PoolInv, LeftInTime
    <2>3. QED
      BY <2>1, <2>2 DEF LeftInTime
  <1>12. PhasesInOrder'
    BY <1>2 DEF PoolInv, PhasesInOrder
  <1>13. QED
    BY <1>7, <1>8, <1>9, <1>10, <1>11, <1>12 DEF PoolInv

LEMMA CloseKeepsPool ==
    ASSUME RankingParams, PoolInv, RunWorkers, CloseJobs
    PROVE  PoolInv'
  <1>1. /\ UNCHANGED <<given, job, left, kept, cancelled>> /\ feeding' = FALSE
        /\ UNCHANGED <<runNo, phase, toSet, ranking>> /\ phase = "pool"
        /\ given = Len(Jobs) \/ cancelled
    BY DEF RunWorkers, CloseJobs, StopFeeding, CanClose
  <1>2. PoolTypes' /\ KeptOnce' /\ KeptWereGiven'
    <2>1. PoolTypes'
      BY <1>1 DEF PoolInv, PoolTypes
    <2>2. KeptOnce' /\ KeptWereGiven'
      BY <1>1 DEF PoolInv, KeptOnce, KeptWereGiven
    <2>3. QED
      BY <2>1, <2>2
  <1>3. HeldOnce' /\ NoneIsLost'
    BY <1>1 DEF PoolInv, HeldOnce, NoneIsLost
  <1>4. LeftInTime' /\ PhasesInOrder'
    BY <1>1 DEF PoolInv, LeftInTime, PhasesInOrder
  <1>5. QED
    BY <1>2, <1>3, <1>4 DEF PoolInv

\* Once the goroutines have returned, only the phase and the keys change.
LEMMA PublishingKeepsPool ==
    ASSUME RankingParams, PoolInv, PoolFailed \/ SetRanking \/ SetStocks \/ SetFails
    PROVE  PoolInv'
  <1>1. UNCHANGED poolVars /\ runNo' = runNo
    BY DEF PoolFailed, SetRanking, SetStocks, SetFails
  <1>2. UNCHANGED <<given, feeding, job, left, kept, cancelled>>
    BY <1>1 DEF poolVars
  <1>3. PoolTypes' /\ KeptOnce' /\ KeptWereGiven' /\ HeldOnce' /\ NoneIsLost'
    BY <1>2 DEF PoolInv, PoolTypes, KeptOnce, KeptWereGiven, HeldOnce, NoneIsLost
  <1>4. phase # "idle"
    BY DEF PoolFailed, SetRanking, SetStocks, SetFails
  <1>5. LeftInTime'
    BY <1>2, <1>4 DEF PoolInv, LeftInTime
  <1>6. <<>> \in Seq(StrategySet) /\ RankedStrategies \in Seq(StrategySet)
    BY DEF RankingParams
  <1>7. runNo \in Nat /\ runNo \in 0 .. runNo
    BY DEF PoolInv, PhasesInOrder
  <1>8. PhasesInOrder /\ toSet \in Seq(StrategySet)
    BY DEF PoolInv, PhasesInOrder
  <1>9. PhasesInOrder'
    <2>1. CASE PoolFailed
      BY <1>2, <1>8, <2>1 DEF PhasesInOrder, PoolFailed
    <2>2. CASE SetRanking
      BY <1>2, <1>6, <1>7, <1>8, <2>2 DEF PhasesInOrder, SetRanking, Ended
    <2>3. CASE SetStocks
      <3>1. toSet # <<>> /\ toSet' = Tail(toSet)
        BY <2>3 DEF SetStocks
      <3>2. toSet' \in Seq(StrategySet)
        BY <1>8, <3>1
      <3>3. QED
        BY <1>2, <1>8, <2>3, <3>2 DEF PhasesInOrder, SetStocks, Ended
    <2>4. CASE SetFails
      BY <1>2, <1>6, <1>8, <2>4 DEF PhasesInOrder, SetFails
    <2>5. QED
      BY <2>1, <2>2, <2>3, <2>4
  <1>10. QED
    BY <1>3, <1>5, <1>9 DEF PoolInv

LEMMA PoolSteps ==
    ASSUME RankingParams, PoolInv, [RankingNext]_rankingVars
    PROVE  PoolInv'
  <1>1. CASE StartRanking
    BY <1>1, StartKeepsPool
  <1>2. CASE RunWorkers
    <2>1. CASE CloseJobs
      BY <1>2, <2>1, CloseKeepsPool
    <2>2. ASSUME NEW w \in Workers, Hand(w) \/ Work(w) \/ ReadFails(w) \/ Leave(w) PROVE PoolInv'
      BY <1>2, <2>2, HandKeepsPool, WorkKeepsPool, LeavingKeepsPool
    <2>3. QED
      BY <1>2, <2>1, <2>2 DEF RunWorkers, PoolStep
  <1>3. CASE PoolFailed \/ SetRanking \/ SetStocks \/ SetFails
    BY <1>3, PublishingKeepsPool
  <1>4. CASE UNCHANGED rankingVars
    <2>1. PoolTypes' /\ KeptOnce' /\ KeptWereGiven' /\ HeldOnce' /\ NoneIsLost'
      BY <1>4 DEF PoolInv, rankingVars, PoolTypes, KeptOnce, KeptWereGiven, HeldOnce, NoneIsLost
    <2>2. LeftInTime' /\ PhasesInOrder'
      BY <1>4 DEF PoolInv, rankingVars, LeftInTime, PhasesInOrder, Ended
    <2>3. QED
      BY <2>1, <2>2 DEF PoolInv
  <1>5. QED
    BY <1>1, <1>2, <1>3, <1>4 DEF RankingNext

-----------------------------------------------------------------------------
(* The results of the workers, one after the other, added up and sorted *)

\* q holds what the first k of the parts hold, each of it in one place.
HoldsOnce(q, S, parts, k) ==
    /\ q \in Seq(S)
    /\ \A i, j \in DOMAIN q : q[i] = q[j] => i = j
    /\ \A i \in DOMAIN q : \E w \in 1 .. k : \E j \in DOMAIN parts[w] : q[i] = parts[w][j]
    /\ \A w \in 1 .. k : \A j \in DOMAIN parts[w] : \E i \in DOMAIN q : q[i] = parts[w][j]

\* One part more, without a member in common with those before it.
LEMMA OnePartMore ==
    ASSUME NEW S, NEW n \in Nat, NEW parts \in [1 .. n -> Seq(S)], NEW k \in Nat, k + 1 \in 1 .. n,
           \A w, v \in 1 .. n : \A i \in DOMAIN parts[w], j \in DOMAIN parts[v] :
               parts[w][i] = parts[v][j] => w = v /\ i = j,
           NEW q, HoldsOnce(q, S, parts, k)
    PROVE  HoldsOnce(q \o parts[k + 1], S, parts, k + 1)
  <1> DEFINE p == parts[k + 1]
             r == q \o p
             a == Len(q)
             b == Len(p)
  <1>1. q \in Seq(S) /\ p \in Seq(S) /\ a \in Nat /\ b \in Nat /\ DOMAIN q = 1 .. a /\ DOMAIN p = 1 .. b
    BY DEF HoldsOnce
  <1>2. /\ r \in Seq(S) /\ DOMAIN r = 1 .. a + b
        /\ \A i \in 1 .. a + b : r[i] = IF i <= a THEN q[i] ELSE p[i - a]
    BY <1>1, ConcatProperties
  <1>3. \A i \in 1 .. a : i \in DOMAIN r /\ r[i] = q[i]
    BY <1>1, <1>2
  <1>4. \A j \in 1 .. b : a + j \in DOMAIN r /\ r[a + j] = p[j]
    BY <1>1, <1>2
  <1>5. \A i \in DOMAIN r : i \in 1 .. a \/ \E j \in 1 .. b : i = a + j
    <2>1. TAKE i \in DOMAIN r
    <2>2. CASE i > a
      <3>1. i - a \in 1 .. b /\ i = a + (i - a)
        BY <1>1, <1>2, <2>2
      <3>2. QED
        BY <3>1
    <2>3. QED
      BY <1>1, <1>2, <2>2
  <1>6. /\ \A i, j \in DOMAIN q : q[i] = q[j] => i = j
        /\ \A i \in DOMAIN q : \E w \in 1 .. k : \E j \in DOMAIN parts[w] : q[i] = parts[w][j]
        /\ \A w \in 1 .. k : \A j \in DOMAIN parts[w] : \E i \in DOMAIN q : q[i] = parts[w][j]
    BY DEF HoldsOnce
  <1> HIDE DEF r, a, b
  <1>7. \A i \in 1 .. a, j \in 1 .. b : q[i] # p[j]
    <2>1. TAKE i \in 1 .. a, j \in 1 .. b
    <2>2. PICK w \in 1 .. k : \E l \in DOMAIN parts[w] : q[i] = parts[w][l]
      BY <1>1, <1>6
    <2>3. PICK l \in DOMAIN parts[w] : q[i] = parts[w][l]
      BY <2>2
    <2>4. w \in 1 .. n /\ w # k + 1 /\ j \in DOMAIN parts[k + 1]
      BY <1>1
    <2>5. parts[w][l] # parts[k + 1][j]
      BY <2>4
    <2>6. QED
      BY <2>3, <2>5
  <1>8. \A i, j \in 1 .. b : p[i] = p[j] => i = j
    BY <1>1
  <1>9. \A i, j \in DOMAIN r : r[i] = r[j] => i = j
    <2>1. SUFFICES ASSUME NEW i \in DOMAIN r, NEW j \in DOMAIN r, r[i] = r[j] PROVE i = j
      OBVIOUS
    <2>2. CASE i \in 1 .. a /\ j \in 1 .. a
      BY <1>1, <1>3, <1>6, <2>1, <2>2
    <2>3. CASE i \in 1 .. a /\ j \notin 1 .. a
      BY <1>3, <1>4, <1>5, <1>7, <2>1, <2>3
    <2>4. CASE i \notin 1 .. a /\ j \in 1 .. a
      BY <1>3, <1>4, <1>5, <1>7, <2>1, <2>4
    <2>5. CASE i \notin 1 .. a /\ j \notin 1 .. a
      <3>1. PICK x \in 1 .. b : i = a + x
        BY <1>5, <2>5
      <3>2. PICK y \in 1 .. b : j = a + y
        BY <1>5, <2>5
      <3>3. p[x] = p[y]
        BY <1>4, <2>1, <3>1, <3>2
      <3>4. x = y
        BY <1>8, <3>3
      <3>5. QED
        BY <3>1, <3>2, <3>4
    <2>6. QED
      BY <2>2, <2>3, <2>4, <2>5
  <1>10. \A i \in DOMAIN r : \E w \in 1 .. k + 1 : \E j \in DOMAIN parts[w] : r[i] = parts[w][j]
    <2>1. TAKE i \in DOMAIN r
    <2>2. CASE i \in 1 .. a
      <3>1. PICK w \in 1 .. k : \E j \in DOMAIN parts[w] : q[i] = parts[w][j]
        BY <1>1, <1>6, <2>2
      <3>2. w \in 1 .. k + 1
        OBVIOUS
      <3>3. QED
        BY <1>3, <2>2, <3>1, <3>2
    <2>3. CASE i \notin 1 .. a
      <3>1. PICK j \in 1 .. b : i = a + j
        BY <1>5, <2>3
      <3>2. k + 1 \in 1 .. k + 1 /\ j \in DOMAIN parts[k + 1] /\ r[i] = parts[k + 1][j]
        BY <1>1, <1>4, <3>1
      <3>3. QED
        BY <3>2
    <2>4. QED
      BY <2>2, <2>3
  <1>11. \A w \in 1 .. k + 1 : \A j \in DOMAIN parts[w] : \E i \in DOMAIN r : r[i] = parts[w][j]
    <2>1. TAKE w \in 1 .. k + 1
    <2>2. TAKE j \in DOMAIN parts[w]
    <2>3. CASE w = k + 1
      BY <1>1, <1>4, <2>3
    <2>4. CASE w # k + 1
      <3>1. w \in 1 .. k
        BY <2>4
      <3>2. PICK i \in DOMAIN q : q[i] = parts[w][j]
        BY <1>6, <3>1
      <3>3. QED
        BY <1>1, <1>3, <3>2
    <2>5. QED
      BY <2>3, <2>4
  <1>12. QED
    BY <1>2, <1>9, <1>10, <1>11 DEF HoldsOnce, r

\* Sequences without a member in common, one after the other.
LEMMA FlattenedHoldsOnce ==
    ASSUME NEW S, NEW n \in Nat, n # 0, NEW parts \in [1 .. n -> Seq(S)],
           \A w, v \in 1 .. n : \A i \in DOMAIN parts[w], j \in DOMAIN parts[v] :
               parts[w][i] = parts[v][j] => w = v /\ i = j
    PROVE  HoldsOnce(FlattenSeq(parts), S, parts, n)
  <1> DEFINE Body(f) == [i \in 1 .. n |-> IF i = 1 THEN parts[i] ELSE f[i - 1] \o parts[i]]
             flatten == CHOOSE f : f = Body(f)
  <1>1. parts \in Seq(Seq(S)) /\ Len(parts) = n
    BY SeqDef
  <1>2. FlattenSeq(parts) = flatten[n]
    BY <1>1 DEF FlattenSeq
  <1>3. \E f : f = Body(f)
    <2> DEFINE T == Seq(S)
               F == [p \in T \X (1 .. n) |-> p[1] \o parts[p[2]]]
    <2>1. <<>> \in T
      OBVIOUS
    <2>2. F \in [T \X (1 .. n) -> T]
      <3>1. ASSUME NEW p \in T \X (1 .. n) PROVE p[1] \o parts[p[2]] \in T
        <4>1. p[1] \in Seq(S) /\ p[2] \in 1 .. n
          OBVIOUS
        <4>2. parts[p[2]] \in Seq(S)
          BY <4>1
        <4>3. QED
          BY <4>1, <4>2, ConcatProperties
      <3>2. QED
        BY <3>1
    <2>3. \A q \in T, i \in 1 .. n : F[<<q, i>>] = q \o parts[i]
      OBVIOUS
    <2> HIDE DEF T, F
    <2>4. PICK g \in [SUBSET (1 .. n) -> T] : IsFold(g, n, <<>>, F)
      BY <2>1, <2>2, FoldsExist
    <2> DEFINE f == [i \in 1 .. n |-> g[1 .. i]]
    <2>5. \A i \in 1 .. n : g[1 .. i] = g[1 .. i - 1] \o parts[i]
      <3>1. TAKE i \in 1 .. n
      <3>2. 1 .. i \in SUBSET (1 .. n) /\ 1 .. i # {} /\ 1 .. i - 1 \in SUBSET (1 .. n)
        <4>1. i \in 1 .. i
          OBVIOUS
        <4>2. \A x \in 1 .. i : x \in 1 .. n
          OBVIOUS
        <4>3. \A x \in 1 .. i - 1 : x \in 1 .. n
          OBVIOUS
        <4>4. QED
          BY <4>1, <4>2, <4>3
      <3>3. Max(1 .. i) = i /\ (1 .. i) \ {i} = 1 .. i - 1
        BY FirstPositions
      <3>4. g[1 .. i] = F[<<g[(1 .. i) \ {Max(1 .. i)}], Max(1 .. i)>>]
        BY <2>4, <3>2 DEF IsFold
      <3>5. g[1 .. i - 1] \in T
        BY <3>2
      <3>6. g[1 .. i] = F[<<g[1 .. i - 1], i>>]
        BY <3>3, <3>4
      <3>7. QED
        BY <2>3, <3>5, <3>6
    <2>6. g[{}] = <<>> /\ 1 .. 0 = {}
      <3>1. {} \in SUBSET (1 .. n)
        OBVIOUS
      <3>2. QED
        BY <2>4, <3>1 DEF IsFold
    <2>7. f[1] = parts[1]
      <3>1. 1 \in 1 .. n /\ 1 - 1 = 0 /\ parts[1] \in Seq(S)
        OBVIOUS
      <3>2. f[1] = g[1 .. 0] \o parts[1]
        BY <2>5, <3>1
      <3>3. QED
        BY <2>6, <3>1, <3>2, ConcatEmptySeq
    <2>8. \A i \in 1 .. n : i # 1 => f[i] = f[i - 1] \o parts[i]
      <3>1. TAKE i \in 1 .. n
      <3>2. f[i] = g[1 .. i] /\ (i # 1 => f[i - 1] = g[1 .. i - 1])
        OBVIOUS
      <3>3. QED
        BY <2>5, <3>2
    <2>9. f = Body(f)
      <3>1. f = [i \in 1 .. n |-> f[i]]
        OBVIOUS
      <3> HIDE DEF f
      <3>2. \A i \in 1 .. n : f[i] = IF i = 1 THEN parts[i] ELSE f[i - 1] \o parts[i]
        BY <2>7, <2>8, Zenon
      <3>3. QED
        BY <3>1, <3>2, Zenon
    <2> HIDE DEF f
    <2>10. QED
      BY <2>9, Zenon
  <1>4. flatten = Body(flatten)
    BY <1>3, Zenon
  <1> HIDE DEF flatten
  <1>5. flatten[1] = parts[1] /\ \A i \in 1 .. n : i # 1 => flatten[i] = flatten[i - 1] \o parts[i]
    <2>1. 1 \in 1 .. n
      OBVIOUS
    <2>2. \A i \in 1 .. n : flatten[i] = IF i = 1 THEN parts[i] ELSE flatten[i - 1] \o parts[i]
      BY <1>4
    <2>3. QED
      BY <2>1, <2>2
  <1> DEFINE Bad == {k \in 1 .. n : ~HoldsOnce(flatten[k], S, parts, k)}
  <1>6. 1 \notin Bad
    <2>1. 1 \in 1 .. n /\ parts[1] \in Seq(S) /\ 1 .. 1 = {1}
      OBVIOUS
    <2>2. HoldsOnce(parts[1], S, parts, 1)
      BY <2>1 DEF HoldsOnce
    <2>3. QED
      BY <1>5, <2>2
  <1>7. Bad = {}
    <2> SUFFICES ASSUME Bad # {} PROVE FALSE
      OBVIOUS
    <2>1. Bad \subseteq Nat
      OBVIOUS
    <2>2. PICK k \in Bad : \A m \in Bad : k <= m
      BY <2>1, LeastNatural
    <2>3. k \in 1 .. n /\ k # 1 /\ k - 1 \in 1 .. n /\ k - 1 \notin Bad /\ (k - 1) + 1 = k
      BY <1>6, <2>2
    <2> DEFINE l == k - 1
    <2>4. l \in Nat /\ l + 1 \in 1 .. n /\ HoldsOnce(flatten[l], S, parts, l) /\ l + 1 = k
      BY <2>3
    <2> HIDE DEF l
    <2>5. HoldsOnce(flatten[l] \o parts[l + 1], S, parts, l + 1)
      BY <2>4, OnePartMore
    <2>6. flatten[k] = flatten[l] \o parts[l + 1]
      BY <1>5, <2>3, <2>4 DEF l
    <2>7. QED
      BY <2>2, <2>4, <2>5, <2>6
  <1>8. QED
    BY <1>2, <1>7

LEMMA TotalIsTheSum ==
    ASSUME NEW S, IsFiniteSet(S), NEW F \in [S -> Int], NEW G, AddsUp(G, S, F)
    PROVE  Total(F) = G[S]
  <1> DEFINE sum == CHOOSE g : g = [s \in SUBSET S |->
                 IF s = {} THEN 0
                 ELSE F[CHOOSE x \in s : TRUE] + g[s \ {CHOOSE x \in s : TRUE}]]
  <1>1. DOMAIN F = S
    OBVIOUS
  <1>2. Total(F) = sum[S]
    BY <1>1 DEF Total, MapThenSumSet, MapThenFoldSet
  <1>3. \E g : IsSum(g, S, F)
    BY SumsExist
  <1>4. IsSum(sum, S, F)
    BY <1>3 DEF IsSum
  <1> HIDE DEF sum
  <1>5. QED
    BY <1>2, <1>4, SumThatAddsUp

\* A sum does not depend on the names or the order of what is added.
LEMMA PairedTotals ==
    ASSUME NEW S, NEW T, NEW f, Pairs(f, S, T), IsFiniteSet(T), NEW F \in [T -> Int]
    PROVE  Total([x \in S |-> F[f[x]]]) = Total(F)
  <1> DEFINE H == [x \in S |-> F[f[x]]]
             Image(s) == {f[x] : x \in s}
  <1>1. IsFiniteSet(S)
    BY PairedSizes
  <1>2. f \in [S -> T] /\ \A x, y \in S : f[x] = f[y] => x = y
    BY DEF Pairs
  <1>3. H \in [S -> Int] /\ \A x \in S : H[x] = F[f[x]]
    BY <1>2
  <1>4. PICK G \in [SUBSET T -> Int] : AddsUp(G, T, F)
    BY SumInAnyOrder
  <1> DEFINE K == [s \in SUBSET S |-> G[Image(s)]]
  <1>5. AddsUp(K, S, H)
    <2>1. K[{}] = 0
      <3>1. Image({}) = {}
        OBVIOUS
      <3>2. QED
        BY <1>4, <3>1 DEF AddsUp
    <2>2. ASSUME NEW s \in SUBSET S, NEW x \in s PROVE K[s] = H[x] + K[s \ {x}]
      <3>1. Image(s) \in SUBSET T /\ f[x] \in Image(s)
        BY <1>2
      <3>2. Image(s \ {x}) = Image(s) \ {f[x]}
        BY <1>2
      <3>3. K[s] = G[Image(s)] /\ K[s \ {x}] = G[Image(s \ {x})]
        OBVIOUS
      <3> HIDE DEF K, Image, H
      <3>4. G[Image(s)] = F[f[x]] + G[Image(s) \ {f[x]}]
        BY <1>4, <3>1 DEF AddsUp
      <3>5. QED
        BY <1>3, <3>2, <3>3, <3>4
    <2> HIDE DEF K, H
    <2>3. QED
      BY <2>1, <2>2 DEF AddsUp
  <1>6. K[S] = G[T]
    <2>1. Image(S) = T
      BY DEF Pairs
    <2>2. QED
      BY <2>1
  <1> HIDE DEF H, K
  <1>7. Total(H) = K[S]
    BY <1>1, <1>3, <1>5, TotalIsTheSum
  <1>8. Total(F) = G[T]
    BY <1>4, TotalIsTheSum
  <1>9. QED
    BY <1>6, <1>7, <1>8 DEF H

\* sort.SliceStable: the same members, none before a better one.
Sorts(p, n, q, key) ==
    /\ Pairs(p, 1 .. n, 1 .. n)
    /\ SortedDesc(q, key) = [k \in 1 .. n |-> q[p[k]]]
    /\ \A k \in 2 .. n : key[p[k]] <= key[p[k - 1]]

LEMMA SortedIsAPermutation ==
    ASSUME NEW n \in Nat, NEW q, DOMAIN q = 1 .. n, NEW key \in [1 .. n -> Int]
    PROVE  \E p : Sorts(p, n, q, key)
  <1> DEFINE D == 1 .. n
             Before(j, i) == key[j] > key[i] \/ (key[j] = key[i] /\ j < i)
             R == {pr \in D \X D : Before(pr[1], pr[2])}
             Place(i) == Cardinality({j \in D : Before(j, i)}) + 1
             p == [k \in D |-> CHOOSE i \in D : Place(i) = k]
  <1>1. \A j, i \in D : <<j, i>> \in R <=> Before(j, i)
    OBVIOUS
  <1>2. \A i \in D : key[i] \in Int /\ i \in Int
    OBVIOUS
  <1>3. IsOrder(R, D)
    <2>1. \A x \in D : ~Before(x, x)
      BY <1>2
    <2>2. \A x, y, z \in D : Before(x, y) /\ Before(y, z) => Before(x, z)
      BY <1>2
    <2>3. \A x, y \in D : x # y => Before(x, y) \/ Before(y, x)
      BY <1>2
    <2> HIDE DEF Before, R
    <2>4. QED
      BY <1>1, <2>1, <2>2, <2>3 DEF IsOrder
  <1>4. IsFiniteSet(D) /\ Cardinality(D) = n
    BY FS_Interval
  <1>5. SortedDesc(q, key) = [k \in D |-> q[p[k]]]
    BY DEF SortedDesc
  <1>6. \A i \in D : Place(i) = RankIn(R, D, i) + 1
    <2>1. TAKE i \in D
    <2>2. {j \in D : Before(j, i)} = {j \in D : <<j, i>> \in R}
      BY <1>1
    <2>3. QED
      BY <2>2 DEF RankIn
  <1> HIDE DEF R, Place, D
  <1>7. /\ \A x \in D : RankIn(R, D, x) \in 0 .. n - 1
        /\ \A x, y \in D : RankIn(R, D, x) = RankIn(R, D, y) => x = y
        /\ \A x, y \in D : <<x, y>> \in R <=> RankIn(R, D, x) < RankIn(R, D, y)
        /\ \A k \in 0 .. n - 1 : \E x \in D : RankIn(R, D, x) = k
    <2>1. \A x \in D : RankIn(R, D, x) \in 0 .. Cardinality(D) - 1
      BY <1>3, <1>4, RanksAreIncreasing
    <2>2. QED
      BY <1>3, <1>4, <2>1, RanksArePlaces
  <1>8. /\ \A x \in D : Place(x) \in 1 .. n
        /\ \A x, y \in D : Place(x) = Place(y) => x = y
        /\ \A x, y \in D : Before(x, y) <=> Place(x) < Place(y)
    <2> HIDE DEF Before
    <2>1. \A x \in D : RankIn(R, D, x) \in Int /\ Place(x) \in 1 .. n
      BY <1>6, <1>7
    <2>2. \A x, y \in D : Place(x) = Place(y) => x = y
      BY <1>6, <1>7, <2>1
    <2>3. \A x, y \in D : Before(x, y) <=> Place(x) < Place(y)
      <3>1. TAKE x, y \in D
      <3>2. Before(x, y) <=> RankIn(R, D, x) < RankIn(R, D, y)
        BY <1>1, <1>7
      <3>3. Place(x) = RankIn(R, D, x) + 1 /\ Place(y) = RankIn(R, D, y) + 1
        BY <1>6
      <3>4. RankIn(R, D, x) \in Int /\ RankIn(R, D, y) \in Int
        BY <2>1
      <3>5. QED
        BY <3>2, <3>3, <3>4
    <2>4. QED
      BY <2>1, <2>2, <2>3
  <1>9. \A k \in 1 .. n : \E x \in D : Place(x) = k
    <2>1. TAKE k \in 1 .. n
    <2>2. k - 1 \in 0 .. n - 1
      OBVIOUS
    <2>3. PICK x \in D : RankIn(R, D, x) = k - 1
      BY <1>7, <2>2
    <2>4. QED
      BY <1>6, <2>3
  <1>10. \A k \in 1 .. n : p[k] \in D /\ Place(p[k]) = k
    BY <1>9 DEF D
  <1>11. p \in [1 .. n -> 1 .. n]
    BY <1>10 DEF D
  <1> HIDE DEF p
  <1>12. Pairs(p, 1 .. n, 1 .. n)
    <2>1. \A k, l \in 1 .. n : p[k] = p[l] => k = l
      BY <1>10
    <2>2. \A x \in 1 .. n : \E k \in 1 .. n : p[k] = x
      <3>1. TAKE x \in 1 .. n
      <3>2. x \in D /\ Place(x) \in 1 .. n
        BY <1>8 DEF D
      <3>3. p[Place(x)] = x
        BY <1>8, <1>10, <3>2
      <3>4. QED
        BY <3>2, <3>3
    <2>3. QED
      BY <1>11, <2>1, <2>2 DEF Pairs
  <1>13. \A k \in 2 .. n : key[p[k]] <= key[p[k - 1]]
    <2>1. TAKE k \in 2 .. n
    <2> DEFINE x == p[k - 1]
               y == p[k]
    <2>2. k \in 1 .. n /\ k - 1 \in 1 .. n
      OBVIOUS
    <2>3. x \in D /\ y \in D /\ Place(x) = k - 1 /\ Place(y) = k
      BY <1>10, <2>2
    <2> HIDE DEF x, y, Before
    <2>4. Before(x, y)
      BY <1>8, <2>3
    <2>5. key[x] \in Int /\ key[y] \in Int
      BY <1>2, <2>3
    <2>6. key[y] <= key[x]
      BY <2>4, <2>5 DEF Before
    <2>7. QED
      BY <2>6 DEF x, y
  <1>14. QED
    BY <1>5, <1>12, <1>13 DEF D, Sorts

\* When a run has ended without an error, its results hold every brand with
\* enough bars, each once.
LEMMA NoBrandIsMissed ==
    ASSUME RankingParams, PoolInv, phase # "idle", Ended, ~cancelled
    PROVE  /\ Gathered \in Seq(Eligible)
           /\ Pairs(Gathered, 1 .. Len(Gathered), Eligible)
           /\ IsFiniteSet(Eligible) /\ Cardinality(Eligible) = Len(Gathered)
  <1> DEFINE q == Gathered
             parts == [w \in Workers |-> kept[w]]
  <1>1. WorkerCount \in Nat /\ WorkerCount # 0 /\ Workers = 1 .. WorkerCount
    BY DEF RankingParams, Workers
  <1>2. parts \in [1 .. WorkerCount -> Seq(Eligible)] /\ \A w \in Workers : parts[w] = kept[w]
    BY <1>1 DEF PoolInv, PoolTypes
  <1>3. \A w, v \in 1 .. WorkerCount : \A i \in DOMAIN parts[w], j \in DOMAIN parts[v] :
            parts[w][i] = parts[v][j] => w = v /\ i = j
    BY <1>1, <1>2 DEF PoolInv, KeptOnce
  <1>4. q = FlattenSeq(parts)
    BY DEF Gathered
  <1> HIDE DEF q, parts
  <1>5. HoldsOnce(q, Eligible, parts, WorkerCount)
    BY <1>1, <1>2, <1>3, <1>4, FlattenedHoldsOnce
  <1>6. \A b \in Eligible : \E w \in Workers : \E i \in DOMAIN kept[w] : kept[w][i] = b
    <2>1. TAKE b \in Eligible
    <2>2. PICK k \in 1 .. Len(Jobs) : Jobs[k] = b
      BY BrandsAreDistinct
    <2>3. given = Len(Jobs)
      BY DEF PoolInv, LeftInTime, Ended
    <2>4. PICK w \in Workers : job[w] = k \/ \E i \in DOMAIN kept[w] : kept[w][i] = b
      BY <2>2, <2>3 DEF PoolInv, NoneIsLost
    <2>5. job[w] = 0
      BY DEF PoolInv, LeftInTime, Ended
    <2>6. k # 0
      BY <2>2
    <2>7. QED
      BY <2>4, <2>5, <2>6
  <1>7. q \in Seq(Eligible) /\ Len(q) \in Nat /\ DOMAIN q = 1 .. Len(q)
    BY <1>5 DEF HoldsOnce
  <1>8. \A b \in Eligible : \E i \in 1 .. Len(q) : q[i] = b
    <2>1. TAKE b \in Eligible
    <2>2. PICK w \in Workers : \E j \in DOMAIN kept[w] : kept[w][j] = b
      BY <1>6
    <2>3. PICK j \in DOMAIN kept[w] : kept[w][j] = b
      BY <2>2
    <2>4. w \in 1 .. WorkerCount /\ j \in DOMAIN parts[w] /\ parts[w][j] = b
      BY <1>1, <1>2, <2>3
    <2>5. \E i \in DOMAIN q : q[i] = parts[w][j]
      BY <1>5, <2>4 DEF HoldsOnce
    <2>6. QED
      BY <1>7, <2>4, <2>5
  <1>9. Pairs(q, 1 .. Len(q), Eligible)
    <2>1. \A i, j \in 1 .. Len(q) : q[i] = q[j] => i = j
      BY <1>5, <1>7 DEF HoldsOnce
    <2>2. q \in [1 .. Len(q) -> Eligible]
      BY <1>7
    <2>3. QED
      BY <1>8, <2>1, <2>2 DEF Pairs
  <1>10. IsFiniteSet(1 .. Len(q)) /\ Cardinality(1 .. Len(q)) = Len(q)
    BY <1>7, FS_Interval
  <1>11. IsFiniteSet(Eligible) /\ Cardinality(Eligible) = Len(q)
    <2> HIDE DEF Pairs
    <2>1. QED
      BY <1>9, <1>10, PairedSizes
  <1>12. QED
    BY <1>7, <1>9, <1>11 DEF q

\* The strategies, one at each place of the fixed order.
LEMMA StrategiesArePlaced ==
    ASSUME RankingParams
    PROVE  /\ Len(RankedStrategies) \in Nat /\ DOMAIN RankedStrategies = 1 .. Len(RankedStrategies)
           /\ Pairs(RankedStrategies, 1 .. Len(RankedStrategies), StrategySet)
           /\ IsFiniteSet(StrategySet)
           /\ \A s \in StrategySet : /\ Idx(s) \in 1 .. Len(RankedStrategies)
                                     /\ RankedStrategies[Idx(s)] = s
  <1> DEFINE m == Len(RankedStrategies)
  <1>1. m \in Nat /\ DOMAIN RankedStrategies = 1 .. m /\ RankedStrategies \in [1 .. m -> StrategySet]
    BY DEF RankingParams
  <1>2. \A i, j \in 1 .. m : RankedStrategies[i] = RankedStrategies[j] => i = j
    BY <1>1 DEF RankingParams, IsInjective
  <1>3. \A s \in StrategySet : \E i \in 1 .. m : RankedStrategies[i] = s
    BY <1>1 DEF StrategySet, Range
  <1>4. Pairs(RankedStrategies, 1 .. m, StrategySet)
    BY <1>1, <1>2, <1>3 DEF Pairs
  <1>5. IsFiniteSet(1 .. m)
    BY <1>1, FS_Interval
  <1>6. IsFiniteSet(StrategySet)
    BY <1>4, <1>5, PairedSizes
  <1>7. \A s \in StrategySet : Idx(s) \in 1 .. m /\ RankedStrategies[Idx(s)] = s
    BY <1>1, <1>3 DEF Idx
  <1>8. QED
    BY <1>1, <1>4, <1>6, <1>7

\* A brand that was traded has one best strategy, another has none.
LEMMA OneBestEach ==
    ASSUME RankingParams, runNo \in 1 .. MaxRankingRuns, NEW b \in Eligible
    PROVE  /\ b \in Traders(runNo) => \E s \in StrategySet : BestOf(b) = {s}
           /\ b \notin Traders(runNo) => BestOf(b) = {}
  <1> DEFINE T == {s \in StrategySet : ResultOf(s, b).trades > 0}
             Better(s, o) == \/ ResultOf(s, b).ret > ResultOf(o, b).ret
                             \/ ResultOf(s, b).ret = ResultOf(o, b).ret /\ Idx(s) < Idx(o)
             R == {pr \in StrategySet \X StrategySet : Better(pr[1], pr[2])}
  <1>1. \A s \in StrategySet : /\ ResultOf(s, b).ret \in Int /\ ResultOf(s, b).trades \in Nat
                               /\ Idx(s) \in Int /\ RankedStrategies[Idx(s)] = s
    <2>1. \A s \in StrategySet : ResultOf(s, b).ret \in Int /\ ResultOf(s, b).trades \in Nat
      BY DEF RankingParams, ResultOf, At
    <2>2. \A s \in StrategySet : Idx(s) \in 1 .. Len(RankedStrategies) /\ RankedStrategies[Idx(s)] = s
      BY StrategiesArePlaced
    <2>3. Len(RankedStrategies) \in Nat
      BY StrategiesArePlaced
    <2>4. QED
      BY <2>1, <2>2, <2>3
  <1>2. \A s, o \in StrategySet : s # o => Idx(s) # Idx(o)
    BY <1>1
  <1>3. \A s, o \in StrategySet : <<s, o>> \in R <=> Better(s, o)
    OBVIOUS
  <1>4. BestOf(b) = {s \in T : \A o \in T : \/ ResultOf(s, b).ret > ResultOf(o, b).ret
                                            \/ ResultOf(s, b).ret = ResultOf(o, b).ret /\ Idx(s) <= Idx(o)}
    BY DEF BestOf
  <1>5. \A s, o \in StrategySet :
            (\/ ResultOf(s, b).ret > ResultOf(o, b).ret
             \/ ResultOf(s, b).ret = ResultOf(o, b).ret /\ Idx(s) <= Idx(o)) <=> s = o \/ Better(s, o)
    BY <1>1, <1>2
  <1>6. T \in SUBSET StrategySet
    OBVIOUS
  <1>7. BestOf(b) = {s \in T : \A o \in T : s = o \/ Better(s, o)}
    BY <1>4, <1>5, <1>6
  <1>8. IsOrder(R, T)
    <2>1. \A x \in StrategySet : ~Better(x, x)
      BY <1>1
    <2>2. \A x, y, z \in StrategySet : Better(x, y) /\ Better(y, z) => Better(x, z)
      BY <1>1
    <2>3. \A x, y \in StrategySet : x # y => Better(x, y) \/ Better(y, x)
      BY <1>1, <1>2
    <2> HIDE DEF Better, R, T
    <2>4. QED
      BY <1>3, <1>6, <2>1, <2>2, <2>3 DEF IsOrder
  <1>9. IsFiniteSet(T)
    BY <1>6, StrategiesArePlaced, FS_Subset
  <1>10. b \in Traders(runNo) <=> T # {}
    BY DEF Traders, At, ResultOf
  <1> HIDE DEF T, R, Better
  <1>11. ASSUME T # {} PROVE \E s \in StrategySet : BestOf(b) = {s}
    <2>1. PICK x \in T : \A y \in T \ {x} : <<x, y>> \in R
      BY <1>8, <1>9, <1>11, FirstAndLast
    <2>2. x \in StrategySet
      BY <1>6
    <2>3. \A y \in T : x = y \/ Better(x, y)
      BY <1>3, <1>6, <2>1
    <2>4. \A y \in T : y # x => ~Better(y, x)
      <3>1. TAKE y \in T
      <3>2. Better(x, y) /\ Better(y, x) => FALSE
        BY <1>3, <1>6, <1>8, <2>1 DEF IsOrder
      <3>3. QED
        BY <2>3, <3>2
    <2>5. BestOf(b) = {x}
      BY <1>7, <2>3, <2>4
    <2>6. QED
      BY <2>2, <2>5
  <1>12. T = {} => BestOf(b) = {}
    BY <1>7
  <1>13. QED
    BY <1>10, <1>11, <1>12

\* Counted by strategy or by brand: one best strategy for each brand traded.
LEMMA BestsAddUp ==
    ASSUME RankingParams, runNo \in 1 .. MaxRankingRuns, IsFiniteSet(Eligible)
    PROVE  LET F == [s \in StrategySet |-> Cardinality({b \in Eligible : s \in BestOf(b)})]
           IN  F \in [StrategySet -> Int] /\ Total(F) = Cardinality(Traders(runNo))
  <1> DEFINE Champion(s) == {b \in Eligible : s \in BestOf(b)}
             F == [s \in StrategySet |-> Cardinality(Champion(s))]
             K == {k \in StrategySet \X Eligible : k[1] \in BestOf(k[2])}
             Its(s) == {k \in K : k[1] = s}
             W == Traders(runNo)
  <1>1. IsFiniteSet(StrategySet)
    BY StrategiesArePlaced
  <1>2. \A s \in StrategySet : IsFiniteSet(Champion(s)) /\ Cardinality(Champion(s)) \in Nat
    <2>1. TAKE s \in StrategySet
    <2>2. Champion(s) \in SUBSET Eligible
      OBVIOUS
    <2> HIDE DEF Champion
    <2>3. QED
      BY <2>2, FS_Subset, FS_CardinalityType
  <1>3. F \in [StrategySet -> Int] /\ \A s \in StrategySet : F[s] = Cardinality(Champion(s))
    BY <1>2
  <1>4. IsFiniteSet(K)
    <2>1. IsFiniteSet(StrategySet \X Eligible)
      BY <1>1, FS_Product
    <2>2. K \in SUBSET (StrategySet \X Eligible)
      OBVIOUS
    <2> HIDE DEF K
    <2>3. QED
      BY <2>1, <2>2, FS_Subset
  <1>5. \A k \in K : /\ k[1] \in StrategySet /\ k[2] \in Eligible
                    /\ k[1] \in BestOf(k[2]) /\ k = <<k[1], k[2]>>
    OBVIOUS
  <1>6. \A s \in StrategySet, b \in Eligible : s \in BestOf(b) => <<s, b>> \in K
    OBVIOUS
  <1> HIDE DEF K, F
  <1>7. \A s \in StrategySet : F[s] = Cardinality(Its(s))
    <2>1. TAKE s \in StrategySet
    <2> DEFINE f == [k \in Its(s) |-> k[2]]
    <2>2. f \in [Its(s) -> Champion(s)]
      BY <1>5
    <2>3. \A k, l \in Its(s) : f[k] = f[l] => k = l
      BY <1>5
    <2>4. \A b \in Champion(s) : \E k \in Its(s) : f[k] = b
      <3>1. TAKE b \in Champion(s)
      <3>2. <<s, b>> \in Its(s) /\ f[<<s, b>>] = b
        BY <1>6
      <3>3. QED
        BY <3>2
    <2> HIDE DEF f, Its, Champion
    <2>5. Pairs(f, Its(s), Champion(s))
      BY <2>2, <2>3, <2>4 DEF Pairs
    <2>6. QED
      BY <1>2, <1>3, <2>5, PairedSizes
  <1>8. Cardinality(K) = Cardinality(W)
    <2> DEFINE f == [k \in K |-> k[2]]
    <2>1. \A b \in Eligible : /\ b \in W => \E s \in StrategySet : BestOf(b) = {s}
                              /\ b \notin W => BestOf(b) = {}
      BY OneBestEach
    <2>2. f \in [K -> W]
      <3>1. \A k \in K : k[2] \in W
        BY <1>5, <2>1
      <3>2. QED
        BY <3>1
    <2>3. \A k, l \in K : f[k] = f[l] => k = l
      <3>1. SUFFICES ASSUME NEW k \in K, NEW l \in K, k[2] = l[2] PROVE k = l
        OBVIOUS
      <3>2. PICK s \in StrategySet : BestOf(k[2]) = {s}
        BY <1>5, <2>1
      <3>3. k[1] = s /\ l[1] = s
        BY <1>5, <3>1, <3>2
      <3>4. QED
        BY <1>5, <3>1, <3>3
    <2>4. W \in SUBSET Eligible
      BY DEF Traders
    <2> HIDE DEF W
    <2>5. \A b \in W : \E k \in K : f[k] = b
      <3>1. TAKE b \in W
      <3>2. PICK s \in StrategySet : BestOf(b) = {s}
        BY <2>1, <2>4
      <3>3. <<s, b>> \in K /\ f[<<s, b>>] = b
        BY <1>6, <2>4, <3>2
      <3>4. QED
        BY <3>3
    <2> HIDE DEF f
    <2>6. Pairs(f, K, W)
      BY <2>2, <2>3, <2>5 DEF Pairs
    <2>7. QED
      BY <1>4, <2>6, PairedSizes
  <1>9. PICK G \in [SUBSET StrategySet -> Int] : AddsUp(G, StrategySet, F)
    BY <1>1, <1>3, SumInAnyOrder
  <1>10. PICK sum : IsSum(sum, StrategySet, F)
    BY <1>1, SumsExist
  <1>11. sum[StrategySet] = Cardinality({k \in K : k[1] \in StrategySet})
    BY <1>1, <1>4, <1>7, <1>10, SumOfParts
  <1>12. {k \in K : k[1] \in StrategySet} = K
    BY <1>5
  <1>13. sum[StrategySet] = G[StrategySet]
    BY <1>1, <1>9, <1>10, SumThatAddsUp
  <1>14. Total(F) = G[StrategySet]
    BY <1>1, <1>3, <1>9, TotalIsTheSum
  <1>15. QED
    BY <1>3, <1>8, <1>11, <1>12, <1>13, <1>14 DEF F

\* What the merged results say of a strategy is what a sequential loop finds.
LEMMA ItemIsSequential ==
    ASSUME RankingParams, PoolInv, phase # "idle", Ended, ~cancelled, NEW s \in StrategySet
    PROVE  LET item == Item(s, Gathered)
           IN  /\ item.strategy = s
               /\ item.stockCount = Cardinality(Eligible)
               /\ item.sumReturn = Returns(runNo, s) /\ item.sumReturn \in Int
               /\ item.positiveCount = Cardinality(Winners(runNo, s))
               /\ item.bestCount = Cardinality({b \in Eligible : s \in BestOf(b)})
  <1> DEFINE q == Gathered
             n == Len(q)
             item == Item(s, q)
             Counted(T) == Cardinality({i \in DOMAIN q : q[i] \in T})
             ret == [b \in Eligible |-> At(runNo, s, b).ret]
  <1>1. /\ q \in Seq(Eligible) /\ Pairs(q, 1 .. n, Eligible)
        /\ IsFiniteSet(Eligible) /\ Cardinality(Eligible) = n
    BY NoBrandIsMissed
  <1>2. runNo \in 1 .. MaxRankingRuns
    BY DEF PoolInv, PhasesInOrder, RankingParams
  <1>3. ret \in [Eligible -> Int] /\ \A b \in Eligible : ResultOf(s, b).ret = ret[b]
    BY <1>2 DEF RankingParams, ResultOf, At
  <1>4. DOMAIN q = 1 .. n
    BY <1>1
  <1>5. /\ item.strategy = s /\ item.stockCount = n
        /\ item.sumReturn = Total([i \in DOMAIN q |-> ResultOf(s, q[i]).ret])
        /\ item.positiveCount = Counted({b \in Eligible : ResultOf(s, b).ret > 0})
        /\ item.bestCount = Counted({b \in Eligible : s \in BestOf(b)})
    BY DEF Item
  <1> HIDE DEF q, n, item
  <1> DEFINE D == 1 .. n
  <1>0. Pairs(q, D, Eligible) /\ IsFiniteSet(Eligible) /\ DOMAIN q = D
    BY <1>1, <1>4
  <1> HIDE DEF D
  <1>6. \A T \in SUBSET Eligible : Counted(T) = Cardinality(T)
    <2>1. TAKE T \in SUBSET Eligible
    <2>2. Cardinality({i \in D : q[i] \in T}) = Cardinality(T)
      BY <1>0, PairedParts
    <2>3. QED
      BY <1>0, <2>2
  <1>7. {b \in Eligible : ResultOf(s, b).ret > 0} = Winners(runNo, s)
    BY DEF Winners, ResultOf, At
  <1>8. [i \in DOMAIN q |-> ResultOf(s, q[i]).ret] = [i \in D |-> ret[q[i]]]
    <2>1. \A i \in D : q[i] \in Eligible
      BY <1>0 DEF Pairs
    <2>2. QED
      BY <1>0, <1>3, <2>1
  <1>9. Returns(runNo, s) = Total(ret)
    BY DEF Returns
  <1> HIDE DEF ret
  <1>10. Total([i \in D |-> ret[q[i]]]) = Total(ret)
    <2>1. ret \in [Eligible -> Int]
      BY <1>3
    <2>2. QED
      BY <1>0, <2>1, PairedTotals
  <1>11. Total(ret) \in Int
    <2>1. PICK G \in [SUBSET Eligible -> Int] : AddsUp(G, Eligible, ret)
      BY <1>1, <1>3, SumInAnyOrder
    <2>2. Total(ret) = G[Eligible]
      BY <1>1, <1>3, <2>1, TotalIsTheSum
    <2>3. QED
      BY <2>2
  <1>12. {b \in Eligible : s \in BestOf(b)} \in SUBSET Eligible /\ Winners(runNo, s) \in SUBSET Eligible
    BY DEF Winners
  <1> HIDE DEF Counted
  <1>13. item.sumReturn = Returns(runNo, s) /\ item.sumReturn \in Int
    BY <1>5, <1>8, <1>9, <1>10, <1>11
  <1>14. item.positiveCount = Cardinality(Winners(runNo, s))
    BY <1>5, <1>6, <1>7, <1>12
  <1>15. item.bestCount = Cardinality({b \in Eligible : s \in BestOf(b)})
    BY <1>5, <1>6, <1>12
  <1>16. QED
    BY <1>1, <1>5, <1>13, <1>14, <1>15 DEF item, q

LEMMA RankingIsExact ==
    ASSUME RankingParams, PoolInv, phase # "idle", Ended, ~cancelled
    PROVE  RankingOf(runNo, RankedItems(Gathered))
  <1> DEFINE q == Gathered
             m == Len(RankedStrategies)
             items == [i \in DOMAIN RankedStrategies |-> Item(RankedStrategies[i], q)]
             key == [i \in DOMAIN items |-> items[i].sumReturn]
             sorted == SortedDesc(items, key)
             F == [s \in StrategySet |-> Cardinality({b \in Eligible : s \in BestOf(b)})]
  <1>1. /\ m \in Nat /\ DOMAIN RankedStrategies = 1 .. m
        /\ Pairs(RankedStrategies, 1 .. m, StrategySet) /\ IsFiniteSet(StrategySet)
    BY StrategiesArePlaced
  <1>2. \A i \in 1 .. m : RankedStrategies[i] \in StrategySet
    BY <1>1 DEF Pairs
  <1>3. \A i \in 1 .. m : /\ items[i].strategy = RankedStrategies[i]
                          /\ items[i].stockCount = Cardinality(Eligible)
                          /\ items[i].sumReturn = Returns(runNo, RankedStrategies[i])
                          /\ items[i].sumReturn \in Int
                          /\ items[i].positiveCount = Cardinality(Winners(runNo, RankedStrategies[i]))
                          /\ items[i].bestCount = F[RankedStrategies[i]]
    <2>1. TAKE i \in 1 .. m
    <2> DEFINE s == RankedStrategies[i]
    <2>2. s \in StrategySet /\ items[i] = Item(s, q)
      BY <1>1, <1>2
    <2>3. F[s] = Cardinality({b \in Eligible : s \in BestOf(b)})
      BY <2>2
    <2> HIDE DEF s, items, F
    <2>4. /\ Item(s, q).strategy = s
          /\ Item(s, q).stockCount = Cardinality(Eligible)
          /\ Item(s, q).sumReturn = Returns(runNo, s) /\ Item(s, q).sumReturn \in Int
          /\ Item(s, q).positiveCount = Cardinality(Winners(runNo, s))
          /\ Item(s, q).bestCount = Cardinality({b \in Eligible : s \in BestOf(b)})
      BY <2>2, ItemIsSequential
    <2>5. QED
      BY <2>2, <2>3, <2>4 DEF s
  <1>4. DOMAIN items = 1 .. m
    BY <1>1
  <1>5. RankedItems(q) = sorted
    BY DEF RankedItems
  <1>6. F \in [StrategySet -> Int] /\ Total(F) = Cardinality(Traders(runNo))
    <2>1. runNo \in 1 .. MaxRankingRuns
      BY DEF PoolInv, PhasesInOrder, RankingParams
    <2>2. IsFiniteSet(Eligible)
      BY NoBrandIsMissed
    <2>3. QED
      BY <2>1, <2>2, BestsAddUp
  <1> HIDE DEF items, F
  <1>7. key \in [1 .. m -> Int]
    BY <1>3, <1>4
  <1>8. \A i \in 1 .. m : key[i] = items[i].sumReturn
    BY <1>4
  <1> HIDE DEF key, m
  <1>9a. PICK p : Sorts(p, m, items, key)
    <2>1. m \in Nat
      BY <1>1
    <2>2. DOMAIN items = 1 .. m
      BY <1>4
    <2>3. key \in [1 .. m -> Int]
      BY <1>7
    <2>4. QED
      BY <2>1, <2>2, <2>3, SortedIsAPermutation
  <1>9. /\ Pairs(p, 1 .. m, 1 .. m)
       /\ sorted = [k \in 1 .. m |-> items[p[k]]]
       /\ \A k \in 2 .. m : key[p[k]] <= key[p[k - 1]]
    BY <1>9a DEF Sorts
  <1> DEFINE f == [k \in 1 .. m |-> RankedStrategies[p[k]]]
  <1>10. \A k \in 1 .. m : p[k] \in 1 .. m
    BY <1>9 DEF Pairs
  <1>11. Pairs(f, 1 .. m, StrategySet)
    <2>1. f \in [1 .. m -> StrategySet]
      BY <1>2, <1>10
    <2>2. \A k, l \in 1 .. m : f[k] = f[l] => k = l
      <3>1. TAKE k, l \in 1 .. m
      <3>2. RankedStrategies[p[k]] = RankedStrategies[p[l]] => p[k] = p[l]
        BY <1>1, <1>10 DEF Pairs
      <3>3. QED
        BY <1>9, <3>2 DEF Pairs
    <2>3. \A s \in StrategySet : \E k \in 1 .. m : f[k] = s
      <3>1. TAKE s \in StrategySet
      <3>2. PICK i \in 1 .. m : RankedStrategies[i] = s
        BY <1>1 DEF Pairs
      <3>3. PICK k \in 1 .. m : p[k] = i
        BY <1>9 DEF Pairs
      <3>4. QED
        BY <3>2, <3>3
    <2> HIDE DEF f
    <2>4. QED
      BY <2>1, <2>2, <2>3 DEF Pairs
  <1>12. \A k \in 1 .. m : f[k] = RankedStrategies[p[k]]
    OBVIOUS
  <1> HIDE DEF f, sorted
  <1>13. DOMAIN sorted = 1 .. m
    BY <1>9
  <1>14. \A k \in 1 .. m : /\ sorted[k].strategy = f[k]
                           /\ sorted[k].stockCount = Cardinality(Eligible)
                           /\ sorted[k].sumReturn = Returns(runNo, f[k])
                           /\ sorted[k].sumReturn = key[p[k]]
                           /\ sorted[k].positiveCount = Cardinality(Winners(runNo, f[k]))
                           /\ sorted[k].bestCount = F[f[k]]
    <2>1. TAKE k \in 1 .. m
    <2>2. p[k] \in 1 .. m /\ sorted[k] = items[p[k]] /\ f[k] = RankedStrategies[p[k]]
      BY <1>9, <1>10, <1>12
    <2>3. QED
      BY <1>3, <1>8, <2>2
  <1>15. {sorted[i].strategy : i \in DOMAIN sorted} = StrategySet
    BY <1>11, <1>13, <1>14 DEF Pairs
  <1>16. \A i \in DOMAIN sorted : i > 1 => sorted[i].sumReturn <= sorted[i - 1].sumReturn
    <2>1. TAKE i \in DOMAIN sorted
    <2>2. i > 1 => i \in 2 .. m /\ i - 1 \in 1 .. m
      BY <1>1, <1>13
    <2>3. QED
      BY <1>9, <1>13, <1>14, <2>2
  <1>17. Total([i \in DOMAIN sorted |-> sorted[i].bestCount]) = Cardinality(Traders(runNo))
    <2>1. [i \in DOMAIN sorted |-> sorted[i].bestCount] = [i \in 1 .. m |-> F[f[i]]]
      BY <1>13, <1>14
    <2>2. Total([i \in 1 .. m |-> F[f[i]]]) = Total(F)
      BY <1>1, <1>6, <1>11, PairedTotals
    <2>3. QED
      BY <1>6, <2>1, <2>2
  <1>18. RankingOf(runNo, sorted)
    BY <1>13, <1>14, <1>15, <1>16, <1>17 DEF RankingOf
  <1>19. QED
    BY <1>5, <1>18 DEF q

LEMMA DrillDownIsExact ==
    ASSUME RankingParams, PoolInv, phase # "idle", Ended, ~cancelled, NEW s \in StrategySet
    PROVE  DrillDownOf(runNo, s, DrillDown(s, Gathered))
  <1> DEFINE q == Gathered
             n == Len(q)
             key == [i \in DOMAIN q |-> ResultOf(s, q[i]).ret]
             list == SortedDesc(q, key)
  <1>1. /\ q \in Seq(Eligible) /\ Pairs(q, 1 .. n, Eligible)
        /\ IsFiniteSet(Eligible) /\ Cardinality(Eligible) = n
    BY NoBrandIsMissed
  <1>2. runNo \in 1 .. MaxRankingRuns
    BY DEF PoolInv, PhasesInOrder, RankingParams
  <1>3. \A b \in Eligible : ResultOf(s, b).ret \in Int /\ ResultOf(s, b).ret = At(runNo, s, b).ret
    BY <1>2 DEF RankingParams, ResultOf, At
  <1>4. DrillDown(s, q) = list
    BY DEF DrillDown
  <1> HIDE DEF q
  <1>5. DOMAIN q = 1 .. n /\ n \in Nat
    BY <1>1
  <1>6. \A i \in 1 .. n : q[i] \in Eligible
    BY <1>1 DEF Pairs
  <1>7. key \in [1 .. n -> Int] /\ \A i \in 1 .. n : key[i] = At(runNo, s, q[i]).ret
    BY <1>3, <1>5, <1>6
  <1> HIDE DEF key, n
  <1>8a. PICK p : Sorts(p, n, q, key)
    <2>1. n \in Nat
      BY <1>5
    <2>2. DOMAIN q = 1 .. n
      BY <1>5
    <2>3. key \in [1 .. n -> Int]
      BY <1>7
    <2>4. QED
      BY <2>1, <2>2, <2>3, SortedIsAPermutation
  <1>8. /\ Pairs(p, 1 .. n, 1 .. n)
       /\ list = [k \in 1 .. n |-> q[p[k]]]
       /\ \A k \in 2 .. n : key[p[k]] <= key[p[k - 1]]
    BY <1>8a DEF Sorts
  <1>9. \A k \in 1 .. n : p[k] \in 1 .. n
    BY <1>8 DEF Pairs
  <1> HIDE DEF list
  <1>10. \A k \in 1 .. n : /\ list[k] = q[p[k]] /\ list[k] \in Eligible
                           /\ key[p[k]] = At(runNo, s, list[k]).ret
    BY <1>6, <1>7, <1>8, <1>9
  <1>11. Pairs(list, 1 .. n, Eligible)
    <2>1. list \in [1 .. n -> Eligible]
      BY <1>8, <1>10
    <2>2. \A k, l \in 1 .. n : list[k] = list[l] => k = l
      <3>1. TAKE k, l \in 1 .. n
      <3>2. q[p[k]] = q[p[l]] => p[k] = p[l]
        BY <1>1, <1>9 DEF Pairs
      <3>3. QED
        BY <1>8, <1>10, <3>2 DEF Pairs
    <2>3. \A b \in Eligible : \E k \in 1 .. n : list[k] = b
      <3>1. TAKE b \in Eligible
      <3>2. PICK i \in 1 .. n : q[i] = b
        BY <1>1 DEF Pairs
      <3>3. PICK k \in 1 .. n : p[k] = i
        BY <1>8 DEF Pairs
      <3>4. QED
        BY <1>10, <3>2, <3>3
    <2>4. QED
      BY <2>1, <2>2, <2>3 DEF Pairs
  <1>12. Len(list) = n /\ DOMAIN list = 1 .. n
    <2>1. DOMAIN list = 1 .. n
      BY <1>8
    <2>2. list \in Seq(Eligible)
      BY <1>5, <1>11, SeqDef DEF Pairs
    <2>3. QED
      BY <1>5, <2>1, <2>2
  <1>13. Range(list) = Eligible
    BY <1>11, <1>12 DEF Pairs, Range
  <1>14. \A i \in 2 .. n : At(runNo, s, list[i]).ret <= At(runNo, s, list[i - 1]).ret
    <2>1. TAKE i \in 2 .. n
    <2>2. i \in 1 .. n /\ i - 1 \in 1 .. n
      BY <1>5
    <2>3. QED
      BY <1>8, <1>10, <2>2
  <1>15. Cardinality({k \in DOMAIN list : At(runNo, s, list[k]).ret > 0})
             = Cardinality(Winners(runNo, s))
    <2>1. Winners(runNo, s) \in SUBSET Eligible
      BY DEF Winners
    <2>2. {k \in DOMAIN list : At(runNo, s, list[k]).ret > 0}
             = {k \in 1 .. n : list[k] \in Winners(runNo, s)}
      BY <1>10, <1>12 DEF Winners
    <2>3. QED
      <3> DEFINE D == 1 .. n
      <3>1. Pairs(list, D, Eligible) /\ IsFiniteSet(Eligible)
        BY <1>1, <1>11
      <3> HIDE DEF D
      <3>2. Cardinality({k \in D : list[k] \in Winners(runNo, s)}) = Cardinality(Winners(runNo, s))
        BY <2>1, <3>1, PairedParts
      <3>3. QED
        BY <2>2, <3>2 DEF D
  <1>16. DrillDownOf(runNo, s, list)
    BY <1>1, <1>12, <1>13, <1>14, <1>15 DEF DrillDownOf
  <1>17. QED
    BY <1>4, <1>16 DEF q

LEMMA StoredStayExact ==
    ASSUME RankingParams, PoolInv, StoredAreExact, [RankingNext]_rankingVars
    PROVE  StoredAreExact'
  <1>1. CASE SetRanking
    <2>1. /\ phase # "idle" /\ Ended /\ ~cancelled /\ stocks' = stocks
          /\ ranking' = [at |-> runNo, items |-> RankedItems(Gathered)]
      BY <1>1 DEF SetRanking
    <2>2. ranking'.at = runNo /\ ranking'.items = RankedItems(Gathered)
      BY <2>1
    <2>3. RankingOf(runNo, RankedItems(Gathered))
      BY <2>1, RankingIsExact
    <2>4. runNo \in Nat /\ ranking.at \in Nat /\ ranking.at <= runNo
      BY DEF PoolInv, PhasesInOrder
    <2>5. ranking'.at # 0 => RankingOf(ranking'.at, ranking'.items)
      BY <2>2, <2>3
    <2>6. ASSUME NEW s \in StrategySet, stocks[s].at # 0
          PROVE  DrillDownOf(stocks[s].at, s, stocks[s].items) /\ stocks[s].at \in 1 .. ranking'.at
      <3>1. DrillDownOf(stocks[s].at, s, stocks[s].items) /\ stocks[s].at \in 1 .. ranking.at
        BY <2>6 DEF StoredAreExact
      <3>2. QED
        BY <2>2, <2>4, <3>1
    <2>7. DOMAIN stocks = StrategySet
      BY DEF StoredAreExact
    <2>8. QED
      BY <2>1, <2>5, <2>6, <2>7 DEF StoredAreExact
  <1>2. CASE SetStocks
    <2> DEFINE h == Head(toSet)
    <2>1. h \in StrategySet
      BY <1>2 DEF SetStocks, PoolInv, PhasesInOrder
    <2>2. /\ phase # "idle" /\ Ended /\ ~cancelled /\ ranking' = ranking /\ ranking.at = runNo
          /\ stocks' = [stocks EXCEPT ![h] = [at |-> runNo, items |-> DrillDown(h, Gathered)]]
      BY <1>2 DEF SetStocks, PoolInv, PhasesInOrder
    <2> HIDE DEF h
    <2>3. DrillDownOf(runNo, h, DrillDown(h, Gathered))
      BY <2>1, <2>2, DrillDownIsExact
    <2>4. runNo \in 1 .. ranking.at /\ DOMAIN stocks = StrategySet
      BY <2>2 DEF PoolInv, PhasesInOrder, StoredAreExact
    <2>5. ASSUME NEW s \in StrategySet, stocks'[s].at # 0
          PROVE  DrillDownOf(stocks'[s].at, s, stocks'[s].items) /\ stocks'[s].at \in 1 .. ranking.at
      <3>1. CASE s = h
        BY <2>2, <2>3, <2>4, <3>1
      <3>2. CASE s # h
        BY <2>2, <2>4, <2>5, <3>2 DEF StoredAreExact
      <3>3. QED
        BY <3>1, <3>2
    <2>6. DOMAIN stocks' = StrategySet
      BY <2>2, <2>4
    <2>7. QED
      BY <2>2, <2>5, <2>6 DEF StoredAreExact
  <1>3. CASE UNCHANGED <<ranking, stocks>>
    BY <1>3 DEF StoredAreExact
  <1>4. QED
    BY <1>1, <1>2, <1>3 DEF RankingNext, rankingVars, StartRanking, RunWorkers, PoolFailed, SetFails

\* While the goroutines work, one of them can go on: the feeder hands out a
\* brand, or closes the channel, or a worker reads, or finds it closed.
LEMMA NobodyWaitsForever ==
    ASSUME RankingParams, PoolInv, phase = "pool", ~Ended
    PROVE  SomeoneCanMove
  <1>1. /\ given \in 0 .. Len(Jobs) /\ Len(Jobs) \in Nat /\ left \in SUBSET Workers
        /\ ~cancelled /\ feeding => left = {}
    BY BrandsAreDistinct DEF PoolInv, PoolTypes, LeftInTime
  <1>2. 1 \in Workers
    BY DEF RankingParams, Workers
  <1>3. CASE ~feeding
    <2>1. PICK w \in Workers : w \notin left
      BY <1>1, <1>3 DEF Ended
    <2>2. QED
      BY <1>3, <2>1 DEF SomeoneCanMove, Receiving, CanClose, CanHand, Busy, CanLeave
  <1>4. CASE feeding
    <2>1. cancelled \/ given = Len(Jobs) => SomeoneCanMove
      BY <1>4 DEF SomeoneCanMove, StopFeeding, CanClose, CanHand, Busy, CanLeave
    <2>2. ~cancelled /\ given # Len(Jobs) => SomeoneCanMove
      <3>1. SUFFICES ASSUME ~cancelled, given # Len(Jobs) PROVE SomeoneCanMove
        OBVIOUS
      <3>2. given < Len(Jobs) /\ 1 \notin left
        BY <1>1, <1>4, <3>1
      <3>3. Receiving(1) \/ job[1] # 0
        BY <3>2 DEF Receiving
      <3>4. QED
        BY <1>2, <3>2, <3>3 DEF SomeoneCanMove, CanClose, CanHand, Busy, CanLeave
    <2>3. QED
      BY <2>1, <2>2
  <1>5. QED
    BY <1>3, <1>4, Zenon

\* The concurrent batch stores what a sequential one would, whatever the number
\* of workers, the brands and the strategies, and whichever reads and writes
\* fail (runWorkers of strategy_ranking_interactor.go: the sums are exact and do
\* not depend on the order); and its goroutines never all wait.
THEOREM RankingsAreSequential ==
    ASSUME RankingParams
    PROVE  RankingSpec => []RankingIsSound
  <1> DEFINE Inv == PoolInv /\ StoredAreExact
  <1>1. ASSUME RankingInit PROVE Inv
    <2>1. StoredAreExact
      BY <1>1 DEF RankingInit, StoredAreExact
    <2>2. QED
      BY <1>1, <2>1, PoolStarts
  <1>2. ASSUME Inv, [RankingNext]_rankingVars PROVE Inv'
    BY <1>2, PoolSteps, StoredStayExact
  <1>3. ASSUME Inv PROVE RankingIsSound
    <2>1. RankingIsSequential
      BY <1>3 DEF StoredAreExact, RankingIsSequential, RankingOf, Returns, Traders
    <2>2. DrillDownAgrees
      <3>1. ranking.at \in Nat
        BY <1>3 DEF PoolInv, PhasesInOrder
      <3>2. SUFFICES ASSUME NEW s \in StrategySet, stocks[s].at # 0
                     PROVE  LET list == stocks[s].items
                                n == stocks[s].at
                            IN  /\ Len(list) = Cardinality(Eligible) /\ Range(list) = Eligible
                                /\ \A i \in 2 .. Len(list) :
                                     At(n, s, list[i]).ret <= At(n, s, list[i - 1]).ret
                                /\ n <= ranking.at
                                /\ n = ranking.at =>
                                     \A i \in DOMAIN ranking.items :
                                       ranking.items[i].strategy = s =>
                                         ranking.items[i].positiveCount =
                                           Cardinality({k \in DOMAIN list : At(n, s, list[k]).ret > 0})
        BY DEF DrillDownAgrees
      <3>3. /\ DrillDownOf(stocks[s].at, s, stocks[s].items)
            /\ stocks[s].at \in 1 .. ranking.at
            /\ ranking.at # 0 => RankingOf(ranking.at, ranking.items)
        BY <1>3, <3>2 DEF StoredAreExact
      <3>4. \A i \in DOMAIN ranking.items :
                ranking.items[i].positiveCount =
                  Cardinality(Winners(ranking.at, ranking.items[i].strategy))
        BY <3>1, <3>3 DEF RankingOf
      <3>5. /\ Len(stocks[s].items) = Cardinality(Eligible) /\ Range(stocks[s].items) = Eligible
            /\ \A i \in 2 .. Len(stocks[s].items) :
                 At(stocks[s].at, s, stocks[s].items[i]).ret
                   <= At(stocks[s].at, s, stocks[s].items[i - 1]).ret
        BY <3>3 DEF DrillDownOf
      <3>6. Cardinality({k \in DOMAIN stocks[s].items : At(stocks[s].at, s, stocks[s].items[k]).ret > 0})
              = Cardinality(Winners(stocks[s].at, s))
        BY <3>3 DEF DrillDownOf
      <3>7. stocks[s].at <= ranking.at
        BY <3>1, <3>3
      <3>8. ASSUME stocks[s].at = ranking.at, NEW i \in DOMAIN ranking.items,
                   ranking.items[i].strategy = s
            PROVE  ranking.items[i].positiveCount = Cardinality(Winners(stocks[s].at, s))
        BY <3>4, <3>8
      <3>9. QED
        BY <3>5, <3>6, <3>7, <3>8
    <2>3. PoolNeverStuck
      BY <1>3, NobodyWaitsForever DEF PoolNeverStuck
    <2>4. QED
      BY <2>1, <2>2, <2>3 DEF RankingIsSound
  <1> HIDE DEF Inv
  <1>4. QED
    BY <1>1, <1>2, <1>3, PTL DEF RankingSpec
-----------------------------------------------------------------------------
(* The calendar of announcements                                           *)

\* What a sync has brought is never deleted: the day a brand was scheduled for
\* at the last one is among its days.
CalendarInv ==
    /\ now \in Nat /\ now >= Midnight(1)
    /\ scheduled \in [Announcers -> Nat]
    /\ synced \in [Announcers -> Nat]
    /\ dated \subseteq Announcers \X Nat
    /\ \A s \in Announcers : synced[s] # 0 => <<s, synced[s]>> \in dated

LEMMA CalendarAlways == CalendarSpec => []CalendarInv
  <1>1. CalendarInit => CalendarInv
    BY DEF CalendarInit, CalendarInv, Midnight
  <1>2. ASSUME CalendarInv, [CalendarNext]_calendarVars
        PROVE  CalendarInv'
    <2>1. ASSUME NEW status \in {"ok", "unauthorized", "failed"}, SyncFinAnnouncements(status)
          PROVE  CalendarInv'
      <3> DEFINE shown == {s \in Announcers : scheduled[s] # 0}
                 entries == {r \in {<<s, scheduled[s]>> : s \in shown} :
                             Fetched(status, <<1>>).rows # <<>>}
      <3>1. /\ dated' = dated \cup entries
            /\ synced' = IF entries = {} THEN synced ELSE scheduled
            /\ now' = now /\ scheduled' = scheduled
        BY <2>1 DEF SyncFinAnnouncements
      <3>2. dated' \subseteq Announcers \X Nat
        BY <1>2, <3>1 DEF CalendarInv
      <3>3. entries # {} => \A s \in Announcers : scheduled[s] # 0 => <<s, scheduled[s]>> \in entries
        OBVIOUS
      <3> HIDE DEF entries
      <3>4. QED
        BY <1>2, <3>1, <3>2, <3>3 DEF CalendarInv
    <2>2. ASSUME NEW s \in Announcers, Reschedule(s)
          PROVE  CalendarInv'
      <3>1. now \div 24 \in Nat
        BY <1>2 DEF CalendarInv
      <3> DEFINE days == (CalendarDay + 1 .. MaxCalendarDay) \cup {0}
      <3>2. PICK day \in Nat : scheduled' = [scheduled EXCEPT ![s] = day]
        <4>1. days \subseteq Nat
          BY <3>1, CalendarAssumption DEF CalendarDay
        <4>2. \E day \in days : scheduled' = [scheduled EXCEPT ![s] = day]
          BY <2>2 DEF Reschedule
        <4> HIDE DEF days
        <4>3. QED
          BY <4>1, <4>2
      <3>3. now' = now /\ dated' = dated /\ synced' = synced
        BY <2>2 DEF Reschedule
      <3>4. QED
        BY <1>2, <3>2, <3>3 DEF CalendarInv
    <2>3. CASE HoursPass
      <3>1. now' \in Nat /\ now' > now /\ now \in Nat
        BY <1>2, <2>3, CalendarAssumption DEF HoursPass, CalendarInv, CalendarDay, Midnight
      <3>2. scheduled' = scheduled /\ dated' = dated /\ synced' = synced
        BY <2>3 DEF HoursPass
      <3>3. QED
        BY <1>2, <3>1, <3>2 DEF CalendarInv, Midnight
    <2>4. CASE UNCHANGED calendarVars
      BY <1>2, <2>4 DEF CalendarInv, calendarVars
    <2>5. QED
      BY <1>2, <2>1, <2>2, <2>3, <2>4 DEF CalendarNext
  <1>3. QED
    BY <1>1, <1>2, PTL DEF CalendarSpec

\* The truncated time lies between the midnight of the day before, which it
\* reaches until nine o'clock, and now.
LEMMA TruncatedTime ==
    ASSUME NEW t \in Nat
    PROVE  LET cut == t - ((t - 9) % 24)
               day == t \div 24
           IN  /\ cut \in Int /\ day \in Nat
               /\ cut <= t /\ t < 24 * day + 24 /\ 24 * day <= t
               /\ cut > 24 * day - 24
               /\ t < 24 * day + 9 => cut <= 24 * day
  OBVIOUS

\* The next announcement of a brand is an upcoming one, and none later than the
\* day scheduled at the last sync (FindNextBySymbol).
LEMMA NextAnnounced == CalendarInv => NextIsUpcoming
  <1> SUFFICES ASSUME CalendarInv, NEW s \in Announcers
               PROVE  /\ \A d \in FindNext(s) : d >= CalendarDay
                      /\ synced[s] > CalendarDay => \E d \in FindNext(s) : d <= synced[s]
                      /\ synced[s] = CalendarDay /\ now < Midnight(CalendarDay) + UtcOffset =>
                             FindNext(s) = {CalendarDay}
    BY DEF NextIsUpcoming
  <1> DEFINE cut == TruncatedNow
             day == CalendarDay
             next == {d \in DaysOf(s) : Midnight(d) >= cut}
  <1>1. /\ cut \in Int /\ day \in Nat /\ now \in Nat
        /\ cut <= now /\ now < 24 * day + 24 /\ 24 * day <= now
        /\ cut > 24 * day - 24
        /\ now < 24 * day + 9 => cut <= 24 * day
    BY TruncatedTime DEF CalendarInv, TruncatedNow, CalendarDay, UtcOffset
  <1>2. DaysOf(s) \subseteq Nat
    BY DEF DaysOf, CalendarInv
  <1>3. \A d \in next : d \in Nat /\ 24 * d >= cut
    BY <1>2 DEF Midnight
  <1>4. FindNext(s) = IF next = {} THEN {} ELSE {Min(next)}
    BY DEF FindNext
  <1>5. synced[s] # 0 => synced[s] \in DaysOf(s)
    <2>1. SUFFICES ASSUME synced[s] # 0 PROVE synced[s] \in DaysOf(s)
      OBVIOUS
    <2> DEFINE r == <<s, synced[s]>>
    <2>2. r \in {x \in dated : x[1] = s} /\ r[2] = synced[s]
      BY <2>1 DEF CalendarInv
    <2> HIDE DEF r
    <2>3. QED
      BY <2>2 DEF DaysOf
  <1>6. synced[s] \in Nat
    BY DEF CalendarInv
  <1>7. synced[s] # 0 /\ 24 * synced[s] >= cut => synced[s] \in next
    BY <1>5 DEF Midnight
  <1> HIDE DEF next, cut, day
  <1>8. next # {} => Min(next) \in next /\ \A d \in next : Min(next) <= d
    BY <1>3, LeastNumber
  <1>9. \A d \in next : d >= day
    BY <1>1, <1>3
  <1>10. \A d \in FindNext(s) : d >= day
    BY <1>4, <1>8, <1>9
  <1>11. synced[s] > day => \E d \in FindNext(s) : d <= synced[s]
    <2>1. synced[s] > day => synced[s] \in next
      BY <1>1, <1>6, <1>7
    <2>2. QED
      BY <1>4, <1>8, <2>1
  <1>12. synced[s] = day /\ now < 24 * day + 9 /\ day # 0 => FindNext(s) = {day}
    <2>1. SUFFICES ASSUME synced[s] = day, now < 24 * day + 9, day # 0
                   PROVE  FindNext(s) = {day}
      OBVIOUS
    <2>2. day \in next
      BY <1>1, <1>7, <2>1
    <2>3. Min(next) = day
      <3>1. Min(next) \in next /\ Min(next) <= day
        BY <1>8, <2>2
      <3>2. Min(next) \in Nat /\ Min(next) >= day
        BY <1>3, <1>9, <3>1
      <3>3. QED
        BY <1>1, <3>1, <3>2
    <2>4. QED
      BY <1>4, <2>2, <2>3
  <1>13. day # 0
    BY <1>1 DEF CalendarInv, Midnight
  <1>14. QED
    BY <1>10, <1>11, <1>12, <1>13 DEF day, Midnight, UtcOffset

\* Adjacent ranges of days have each announcement once (GetFinAnnouncements).
LEMMA RangesHold == CalendarInv => RangesPartition
  <1> SUFFICES ASSUME CalendarInv, NEW a \in 1 .. MaxCalendarDay, NEW b \in 1 .. MaxCalendarDay,
                      NEW c \in 1 .. MaxCalendarDay, a < b, b < c
               PROVE  /\ Between(a, b) \cap Between(b, c) = {}
                      /\ Between(a, b) \cup Between(b, c) = Between(a, c)
                      /\ {r \in dated : a < r[2] /\ r[2] <= c} \subseteq Between(a, c)
    BY DEF RangesPartition
  <1>1. a \in Nat /\ b \in Nat /\ c \in Nat
    BY CalendarAssumption
  <1>2. \A r \in dated : r[2] \in Nat
    BY DEF CalendarInv
  <1>3. \A x, y \in Nat, r \in dated : r \in Between(x, y) <=> x < r[2] /\ r[2] <= y
    BY <1>2 DEF Between, Midnight, UtcOffset
  <1>4. \A x, y : Between(x, y) \subseteq dated
    BY DEF Between
  <1>5. QED
    BY <1>1, <1>2, <1>3, <1>4

-----------------------------------------------------------------------------
(* The indices                                                             *)

IndexBar == [at : 0 .. LastTime, close : IndexCloses]
IndexRow == [day : Nat, at : Nat, close : IndexCloses]

OneATime(table) == \A r, q \in table : r.day = q.day /\ r.at = q.at => r = q

\* Of one index with chart c, table t and bars f last fetched: the table has one row
\* for a day and a time, those of the Nikkei at the opening, and no row of a time
\* that the day in progress has not reached; the bars fetched last are stored, and
\* none of the day in progress is later than that day's.
IndexIsSound(i, c, t, f) ==
    /\ c \in Seq(IndexBar) /\ Len(c) >= 1
    /\ t \in SUBSET IndexRow /\ f \in SUBSET IndexRow
    /\ OneATime(t) /\ (i = "nikkei" => \A r \in t : r.at = 0)
    /\ \A r \in t : r.close # 0 /\ r.day <= Len(c)
                    /\ (r.day = Len(c) => r.at <= c[Len(c)].at)
    /\ \A b \in f : /\ Row(i, b) \in t
                    /\ b.day = Len(c) => \A r \in t : r.day = b.day => r.at <= b.at

IndexInv ==
    /\ charts = [i \in Indices |-> charts[i]]
    /\ \A i \in Indices : IndexIsSound(i, charts[i], tables[i], fetched[i])

\* The priced bars of a chart are one for each of its days.
LEMMA PricedBars ==
    ASSUME NEW i \in Indices, IndexInv
    PROVE  /\ Priced(i) \subseteq IndexRow
           /\ \A b \in Priced(i) : /\ b.close # 0 /\ b.day \in 1 .. Len(charts[i])
                                   /\ b.at = charts[i][b.day].at
           /\ \A b, x \in Priced(i) : b.day = x.day => b = x
  <1> DEFINE c == charts[i]
             bar(d) == [day |-> d, at |-> c[d].at, close |-> c[d].close]
  <1>1. c \in Seq(IndexBar)
    BY DEF IndexInv, IndexIsSound
  <1>2. Bars(i) = {bar(d) : d \in DOMAIN c}
    BY DEF Bars
  <1> HIDE DEF c
  <1>3. DOMAIN c = 1 .. Len(c) /\ Len(c) \in Nat
    BY <1>1
  <1>4. \A d \in 1 .. Len(c) : bar(d) \in IndexRow /\ bar(d).day = d /\ bar(d).at = c[d].at
    <2>1. TAKE d \in 1 .. Len(c)
    <2>2. c[d] \in IndexBar
      BY <1>1, <1>3, <2>1
    <2>3. QED
      BY <1>3, <2>2, IndexAssumption DEF IndexRow, IndexBar
  <1> HIDE DEF bar
  <1>5. QED
    BY <1>2, <1>3, <1>4 DEF Priced, c

\* Storing what a chart shows.
LEMMA StoredIndex ==
    ASSUME NEW i \in Indices, IndexInv
    PROVE  IndexIsSound(i, charts[i],
               UpsertedRows(tables[i], {Row(i, b) : b \in Priced(i)}), Priced(i))
  <1> DEFINE c == charts[i]
             t == tables[i]
             entries == {Row(i, b) : b \in Priced(i)}
             after == UpsertedRows(t, entries)
  <1>1. IndexIsSound(i, c, t, fetched[i])
    BY DEF IndexInv
  <1>2. /\ Priced(i) \subseteq IndexRow
        /\ \A b \in Priced(i) : b.close # 0 /\ b.day \in 1 .. Len(c) /\ b.at = c[b.day].at
        /\ \A b, x \in Priced(i) : b.day = x.day => b = x
    BY PricedBars
  <1>3. c \in Seq(IndexBar) /\ Len(c) \in Nat /\ Len(c) >= 1
    BY <1>1 DEF IndexIsSound
  <1> HIDE DEF c, t
  <1>4. \A b \in Priced(i) :
            /\ Row(i, b) \in IndexRow /\ Row(i, b).day = b.day /\ Row(i, b).close = b.close
            /\ Row(i, b).at <= b.at
            /\ i = "nikkei" => Row(i, b).at = 0
            /\ i # "nikkei" => Row(i, b).at = b.at
    BY <1>2 DEF Row, IndexRow
  <1>5. after = {r \in t : ~\E n \in entries : n.day = r.day /\ n.at = r.at} \cup entries
    BY DEF UpsertedRows
  <1>6. \A r \in entries : \E b \in Priced(i) :
            /\ r = Row(i, b) /\ r \in IndexRow /\ r.day = b.day /\ r.close # 0
            /\ r.day \in 1 .. Len(c) /\ r.at <= c[r.day].at
            /\ i = "nikkei" => r.at = 0
    BY <1>2, <1>4
  <1>7. \A r, q \in entries : r.day = q.day => r = q
    BY <1>2, <1>6
  <1>8. \A b \in Priced(i) : Row(i, b) \in entries
    OBVIOUS
  <1> HIDE DEF entries, after
  <1>9. after \subseteq IndexRow /\ OneATime(after)
    BY <1>1, <1>5, <1>6, <1>7 DEF IndexIsSound, OneATime
  <1>10. i = "nikkei" => \A r \in after : r.at = 0
    BY <1>1, <1>5, <1>6 DEF IndexIsSound
  <1>11. \A r \in after : /\ r.close # 0 /\ r.day <= Len(c)
                          /\ r.day = Len(c) => r.at <= c[Len(c)].at
    BY <1>1, <1>3, <1>5, <1>6 DEF IndexIsSound
  <1>12. \A b \in Priced(i) :
             /\ Row(i, b) \in after
             /\ b.day = Len(c) => \A r \in after : r.day = b.day => r.at <= b.at
    BY <1>2, <1>5, <1>8, <1>11
  <1>13. QED
    BY <1>2, <1>3, <1>9, <1>10, <1>11, <1>12 DEF IndexIsSound, c, t, after, entries

\* A chart that moves on: its last day shows something else, not earlier, or has
\* ended and another one begins.
LEMMA MovedChart ==
    ASSUME NEW i \in Indices, NEW c \in Seq(IndexBar), NEW t, NEW f, NEW s \in IndexBar,
           IndexIsSound(i, c, t, f)
    PROVE  /\ s.at >= c[Len(c)].at => IndexIsSound(i, ReplaceAt(c, Len(c), s), t, f)
           /\ Shown(0, 0) \in IndexBar
           /\ IndexIsSound(i, Append(ReplaceAt(c, Len(c), s), Shown(0, 0)), t, f)
  <1> DEFINE n == Len(c)
             e == ReplaceAt(c, n, s)
             g == Append(e, Shown(0, 0))
  <1>1. n \in Nat /\ n >= 1 /\ c \in [1 .. n -> IndexBar]
    BY DEF IndexIsSound
  <1>2. Shown(0, 0) \in IndexBar
    BY IndexAssumption DEF Shown, IndexBar
  <1>3. e = [k \in 1 .. n |-> IF k = n THEN s ELSE c[k]]
    BY <1>1 DEF ReplaceAt
  <1> HIDE DEF n
  <1>4. e \in Seq(IndexBar) /\ Len(e) = n /\ e[n] = s
    <2>1. e \in [1 .. n -> IndexBar]
      BY <1>1, <1>3
    <2>2. e[n] = s
      BY <1>1, <1>3
    <2> HIDE DEF e
    <2>3. QED
      BY <1>1, <2>1, <2>2
  <1> HIDE DEF e
  <1>5. g \in Seq(IndexBar) /\ Len(g) = n + 1
    BY <1>2, <1>4
  <1> HIDE DEF g
  <1>6. /\ t \in SUBSET IndexRow /\ f \in SUBSET IndexRow
        /\ OneATime(t) /\ (i = "nikkei" => \A r \in t : r.at = 0)
        /\ \A r \in t : r.close # 0 /\ r.day <= n /\ (r.day = n => r.at <= c[n].at)
        /\ \A b \in f : Row(i, b) \in t
        /\ \A b \in f : b.day = n => \A r \in t : r.day = b.day => r.at <= b.at
    BY DEF IndexIsSound, n
  <1>7. \A r \in t : r.day \in Nat /\ r.at \in Nat
    BY <1>6 DEF IndexRow
  <1>8. \A b \in f : b.day \in Nat /\ b.day <= n
    <2>1. TAKE b \in f
    <2>2. Row(i, b).day = b.day /\ b \in IndexRow
      BY <1>6 DEF Row, IndexRow
    <2>3. QED
      BY <1>6, <2>2 DEF IndexRow
  <1>9. ASSUME s.at >= c[n].at PROVE IndexIsSound(i, e, t, f)
    <2>1. c[n].at \in Nat /\ s.at \in Nat
      BY <1>1, IndexAssumption DEF IndexBar
    <2>2. \A r \in t : r.close # 0 /\ r.day <= n /\ (r.day = n => r.at <= s.at)
      BY <1>6, <1>7, <1>9, <2>1
    <2>3. QED
      BY <1>1, <1>4, <1>6, <2>2 DEF IndexIsSound
  <1>10. IndexIsSound(i, g, t, f)
    <2>1. \A r \in t : r.close # 0 /\ r.day <= n + 1 /\ r.day # n + 1
      BY <1>1, <1>6, <1>7
    <2>2. \A b \in f : b.day # n + 1
      BY <1>1, <1>8
    <2>3. QED
      BY <1>1, <1>5, <1>6, <2>1, <2>2 DEF IndexIsSound
  <1>11. QED
    BY <1>2, <1>9, <1>10 DEF n, e, g

LEMMA IndexAlways == IndexSpec => []IndexInv
  <1>1. IndexInit => IndexInv
    <2>1. SUFFICES ASSUME IndexInit, NEW i \in Indices
                   PROVE  IndexIsSound(i, <<Shown(0, 0)>>, {}, {})
      BY DEF IndexInit, IndexInv
    <2>2. Shown(0, 0) \in IndexBar
      BY IndexAssumption DEF Shown, IndexBar
    <2>3. <<Shown(0, 0)>> \in Seq(IndexBar) /\ Len(<<Shown(0, 0)>>) = 1
      BY <2>2
    <2>4. QED
      BY <2>3 DEF IndexIsSound, OneATime
  <1>2. ASSUME IndexInv, [IndexNext]_indexVars
        PROVE  IndexInv'
    <2>1. CASE CreateIndexData
      <3>1. \A i \in Indices :
                /\ tables'[i] = UpsertedRows(tables[i], {Row(i, b) : b \in Priced(i)})
                /\ fetched'[i] = Priced(i) /\ charts'[i] = charts[i]
        BY <2>1 DEF CreateIndexData
      <3>2. \A i \in Indices : IndexIsSound(i, charts'[i], tables'[i], fetched'[i])
        BY <1>2, <3>1, StoredIndex
      <3>3. charts' = charts
        BY <2>1 DEF CreateIndexData
      <3>4. QED
        BY <1>2, <3>2, <3>3 DEF IndexInv
    <2>2. ASSUME NEW i \in Indices, Trades(i) \/ NextSession(i)
          PROVE  IndexInv'
      <3> DEFINE c == charts[i]
                 n == Len(c)
      <3>1. /\ IndexIsSound(i, c, tables[i], fetched[i])
            /\ c \in Seq(IndexBar) /\ n \in Nat /\ n >= 1 /\ c[n] \in IndexBar
        BY <1>2 DEF IndexInv, IndexIsSound
      <3>2. charts = [j \in Indices |-> charts[j]] /\ UNCHANGED <<tables, fetched>>
        BY <1>2, <2>2 DEF IndexInv, Trades, NextSession
      <3> HIDE DEF c, n
      <3>3. \E e : charts' = [charts EXCEPT ![i] = e] /\ IndexIsSound(i, e, tables[i], fetched[i])
        <4>1. CASE Trades(i)
          <5>1. PICK close \in IndexCloses, at \in c[n].at .. LastTime :
                    charts' = [charts EXCEPT ![i] = ReplaceAt(c, n, Shown(at, close))]
            BY <4>1 DEF Trades, c, n
          <5>2. Shown(at, close) \in IndexBar /\ Shown(at, close).at >= c[n].at
            BY <3>1, <5>1, IndexAssumption DEF Shown, IndexBar
          <5>3. IndexIsSound(i, ReplaceAt(c, n, Shown(at, close)), tables[i], fetched[i])
            BY <3>1, <5>2, MovedChart DEF n
          <5>4. QED
            BY <5>1, <5>3
        <4>2. CASE NextSession(i)
          <5>1. PICK close \in IndexCloses :
                    charts' = [charts EXCEPT ![i] =
                                  Append(ReplaceAt(c, n, Shown(0, close)), Shown(0, 0))]
            BY <4>2 DEF NextSession, c, n
          <5>2. Shown(0, close) \in IndexBar
            BY IndexAssumption DEF Shown, IndexBar
          <5>3. IndexIsSound(i, Append(ReplaceAt(c, n, Shown(0, close)), Shown(0, 0)),
                             tables[i], fetched[i])
            BY <3>1, <5>2, MovedChart DEF n
          <5>4. QED
            BY <5>1, <5>3
        <4>3. QED
          BY <2>2, <4>1, <4>2
      <3>4. QED
        BY <1>2, <3>2, <3>3 DEF IndexInv
    <2>3. CASE UNCHANGED indexVars
      BY <1>2, <2>3 DEF IndexInv, indexVars
    <2>4. QED
      BY <1>2, <2>1, <2>2, <2>3 DEF IndexNext
  <1>3. QED
    BY <1>1, <1>2, PTL DEF IndexSpec

\* What was fetched last of an index is stored, and read where it is the latest
\* row of its day (CreateNikkeiAndDjiHistoricalData).
LEMMA IndicesHold == IndexInv => IndicesAreCurrent
  <1> SUFFICES ASSUME IndexInv, NEW i \in Indices
               PROVE  /\ \A b \in fetched[i] :
                             /\ Row(i, b) \in tables[i]
                             /\ i = "nikkei" \/ b.day = Len(charts[i])
                                    => Benchmark(i, b.day) = {b.close}
                      /\ \A r \in tables[i] : r.close # 0
    BY DEF IndicesAreCurrent
  <1>1. IndexIsSound(i, charts[i], tables[i], fetched[i])
    BY DEF IndexInv
  <1>2. ASSUME NEW b \in fetched[i], i = "nikkei" \/ b.day = Len(charts[i])
        PROVE  Benchmark(i, b.day) = {b.close}
    <2> DEFINE row == Row(i, b)
               of == {r \in tables[i] : r.day = b.day}
               last == {x \in of : \A q \in of : q.at <= x.at}
    <2>1. b \in IndexRow /\ row \in tables[i] /\ row.day = b.day /\ row.close = b.close
      BY <1>1 DEF IndexIsSound, IndexRow, Row
    <2>2. tables[i] \subseteq IndexRow
      BY <1>1 DEF IndexIsSound
    <2>3. \A q \in of : q.at <= row.at
      <3>1. CASE i = "nikkei"
        <4>1. \A q \in tables[i] : q.at = 0
          BY <1>1, <3>1 DEF IndexIsSound
        <4>2. QED
          BY <2>1, <4>1
      <3>2. CASE i # "nikkei"
        <4>1. row = b /\ \A q \in of : q.at <= b.at
          BY <1>1, <1>2, <3>2 DEF IndexIsSound, Row
        <4>2. QED
          BY <4>1
      <3>3. QED
        BY <3>1, <3>2
    <2>4. \A q \in of : q.at \in Nat /\ row.at \in Nat
      BY <2>1, <2>2 DEF IndexRow
    <2>5. \A x \in of : x.at = row.at => x = row
      BY <1>1, <2>1 DEF IndexIsSound, OneATime
    <2>6. row \in of
      BY <2>1
    <2>7. Benchmark(i, b.day) = {r.close : r \in last}
      BY DEF Benchmark
    <2> HIDE DEF row, of
    <2>8. last = {row}
      BY <2>3, <2>4, <2>5, <2>6
    <2>9. QED
      BY <2>1, <2>7, <2>8
  <1>3. QED
    BY <1>1, <1>2 DEF IndexIsSound

-----------------------------------------------------------------------------
(* The client of J-Quants                                                  *)

\* The k-th of a finite set of numbers, in rising order.
NumberAt(S, k) == CHOOSE i \in S : Cardinality({j \in S : j < i}) = k - 1

LEMMA NumbersInOrder ==
    ASSUME NEW S, S \subseteq Int, IsFiniteSet(S)
    PROVE  /\ Cardinality(S) \in Nat
           /\ \A k \in 1 .. Cardinality(S) : NumberAt(S, k) \in S
           /\ \A i \in S : \E k \in 1 .. Cardinality(S) : NumberAt(S, k) = i
  <1> DEFINE Less(i) == Cardinality({j \in S : j < i})
             R == {p \in S \X S : p[1] < p[2]}
             nth == InOrderOf(R, S)
             n == Cardinality(S)
  <1>1. IsOrder(R, S)
    <2>1. \A x, y \in S : <<x, y>> \in R <=> x < y
      OBVIOUS
    <2> HIDE DEF R
    <2>2. QED
      BY <2>1 DEF IsOrder
  <1>2. \A i \in S : RankIn(R, S, i) = Less(i)
    <2>1. TAKE i \in S
    <2>2. {j \in S : <<j, i>> \in R} = {j \in S : j < i}
      OBVIOUS
    <2> HIDE DEF R
    <2>3. QED
      BY <2>2 DEF RankIn
  <1> HIDE DEF R, Less
  <1>3. /\ n \in Nat /\ nth \in [1 .. n -> S]
        /\ \A k \in 1 .. n : RankIn(R, S, nth[k]) = k - 1
        /\ \A x \in S : RankIn(R, S, x) + 1 \in 1 .. n /\ nth[RankIn(R, S, x) + 1] = x
    BY <1>1, MembersInOrder
  <1> HIDE DEF nth, n
  <1>4. /\ \A k \in 1 .. n : nth[k] \in S /\ Less(nth[k]) = k - 1
        /\ \A i \in S : Less(i) + 1 \in 1 .. n /\ nth[Less(i) + 1] = i
    BY <1>2, <1>3
  <1>5. ASSUME NEW k \in 1 .. n PROVE NumberAt(S, k) = nth[k]
    <2> DEFINE x == CHOOSE i \in S : Less(i) = k - 1
    <2>1. x \in S /\ Less(x) = k - 1
      BY <1>4
    <2>2. NumberAt(S, k) = x
      BY DEF NumberAt, Less
    <2> HIDE DEF x
    <2>3. nth[Less(x) + 1] = x /\ (k - 1) + 1 = k
      BY <1>3, <1>4, <2>1
    <2>4. QED
      BY <2>1, <2>2, <2>3
  <1>6. QED
    BY <1>3, <1>4, <1>5 DEF n

\* The price of a row as the client passes it on.
PriceOfQuote(q) == [symbol |-> TrimSuffixZero(q.code), close |-> q.close]
QuotePrices == {PriceOfQuote(q) : q \in Quotes}

\* prices are the rows whose date can be read: as many, and each of them.
AreDatedRows(prices, sheet) ==
    /\ prices \in Seq(QuotePrices)
    /\ Len(prices) = Cardinality(DatedIn(sheet)) /\ Len(prices) \in Nat
    /\ \A i \in DatedIn(sheet) : \E k \in 1 .. Len(prices) : prices[k] = PriceOfQuote(sheet[i])

LEMMA PageIsWhole ==
    ASSUME NEW sheet \in Seq(Quotes)
    PROVE  IsFiniteSet(DatedIn(sheet)) /\ AreDatedRows(Converted(sheet), sheet)
  <1> DEFINE S == DatedIn(sheet)
             n == Cardinality(S)
             C == Converted(sheet)
  <1>1. sheet \in [1 .. Len(sheet) -> Quotes] /\ Len(sheet) \in Nat
    OBVIOUS
  <1>2. S \in SUBSET (1 .. Len(sheet)) /\ \A i \in S : sheet[i] \in Quotes
    BY <1>1 DEF DatedIn
  <1>3. IsFiniteSet(S) /\ S \subseteq Int
    <2>1. IsFiniteSet(1 .. Len(sheet)) /\ 1 .. Len(sheet) \subseteq Int
      BY <1>1, FS_Interval
    <2> HIDE DEF S
    <2>2. QED
      BY <1>2, <2>1, FS_Subset
  <1>4. C = [k \in 1 .. n |-> PriceOfQuote(sheet[NumberAt(S, k)])]
    BY DEF Converted, PriceOfQuote, NumberAt
  <1> HIDE DEF S, C
  <1>5. /\ n \in Nat
        /\ \A k \in 1 .. n : NumberAt(S, k) \in S
        /\ \A i \in S : \E k \in 1 .. n : NumberAt(S, k) = i
    BY <1>3, NumbersInOrder
  <1> HIDE DEF n
  <1>6. C \in [1 .. n -> QuotePrices]
    BY <1>2, <1>4, <1>5 DEF QuotePrices
  <1>7. C \in Seq(QuotePrices) /\ Len(C) = n
    BY <1>5, <1>6
  <1>8. \A i \in S : \E k \in 1 .. n : C[k] = PriceOfQuote(sheet[i])
    BY <1>4, <1>5
  <1>9. AreDatedRows(C, sheet)
    BY <1>5, <1>7, <1>8 DEF AreDatedRows, S, n
  <1>10. QED
    BY <1>3, <1>9 DEF S, C

\* The prices are those of the pages, as many and each of them.
DatedOf(pages) == UNION {{<<p, i>> : i \in DatedIn(pages[p])} : p \in DOMAIN pages}

AreWhole(prices, pages) ==
    /\ Len(prices) = Cardinality(DatedOf(pages))
    /\ \A r \in DatedOf(pages) :
         \E k \in 1 .. Len(prices) : prices[k] = PriceOfQuote(pages[r[1]][r[2]])

LEMMA OneSheetMore ==
    ASSUME NEW pages \in Seq(Seq(Quotes)), NEW sheet \in Seq(Quotes),
           NEW prices \in Seq(QuotePrices), IsFiniteSet(DatedOf(pages)), AreWhole(prices, pages)
    PROVE  /\ IsFiniteSet(DatedOf(Append(pages, sheet)))
           /\ AreWhole(prices \o Converted(sheet), Append(pages, sheet))
           /\ prices \o Converted(sheet) \in Seq(QuotePrices)
  <1> DEFINE n == Len(pages)
             more == Append(pages, sheet)
             New == {<<n + 1, i>> : i \in DatedIn(sheet)}
             C == Converted(sheet)
             all == prices \o C
  <1>1. /\ n \in Nat /\ DOMAIN more = 1 .. n + 1 /\ DOMAIN pages = 1 .. n
        /\ more[n + 1] = sheet /\ \A p \in 1 .. n : more[p] = pages[p]
    OBVIOUS
  <1>2. IsFiniteSet(DatedIn(sheet)) /\ AreDatedRows(C, sheet)
    BY PageIsWhole
  <1> HIDE DEF C, more
  <1>3. DatedOf(more) = DatedOf(pages) \cup New
    <2>1. DatedOf(more) = UNION {{<<p, i>> : i \in DatedIn(more[p])} : p \in 1 .. n + 1}
      BY <1>1 DEF DatedOf
    <2>2. DatedOf(pages) = UNION {{<<p, i>> : i \in DatedIn(pages[p])} : p \in 1 .. n}
      BY <1>1 DEF DatedOf
    <2>3. 1 .. n + 1 = (1 .. n) \cup {n + 1}
      BY <1>1
    <2> HIDE DEF n
    <2>4. QED
      BY <1>1, <2>1, <2>2, <2>3, SMTT(30)
  <1>4. DatedOf(pages) \cap New = {}
    BY <1>1 DEF DatedOf
  <1>5. IsFiniteSet(New) /\ Cardinality(New) = Cardinality(DatedIn(sheet))
    <2> DEFINE f == [i \in DatedIn(sheet) |-> <<n + 1, i>>]
    <2>1. Pairs(f, DatedIn(sheet), New)
      BY DEF Pairs
    <2> HIDE DEF f, New
    <2>2. QED
      BY <1>2, <2>1, PairedSizes
  <1> HIDE DEF New, n
  <1>6. /\ IsFiniteSet(DatedOf(more))
        /\ Cardinality(DatedOf(more)) = Cardinality(DatedOf(pages)) + Cardinality(DatedIn(sheet))
    BY <1>3, <1>4, <1>5, DisjointSizes, FS_Union
  <1>7. /\ C \in Seq(QuotePrices) /\ prices \in Seq(QuotePrices)
        /\ Len(C) = Cardinality(DatedIn(sheet))
        /\ Len(prices) = Cardinality(DatedOf(pages))
    BY <1>2 DEF AreDatedRows, AreWhole
  <1>8. /\ all \in Seq(QuotePrices) /\ Len(all) = Len(prices) + Len(C)
        /\ \A k \in 1 .. Len(prices) : k \in 1 .. Len(all) /\ all[k] = prices[k]
        /\ \A k \in 1 .. Len(C) : Len(prices) + k \in 1 .. Len(all) /\ all[Len(prices) + k] = C[k]
    <2>1. /\ all \in Seq(QuotePrices) /\ Len(all) = Len(prices) + Len(C)
          /\ \A k \in 1 .. Len(all) :
                all[k] = IF k <= Len(prices) THEN prices[k] ELSE C[k - Len(prices)]
      BY <1>7, ConcatProperties
    <2>2. Len(prices) \in Nat /\ Len(C) \in Nat
      BY <1>7
    <2> HIDE DEF all
    <2>3. ASSUME NEW k \in 1 .. Len(C)
          PROVE  Len(prices) + k \in 1 .. Len(all) /\ all[Len(prices) + k] = C[k]
      <3> DEFINE m == Len(prices) + k
      <3>1. m \in 1 .. Len(all) /\ ~(m <= Len(prices)) /\ m - Len(prices) = k
        BY <2>1, <2>2
      <3> HIDE DEF m
      <3>2. all[m] = C[k]
        BY <2>1, <3>1
      <3>3. QED
        BY <3>1, <3>2 DEF m
    <2>4. QED
      BY <2>1, <2>2, <2>3
  <1> HIDE DEF all
  <1>9. \A r \in DatedOf(pages) : r[1] \in 1 .. n
    BY <1>1 DEF DatedOf
  <1>10. \A r \in DatedOf(pages) :
            \E k \in 1 .. Len(all) : all[k] = PriceOfQuote(more[r[1]][r[2]])
    BY <1>1, <1>8, <1>9 DEF AreWhole
  <1>11. \A r \in New : \E k \in 1 .. Len(all) : all[k] = PriceOfQuote(more[r[1]][r[2]])
    <2>1. TAKE r \in New
    <2>2. PICK i \in DatedIn(sheet) : r = <<n + 1, i>>
      BY DEF New
    <2>3. PICK k \in 1 .. Len(C) : C[k] = PriceOfQuote(sheet[i])
      BY <1>2 DEF AreDatedRows
    <2>4. QED
      BY <1>1, <1>8, <2>2, <2>3
  <1>12. AreWhole(all, more)
    BY <1>3, <1>6, <1>7, <1>8, <1>10, <1>11 DEF AreWhole
  <1>13. QED
    BY <1>6, <1>8, <1>12 DEF all, C, more

\* While pages are read, and once a call is answered with prices, the prices are
\* those of all the pages served to it.
ApiInv ==
    /\ call \in [status : {"idle", "reading", "answered", "error"}, rows : Seq(QuotePrices)]
    /\ served \in Seq(Seq(Quotes)) /\ IsFiniteSet(DatedOf(served))
    /\ call.status = "reading" => AreWhole(call.rows, served)
    /\ call.status = "answered" => call.rows = <<>> \/ AreWhole(call.rows, served)
    /\ call.status \in {"idle", "error"} => call.rows = <<>>

LEMMA ApiAlways == ApiSpec => []ApiInv
  <1>0. /\ <<>> \in Seq(QuotePrices) /\ Len(<<>>) = 0
        /\ DatedOf(<<>>) = {} /\ IsFiniteSet(DatedOf(<<>>)) /\ AreWhole(<<>>, <<>>)
        /\ <<>> \in Seq(Seq(Quotes))
    <2>1. DatedOf(<<>>) = {}
      BY DEF DatedOf
    <2>2. QED
      BY <2>1, FS_EmptySet DEF AreWhole
  <1>1. ApiInit => ApiInv
    BY <1>0 DEF ApiInit, ApiInv, IdleCall
  <1>2. ASSUME ApiInv, [ApiNext]_apiVars
        PROVE  ApiInv'
    <2>1. CASE StartCall
      BY <1>0, <2>1 DEF StartCall, ApiInv
    <2>2. ASSUME NEW sheet \in Pages, NEW last \in BOOLEAN, ReadPage(sheet, last)
          PROVE  ApiInv'
      <3>1. sheet \in Seq(Quotes)
        <4>1. PICK m \in 0 .. 2 : sheet \in [1 .. m -> Quotes]
          BY DEF Pages, SeqOf
        <4>2. QED
          BY <4>1
      <3> DEFINE all == call.rows \o Converted(sheet)
                 more == Append(served, sheet)
                 status == IF last THEN "answered" ELSE "reading"
      <3>2. /\ call.status = "reading" /\ served' = more
            /\ call' = [status |-> status, rows |-> all]
        BY <2>2 DEF ReadPage
      <3>3. IsFiniteSet(DatedOf(more)) /\ AreWhole(all, more) /\ all \in Seq(QuotePrices)
        BY <1>2, <3>1, <3>2, OneSheetMore DEF ApiInv
      <3>4. more \in Seq(Seq(Quotes))
        BY <1>2, <3>1 DEF ApiInv
      <3>5. status \in {"answered", "reading"}
        OBVIOUS
      <3> HIDE DEF all, more, status
      <3>6. QED
        BY <3>2, <3>3, <3>4, <3>5 DEF ApiInv
    <2>3. ASSUME NEW status, PageFails(status)
          PROVE  ApiInv'
      <3>1. call' = EndPages(status) /\ served' = served
        BY <2>3 DEF PageFails
      <3>2. EndPages(status).status \in {"answered", "error"} /\ EndPages(status).rows = <<>>
            /\ EndPages(status) \in [status : {"answered", "error"}, rows : Seq(QuotePrices)]
        BY <1>0 DEF EndPages
      <3>3. QED
        BY <1>2, <3>1, <3>2 DEF ApiInv
    <2>4. CASE UNCHANGED apiVars
      BY <1>2, <2>4 DEF ApiInv, apiVars
    <2>5. QED
      BY <1>2, <2>1, <2>2, <2>3, <2>4 DEF ApiNext
  <1>3. QED
    BY <1>1, <1>2, PTL DEF ApiSpec

\* Five digits of which the last is dropped when it is a zero: no two codes
\* become one symbol.
LEMMA CodesStayApart ==
    ASSUME NEW q \in Quotes, NEW r \in Quotes, TrimSuffixZero(q.code) = TrimSuffixZero(r.code)
    PROVE  q.code = r.code
  <1> DEFINE a == q.code
             b == r.code
  <1>1. \A x \in Quotes : x.code \in Nat /\ 10000 <= x.code /\ x.code < 100000
    BY QuotesAssumption
  <1>2. a \in Int /\ 10000 <= a /\ a < 100000 /\ b \in Int /\ 10000 <= b /\ b < 100000
    BY <1>1
  <1>3. (IF a % 10 = 0 THEN a \div 10 ELSE a) = (IF b % 10 = 0 THEN b \div 10 ELSE b)
    BY DEF TrimSuffixZero
  <1> HIDE DEF a, b
  <1>4. /\ a % 10 = 0 => a = 10 * (a \div 10)
        /\ b % 10 = 0 => b = 10 * (b \div 10)
        /\ a \div 10 \in Int /\ b \div 10 \in Int
    BY <1>2
  <1>5. (a % 10 = 0 => a \div 10 < 10000) /\ (b % 10 = 0 => b \div 10 < 10000)
    BY <1>2, <1>4
  <1>6. a = b
    BY <1>2, <1>3, <1>4, <1>5
  <1>7. QED
    BY <1>6 DEF a, b

\* An answer without an error is the whole of a day, or nothing
\* (getAllBrandDailyPricesByDate).
LEMMA AnswersHold == ApiInv => AnswersAreWhole
  <1> SUFFICES ASSUME ApiInv PROVE AnswersAreWhole
    OBVIOUS
  <1>1. DatedServed = DatedOf(served)
    BY DEF DatedServed, DatedOf
  <1>2. DOMAIN call.rows = 1 .. Len(call.rows)
    BY DEF ApiInv
  <1>3. \A r \in DatedServed, k \in 1 .. Len(call.rows) :
            call.rows[k] = PriceOfQuote(served[r[1]][r[2]]) =>
                /\ call.rows[k].symbol = TrimSuffixZero(served[r[1]][r[2]].code)
                /\ call.rows[k].close = served[r[1]][r[2]].close
    BY DEF PriceOfQuote
  <1>4. AreWhole(call.rows, served) =>
            /\ Len(call.rows) = Cardinality(DatedServed)
            /\ \A r \in DatedServed :
                  LET q == served[r[1]][r[2]] IN
                  \E k \in DOMAIN call.rows :
                      /\ call.rows[k].symbol = TrimSuffixZero(q.code)
                      /\ call.rows[k].close = q.close
    BY <1>1, <1>2, <1>3 DEF AreWhole
  <1>5. QED
    BY <1>4, CodesStayApart DEF AnswersAreWhole, ApiInv

\* ExternalDataIsWhole: whatever J-Quants and the index charts answer, page by
\* page and day by day, what is stored of them is whole and current, for every
\* set of quotes, documents and announcers, through failed and dead sweeps
\* (getAllBrandDailyPricesByDate, CreateNikkeiAndDjiHistoricalData, the topix
\* batch, SyncFinStatements, GetValuation, FindNextBySymbol).
THEOREM ExternalDataStaysWhole == ExternalSpec => []ExternalDataIsWhole
  <1> DEFINE all == <<apiVars, indexVars, finVars, calendarVars>>
  <1>1. ExternalInit => ApiInit /\ IndexInit /\ FinInit /\ CalendarInit
    BY Zenon DEF ExternalInit
  <1>2. [ExternalNext]_all => [ApiNext]_apiVars /\ [IndexNext]_indexVars
                              /\ [FinNext]_finVars /\ [CalendarNext]_calendarVars
    BY DEF ExternalNext
  <1>3. ExternalSpec => ApiSpec /\ IndexSpec /\ FinSpec /\ CalendarSpec
    BY <1>1, <1>2, PTL DEF ExternalSpec, ApiSpec, IndexSpec, FinSpec, CalendarSpec
  <1>4. FinSpec => []SweepIsComplete /\ []ValuationIsNewest
    BY DocumentsAssumption, SweepsAreComplete, ValuationsAreNewest, PTL
  <1>5. AnswersAreWhole /\ IndicesAreCurrent /\ SweepIsComplete /\ ValuationIsNewest
        /\ NextIsUpcoming /\ RangesPartition => ExternalDataIsWhole
    BY Zenon DEF ExternalDataIsWhole
  <1>6. QED
    BY <1>3, <1>4, <1>5, ApiAlways, AnswersHold, IndexAlways, IndicesHold, CalendarAlways,
       NextAnnounced, RangesHold, PTL

-----------------------------------------------------------------------------
(* The requests                                                            *)

RangePaths ==
    {"/daily-prices", "/return-analysis", "/daily-prices/chart", "/technical-indicators",
     "/backtest", "/signal-performance", "/sector-performance", "/daytrade/summary",
     "/daytrade/stats", "/daily-stock-picks/stats", "/fin-announcements"}

DayPaths ==
    {"/multiple-signal-stocks", "/daily-stock-picks", "/quiz/questions", "/quiz/chart",
     "/quiz/answers", "/quiz/results", "/daytrade/executions", "/daytrade/trades/note"}

BarePaths ==
    {"/stock-brands", "/analyze-stock-brand-price-histories", "/fin-statements",
     "/strategy-ranking-stocks", "/valuation", "/fin-announcements/next",
     "/daytrade/executions/import", "/daily-stock-picks/dates"}

NumberPaths ==
    {"/backtest", "/stock-brands", "/analyze-stock-brand-price-histories", "/fin-statements",
     "/strategy-ranking-stocks", "/multiple-signal-stocks", "/fin-announcements",
     "/daily-stock-picks/dates"}

\* What the routes say of a request: the kinds of its days and of its number.
IsRequest(q) ==
    /\ q.path \in RangePaths \cup DayPaths \cup BarePaths
    /\ q.from \in Nat \cup {Absent, Malformed} /\ q.to \in Nat \cup {Absent, Malformed}
    /\ q.number \in Int
    /\ q.path \notin RangePaths => q.to = Absent
    /\ q.path \in BarePaths => q.from = Absent
    /\ q.path \notin NumberPaths => q.number = Absent

LEMMA RoutesAreTyped == \A q \in Routes : IsRequest(q)
  <1> SUFFICES ASSUME NEW q \in Routes PROVE IsRequest(q)
    OBVIOUS
  <1> DEFINE Some == Nat \cup {Absent, Malformed}
  <1>1. Dates \subseteq Some /\ Integral \subseteq Int
        /\ Absent \in Int /\ Malformed \in Int /\ Today \in Nat /\ Today - 1 \in Nat
    BY RequestsAssumption DEF Dates, Integral, Absent, Malformed, Today
  <1>2. ASSUME NEW p, NEW texts, NEW froms, NEW tos, NEW numbers, NEW rates, NEW choices,
               froms \subseteq Some, tos \subseteq Some, numbers \subseteq Int,
               q \in Request(p, texts, froms, tos, numbers, rates, choices)
        PROVE  /\ q.path = p /\ q.from \in Some /\ q.to \in Some /\ q.number \in Int
               /\ q.from \in froms /\ q.to \in tos /\ q.number \in numbers
    BY <1>2 DEF Request
  <1>3. None = {Absent} /\ None \subseteq Some /\ None \subseteq Int
    BY <1>1 DEF None
  <1> HIDE DEF Some
  <1>4. \A p, texts, froms, tos, numbers, rates, choices :
            /\ froms \subseteq Some /\ tos \subseteq Some /\ numbers \subseteq Int
            /\ q \in Request(p, texts, froms, tos, numbers, rates, choices)
            => /\ q.path = p /\ q.from \in Some /\ q.to \in Some /\ q.number \in Int
               /\ q.from \in froms /\ q.to \in tos /\ q.number \in numbers
    BY <1>2
  <1>5. {Absent, Today} \subseteq Some /\ {Absent, Today - 1} \subseteq Some
    BY <1>1 DEF Some
  <1> DEFINE Prices == UNION {Request(p, Texts, Dates, Dates, None, None, Options) :
                                p \in {"/daily-prices", "/return-analysis"}}
             Charts == UNION {Request(p, Texts, Dates, Dates, None, None, {"absent"}) :
                                p \in {"/daily-prices/chart", "/technical-indicators"}}
             Backtests == Request("/backtest", Texts, {Absent, Today}, {Absent, Today - 1},
                                  Integral, Decimal, Options)
             Ranges == UNION {Request(p, {"absent"}, Dates, Dates, None, None, Options) :
                                p \in {"/signal-performance", "/sector-performance",
                                       "/daytrade/summary", "/daytrade/stats",
                                       "/daily-stock-picks/stats"}}
             Lists == UNION {Request(p, Texts, None, None, Integral, None, Options) :
                               p \in {"/stock-brands", "/analyze-stock-brand-price-histories",
                                      "/fin-statements", "/strategy-ranking-stocks"}}
             Signals == Request("/multiple-signal-stocks", Texts, Dates, None, Integral, None,
                                {"absent"})
             Announced == Request("/fin-announcements", Texts, Dates, Dates, Integral, None,
                                  {"absent"})
             Named == UNION {Request(p, Texts, None, None, None, None, {"absent"}) :
                               p \in {"/valuation", "/fin-announcements/next",
                                      "/daytrade/executions/import"}}
             Picked == Request("/daily-stock-picks/dates", {"absent"}, None, None, Integral, None,
                               {"absent"})
             Days == UNION {Request(p, Texts, Dates, None, None, None, Options) :
                              p \in {"/daily-stock-picks", "/quiz/questions", "/quiz/chart",
                                     "/quiz/answers", "/quiz/results", "/daytrade/executions",
                                     "/daytrade/trades/note"}}
  <1>6. Routes = UNION {Prices, Charts, Backtests, Ranges, Lists, Signals, Announced, Named,
                        Picked, Days}
    BY DEF Routes
  <1> HIDE DEF Prices, Charts, Backtests, Ranges, Lists, Signals, Announced, Named, Picked, Days
  <1>7. \/ q \in Prices \/ q \in Charts \/ q \in Backtests \/ q \in Ranges \/ q \in Lists
        \/ q \in Signals \/ q \in Announced \/ q \in Named \/ q \in Picked \/ q \in Days
    BY <1>6, Zenon
  <1>8. CASE q \in Prices
    <2>1. PICK p \in {"/daily-prices", "/return-analysis"} :
            q \in Request(p, Texts, Dates, Dates, None, None, Options)
      BY <1>8, Zenon DEF Prices
    <2>2. q.path = p /\ q.from \in Some /\ q.to \in Some /\ q.number \in Int
          /\ q.from \in Dates /\ q.to \in Dates /\ q.number \in None
      BY <2>1, <1>1, <1>3, <1>4
    <2>3. QED
      BY <2>1, <2>2, <1>3 DEF IsRequest, RangePaths, DayPaths, BarePaths, NumberPaths, Some
  <1>9. CASE q \in Charts
    <2>1. PICK p \in {"/daily-prices/chart", "/technical-indicators"} :
            q \in Request(p, Texts, Dates, Dates, None, None, {"absent"})
      BY <1>9, Zenon DEF Charts
    <2>2. q.path = p /\ q.from \in Some /\ q.to \in Some /\ q.number \in Int
          /\ q.from \in Dates /\ q.to \in Dates /\ q.number \in None
      BY <2>1, <1>1, <1>3, <1>4
    <2>3. QED
      BY <2>1, <2>2, <1>3 DEF IsRequest, RangePaths, DayPaths, BarePaths, NumberPaths, Some
  <1>10. CASE q \in Backtests
    <2> DEFINE F == {Absent, Today}
               T == {Absent, Today - 1}
    <2>0. q \in Request("/backtest", Texts, F, T, Integral, Decimal, Options)
      BY <1>10 DEF Backtests
    <2>. F \subseteq Some /\ T \subseteq Some
      BY <1>5
    <2> HIDE DEF F, T
    <2>1. q.path = "/backtest" /\ q.from \in Some /\ q.to \in Some /\ q.number \in Int
          /\ q.from \in F /\ q.to \in T /\ q.number \in Integral
      BY <2>0, <1>1, <1>4
    <2>2. QED
      BY <2>1, <1>3 DEF IsRequest, RangePaths, DayPaths, BarePaths, NumberPaths, Some
  <1>11. CASE q \in Ranges
    <2>1. PICK p \in {"/signal-performance", "/sector-performance", "/daytrade/summary", "/daytrade/stats", "/daily-stock-picks/stats"} :
            q \in Request(p, {"absent"}, Dates, Dates, None, None, Options)
      BY <1>11, Zenon DEF Ranges
    <2>2. q.path = p /\ q.from \in Some /\ q.to \in Some /\ q.number \in Int
          /\ q.from \in Dates /\ q.to \in Dates /\ q.number \in None
      BY <2>1, <1>1, <1>3, <1>4
    <2>3. QED
      BY <2>1, <2>2, <1>3 DEF IsRequest, RangePaths, DayPaths, BarePaths, NumberPaths, Some
  <1>12. CASE q \in Lists
    <2>1. PICK p \in {"/stock-brands", "/analyze-stock-brand-price-histories", "/fin-statements", "/strategy-ranking-stocks"} :
            q \in Request(p, Texts, None, None, Integral, None, Options)
      BY <1>12, Zenon DEF Lists
    <2>2. q.path = p /\ q.from \in Some /\ q.to \in Some /\ q.number \in Int
          /\ q.from \in None /\ q.to \in None /\ q.number \in Integral
      BY <2>1, <1>1, <1>3, <1>4
    <2>3. QED
      BY <2>1, <2>2, <1>3 DEF IsRequest, RangePaths, DayPaths, BarePaths, NumberPaths, Some
  <1>13. CASE q \in Signals
    <2>1. q.path = "/multiple-signal-stocks" /\ q.from \in Some /\ q.to \in Some /\ q.number \in Int
          /\ q.from \in Dates /\ q.to \in None /\ q.number \in Integral
      BY <1>13, <1>1, <1>3, <1>4, <1>5 DEF Signals
    <2>2. QED
      BY <2>1, <1>3 DEF IsRequest, RangePaths, DayPaths, BarePaths, NumberPaths, Some
  <1>14. CASE q \in Announced
    <2>1. q.path = "/fin-announcements" /\ q.from \in Some /\ q.to \in Some /\ q.number \in Int
          /\ q.from \in Dates /\ q.to \in Dates /\ q.number \in Integral
      BY <1>14, <1>1, <1>3, <1>4, <1>5 DEF Announced
    <2>2. QED
      BY <2>1, <1>3 DEF IsRequest, RangePaths, DayPaths, BarePaths, NumberPaths, Some
  <1>15. CASE q \in Named
    <2>1. PICK p \in {"/valuation", "/fin-announcements/next", "/daytrade/executions/import"} :
            q \in Request(p, Texts, None, None, None, None, {"absent"})
      BY <1>15, Zenon DEF Named
    <2>2. q.path = p /\ q.from \in Some /\ q.to \in Some /\ q.number \in Int
          /\ q.from \in None /\ q.to \in None /\ q.number \in None
      BY <2>1, <1>1, <1>3, <1>4
    <2>3. QED
      BY <2>1, <2>2, <1>3 DEF IsRequest, RangePaths, DayPaths, BarePaths, NumberPaths, Some
  <1>16. CASE q \in Picked
    <2>1. q.path = "/daily-stock-picks/dates" /\ q.from \in Some /\ q.to \in Some /\ q.number \in Int
          /\ q.from \in None /\ q.to \in None /\ q.number \in Integral
      BY <1>16, <1>1, <1>3, <1>4, <1>5 DEF Picked
    <2>2. QED
      BY <2>1, <1>3 DEF IsRequest, RangePaths, DayPaths, BarePaths, NumberPaths, Some
  <1>17. CASE q \in Days
    <2>1. PICK p \in {"/daily-stock-picks", "/quiz/questions", "/quiz/chart", "/quiz/answers", "/quiz/results", "/daytrade/executions", "/daytrade/trades/note"} :
            q \in Request(p, Texts, Dates, None, None, None, Options)
      BY <1>17, Zenon DEF Days
    <2>2. q.path = p /\ q.from \in Some /\ q.to \in Some /\ q.number \in Int
          /\ q.from \in Dates /\ q.to \in None /\ q.number \in None
      BY <2>1, <1>1, <1>3, <1>4
    <2>3. QED
      BY <2>1, <2>2, <1>3 DEF IsRequest, RangePaths, DayPaths, BarePaths, NumberPaths, Some
  <1>18. QED
    BY <1>7, <1>8, <1>9, <1>10, <1>11, <1>12, <1>13, <1>14, <1>15, <1>16, <1>17

LEMMA NumbersAreBounded ==
    ASSUME NEW q, IsRequest(q), Accepted(q)
    PROVE  LET limit == Limit(q.number, DefaultLimit(q.path))
           IN  (q.path = "/stock-brands" \/ limit > 0) /\ limit <= 10000
  <1> DEFINE p == q.path
             v == q.number
             d == DefaultLimit(p)
  <1>1. v \in Int
    BY DEF IsRequest
  <1>2. d \in {0, 8, 90, 20, 100} /\ (p # "/stock-brands" => d > 0)
    BY DEF DefaultLimit, NoLimit
  <1>3. CASE p \notin NumberPaths
    BY <1>2, <1>3 DEF IsRequest, Limit
  <1>4. CASE p \in NumberPaths
    <2>1. v = Absent \/ (v > 0 /\ v <= 10000)
      <3>1. CASE p = "/backtest"
        BY <1>1, <3>1 DEF Accepted, Backtest, BoundedInt, NoLimit
      <3>2. CASE p = "/stock-brands"
        BY <1>1, <3>2 DEF Accepted, StockBrands, BoundedInt, NoLimit
      <3>3. CASE p = "/analyze-stock-brand-price-histories"
        BY <1>1, <3>3 DEF Accepted, AnalyzeHistories, BoundedInt, NoLimit
      <3>4. CASE p = "/fin-statements"
        BY <1>1, <3>4 DEF Accepted, FinStatementsRequest, BoundedInt, NoLimit
      <3>5. CASE p = "/strategy-ranking-stocks"
        BY <1>1, <3>5 DEF Accepted, StrategyRankingStocks, BoundedInt, NoLimit
      <3>6. CASE p = "/multiple-signal-stocks"
        BY <1>1, <3>6 DEF Accepted, MultipleSignalStocks, BoundedInt, NoLimit
      <3>7. CASE p = "/fin-announcements"
        BY <1>1, <3>7 DEF Accepted, FinAnnouncements, BoundedInt, NoLimit
      <3>8. CASE p = "/daily-stock-picks/dates"
        BY <1>1, <3>8 DEF Accepted, PickDates, BoundedInt, NoLimit
      <3>9. QED
        BY <1>4, <3>1, <3>2, <3>3, <3>4, <3>5, <3>6, <3>7, <3>8 DEF NumberPaths
    <2> HIDE DEF v, d, p
    <2>2. QED
      BY <1>1, <1>2, <2>1 DEF Limit, v, d, p
  <1>5. QED
    BY <1>3, <1>4
LEMMA DaysAreSound ==
    ASSUME NEW q, IsRequest(q), Accepted(q)
    PROVE  LET a == Arguments(q)
           IN  /\ a.from > Malformed /\ a.to > Malformed
               /\ a.from # Absent /\ a.to # Absent /\ q.path # "/fin-announcements" =>
                    a.from <= a.to
               /\ q.path \in {"/signal-performance", "/sector-performance"} =>
                    a.from # Absent /\ a.to # Absent /\ a.to - a.from \in 0..366
  <1>1. /\ q.from \in Nat \cup {Absent, Malformed} /\ q.to \in Nat \cup {Absent, Malformed}
        /\ q.path \in RangePaths \cup DayPaths \cup BarePaths
        /\ q.path \notin RangePaths => q.to = Absent
        /\ q.path \in BarePaths => q.from = Absent
    BY DEF IsRequest
  <1>2. CASE q.path \in {"/signal-performance", "/sector-performance"}
    <2>1. PerformanceAccepted(q)
      BY <1>2 DEF Accepted, SectorPerformance
    <2>2. Arguments(q).from = PerformanceRange(q).from /\ Arguments(q).to = PerformanceRange(q).to
      BY <1>2 DEF Arguments
    <2>3. QED
      BY <1>1, <2>1, <2>2
         DEF PerformanceAccepted, PerformanceRange, DateRange, Absent, Malformed, Today
  <1>3. CASE q.path \notin {"/signal-performance", "/sector-performance"}
    <2>1. Arguments(q).from = q.from /\ Arguments(q).to = q.to
      BY <1>3 DEF Arguments
    <2>2. q.from # Malformed /\ q.to # Malformed
          /\ (q.path \in RangePaths /\ q.path # "/fin-announcements" => DateRange(q))
      <3>1. CASE q.path = "/daily-prices"
        BY <3>1 DEF Accepted, DateRange, DailyPrices
      <3>2. CASE q.path = "/return-analysis"
        BY <3>2 DEF Accepted, DateRange, ReturnAnalysis
      <3>3. CASE q.path = "/daily-prices/chart"
        BY <3>3 DEF Accepted, DateRange, DailyPrices
      <3>4. CASE q.path = "/technical-indicators"
        BY <3>4 DEF Accepted, DateRange, TechnicalIndicators
      <3>5. CASE q.path = "/backtest"
        BY <3>5 DEF Accepted, DateRange, Backtest
      <3>6. CASE q.path = "/daytrade/summary"
        BY <3>6 DEF Accepted, DateRange, DaytradeSummary
      <3>7. CASE q.path = "/daytrade/stats"
        BY <3>7 DEF Accepted, DateRange
      <3>8. CASE q.path = "/daily-stock-picks/stats"
        BY <3>8 DEF Accepted, DateRange
      <3>9. CASE q.path = "/fin-announcements"
        BY <3>9 DEF Accepted, FinAnnouncements
      <3>10. CASE q.path = "/multiple-signal-stocks"
        BY <1>1, RequestsAssumption, <3>10 DEF Accepted, MultipleSignalStocks, RangePaths, Absent, Malformed
      <3>11. CASE q.path = "/daily-stock-picks"
        BY <1>1, RequestsAssumption, <3>11 DEF Accepted, OptionalDay, RangePaths, Absent, Malformed
      <3>12. CASE q.path = "/quiz/questions"
        BY <1>1, RequestsAssumption, <3>12 DEF Accepted, OptionalDay, RangePaths, Absent, Malformed
      <3>13. CASE q.path = "/quiz/chart"
        BY <1>1, RequestsAssumption, <3>13 DEF Accepted, QuizChart, RangePaths, Absent, Malformed
      <3>14. CASE q.path = "/quiz/answers"
        BY <1>1, RequestsAssumption, <3>14 DEF Accepted, SubmitAnswer, RangePaths, Absent, Malformed
      <3>15. CASE q.path = "/quiz/results"
        BY <1>1, RequestsAssumption, <3>15 DEF Accepted, QuizResults, RangePaths, Absent, Malformed
      <3>16. CASE q.path = "/daytrade/executions"
        BY <1>1, RequestsAssumption, <3>16 DEF Accepted, ExecutionsByDate, RangePaths, Absent, Malformed
      <3>17. CASE q.path = "/daytrade/trades/note"
        BY <1>1, RequestsAssumption, <3>17 DEF Accepted, UpsertTradeNote, RangePaths, Absent, Malformed
      <3>18. CASE q.path \in BarePaths
        BY <1>1, <3>18 DEF BarePaths, RangePaths, Absent, Malformed
      <3>19. QED
        BY <1>1, <1>3, <3>1, <3>2, <3>3, <3>4, <3>5, <3>6, <3>7, <3>8, <3>9, <3>10, <3>11,
           <3>12, <3>13, <3>14, <3>15, <3>16, <3>17, <3>18 DEF RangePaths, DayPaths
    <2>3. QED
      BY <1>1, <1>3, <2>1, <2>2 DEF DateRange, Absent, Malformed
  <1>4. QED
    BY <1>2, <1>3
\* The requests are what the routes say, and a reply is one of four: none yet,
\* a refusal, a dropped connection, or an answer of the use case called with the
\* arguments of an accepted request.
RequestsInv ==
    /\ IsRequest(request)
    /\ \/ reply = NoReply
       \/ reply = Refused
       \/ reply = Dropped /\ Panics(request)
       \/ /\ Accepted(request)
          /\ reply.called /\ reply.status \in Nat /\ reply.with = Arguments(request)

LEMMA RequestsAlways == RequestsSpec => []RequestsInv
  <1>1. RequestsInit => RequestsInv
    BY RoutesAreTyped DEF RequestsInit, RequestsInv
  <1>2. RequestsInv /\ [RequestsNext]_requestVars => RequestsInv'
    <2> SUFFICES ASSUME RequestsInv, [RequestsNext]_requestVars PROVE RequestsInv'
      OBVIOUS
    <2>1. CASE Refuse
      BY <2>1 DEF Refuse, RequestsInv
    <2>2. CASE Drop
      BY <2>2 DEF Drop, RequestsInv
    <2>3. CASE Serve
      <3>1. PICK outcome \in Outcomes(request.path) :
              reply' = [status |-> Status(request.path, outcome), called |-> TRUE,
                        with |-> Arguments(request)]
        BY <2>3 DEF Serve
      <3>2. Status(request.path, outcome) \in Nat
        BY DEF Status
      <3>3. QED
        BY <2>3, <3>1, <3>2 DEF Serve, RequestsInv
    <2>4. CASE UNCHANGED requestVars
      BY <2>4 DEF requestVars, RequestsInv
    <2>5. QED
      BY <2>1, <2>2, <2>3, <2>4 DEF RequestsNext
  <1>3. QED
    BY <1>1, <1>2, PTL DEF RequestsSpec

\* RequestsAreSound: whatever a request leaves out or spells wrongly, and
\* whatever numbers and days it carries, no handler calls its use case with days
\* out of order, more than 366 days of a performance page, or an unbounded limit.
THEOREM RequestsStaySound == RequestsSpec => []RequestsAreSound
  <1>1. RequestsInv => RequestsAreSound
    <2> SUFFICES ASSUME RequestsInv PROVE RequestsAreSound
      OBVIOUS
    <2>1. CASE reply = NoReply \/ reply = Refused
      BY <2>1 DEF RequestsAreSound, NoReply, Refused
    <2>2. CASE reply = Dropped /\ Panics(request)
      BY <2>2 DEF RequestsAreSound, NoReply, Dropped, Panics
    <2>3. CASE /\ Accepted(request)
               /\ reply.called /\ reply.status \in Nat /\ reply.with = Arguments(request)
      <3>1. IsRequest(request)
        BY DEF RequestsInv
      <3>2. reply.with.limit = Limit(request.number, DefaultLimit(request.path))
        BY <2>3 DEF Arguments
      <3>3. (request.path = "/stock-brands" \/ reply.with.limit > 0) /\ reply.with.limit <= 10000
        BY <2>3, <3>1, <3>2, NumbersAreBounded
      <3> HIDE DEF IsRequest, Accepted, Arguments
      <3>4. LET a == reply.with
            IN  /\ a.from > Malformed /\ a.to > Malformed
                /\ a.from # Absent /\ a.to # Absent /\ request.path # "/fin-announcements" =>
                     a.from <= a.to
                /\ request.path \in {"/signal-performance", "/sector-performance"} =>
                     a.from # Absent /\ a.to # Absent /\ a.to - a.from \in 0..366
        BY <2>3, <3>1, DaysAreSound, Zenon
      <3>5. reply.status # -1
        BY <2>3
      <3>6. QED
        BY <2>3, <3>3, <3>4, <3>5 DEF RequestsAreSound
    <2>4. QED
      BY <2>1, <2>2, <2>3 DEF RequestsInv
  <1>2. QED
    BY <1>1, RequestsAlways, PTL
=============================================================================
