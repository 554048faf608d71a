---------------------------- MODULE JournalProofs ----------------------------
(***************************************************************************)
(* Proofs about Daytrade, for any lines, files, notes and number of        *)
(* requests: that the rows are the lines last imported, that notes follow  *)
(* their trades, and that the views and statistics computed from the rows  *)
(* agree with each other and with their definitions.                       *)
(***************************************************************************)
EXTENDS Daytrade, FoldProofs

\* What a row has of a line.
IsLine(l) == l.day \in TradeDays /\ l.sym \in TradeSymbols /\ l.pl \in Int

\* How a trade is named.
IsKey(k) == k = [day |-> k.day, sym |-> k.sym, dir |-> k.dir] /\ k.day \in TradeDays

\* Finitely many rows that are lines, and notes that say something.
JournalType ==
    /\ IsFiniteSet(journal)
    /\ \A r \in journal : IsLine(r.cols) /\ r.id \in Int
    /\ \A d \in TradeDays :
           /\ IsFiniteSet(DOMAIN imported[d])
           /\ \A i \in DOMAIN imported[d] : imported[d][i].day = d
    /\ \A k \in DOMAIN notes :
           /\ IsKey(k)
           /\ notes[k] \in NoteContents /\ ~Blank(notes[k])
    /\ importReply.inserted \in Int

\* Inductive: the rest of JournalIsExact follows from it in every state.
JournalInv == JournalType /\ ImportIsExact /\ ReplyCountsRows

-----------------------------------------------------------------------------
(* Lines and their places *)

LEMMA LinesHaveNumbers ==
    /\ TradeDays \subseteq Int
    /\ \A l : IsLine(l) => l.day \in Int /\ l.pl \in Int
  BY JournalAssumption DEF TradeDays, IsLine

LEMMA LeastOfTwo ==
    ASSUME NEW a \in Int, NEW b \in Int
    PROVE  Min({a, b}) = IF a <= b THEN a ELSE b
  <1> DEFINE m == Min({a, b})
  <1>1. (m = a \/ m = b) /\ m <= a /\ m <= b
    BY ExtremesOfTwo
  <1> HIDE DEF m
  <1>2. m = IF a <= b THEN a ELSE b
    BY <1>1
  <1>3. QED
    BY <1>2 DEF m

\* A file is read line by line.
LEMMA ParsedLines ==
    ASSUME NEW file \in ImportFiles
    PROVE  \E n \in Nat :
               /\ Parsed(file) = [i \in 1 .. n |-> Parsed(file)[i]]
               /\ Len(Parsed(file)) = n
               /\ \A i \in 1 .. n : IsLine(Parsed(file)[i])
  <1>1. PICK s \in FileLines : file.lines = s
    BY DEF ImportFiles
  <1>2. s \in Seq(Executions)
    BY <1>1, JournalAssumption
  <1> DEFINE n == Len(s)
             V == {Mapped(file, s[i]) : i \in 1 .. n}
  <1>3. n \in Nat /\ DOMAIN s = 1 .. n /\ \A i \in 1 .. n : s[i] \in Executions
    BY <1>2
  <1>4. Parsed(file) = [i \in 1 .. n |-> Mapped(file, s[i])]
    BY <1>1, <1>3 DEF Parsed
  <1>5. ASSUME NEW i \in 1 .. n
        PROVE  IsLine(Mapped(file, s[i]))
    <2>1. s[i] \in Executions /\ s[i].pl \in Int
      BY <1>3, JournalAssumption
    <2>2. Mapped(file, s[i]).day = s[i].day /\ Mapped(file, s[i]).sym = s[i].sym
          /\ Mapped(file, s[i]).pl = s[i].pl
      BY DEF Mapped
    <2>3. QED
      BY <2>1, <2>2 DEF IsLine, TradeDays, TradeSymbols
  <1>6. \A i \in 1 .. n : Parsed(file)[i] = Mapped(file, s[i])
    BY <1>4
  <1>7. Parsed(file) \in [1 .. n -> V]
    BY <1>4
  <1> HIDE DEF n, V
  <1>8. Len(Parsed(file)) = n
    BY <1>3, <1>7
  <1>9. Parsed(file) = [i \in 1 .. n |-> Parsed(file)[i]]
    BY <1>7
  <1>10. \A i \in 1 .. n : IsLine(Parsed(file)[i])
    BY <1>5, <1>6
  <1>11. QED
    BY <1>3, <1>8, <1>9, <1>10

Places(lines, c) == {i \in DOMAIN lines : lines[i] = c}

\* Of equal lines, those numbered up to the largest occurrence are stored.
LEMMA OccurrencesStored ==
    ASSUME NEW n \in Nat, NEW lines, DOMAIN lines = 1 .. n, NEW c
    PROVE  Cardinality({i \in Places(lines, c) : Occurrence(lines, i) <= MaxOccurrence}) =
               Min({MaxOccurrence + 1, Cardinality(Places(lines, c))})
  <1> DEFINE P == Places(lines, c)
             R == {q \in P \X P : q[1] < q[2]}
             m == Cardinality(P)
             M == MaxOccurrence
  <1>1. IsFiniteSet(P) /\ P \subseteq 1 .. n /\ P \subseteq Int
    <2>1. IsFiniteSet(1 .. n)
      BY FS_Interval
    <2>2. P \subseteq 1 .. n
      BY DEF Places
    <2>3. P \subseteq Int
      BY <2>2
    <2> HIDE DEF P
    <2>4. IsFiniteSet(P)
      BY <2>1, <2>2, FS_Subset
    <2>5. QED
      BY <2>2, <2>3, <2>4
  <1>2. \A x, y \in P : <<x, y>> \in R <=> x < y
    OBVIOUS
  <1>3. \A i \in P : {j \in 1 .. i - 1 : lines[j] = lines[i]} = {y \in P : <<y, i>> \in R}
    <2>1. TAKE i \in P
    <2>2. i \in 1 .. n /\ lines[i] = c
      BY DEF Places
    <2>3. \A j \in 1 .. i - 1 : j \in 1 .. n /\ j < i /\ (lines[j] = c => j \in P)
      BY <2>2 DEF Places
    <2>4. \A y \in P : <<y, i>> \in R => y \in 1 .. i - 1 /\ lines[y] = c
      <3>1. TAKE y \in P
      <3>2. HAVE <<y, i>> \in R
      <3>3. y \in 1 .. n /\ y < i /\ lines[y] = c
        BY <1>2, <3>2 DEF Places
      <3>4. QED
        BY <2>2, <3>3
    <2>5. \A j \in 1 .. i - 1 : j \in P => <<j, i>> \in R
      BY <1>2, <2>3
    <2> HIDE DEF R, P
    <2>6. QED
      BY <2>2, <2>3, <2>4, <2>5
  <1> HIDE DEF R, P
  <1>4. IsOrder(R, P)
    BY <1>1, <1>2 DEF IsOrder
  <1>5. \A i \in P : Occurrence(lines, i) = RankIn(R, P, i)
    BY <1>3 DEF Occurrence, RankIn
  <1>5a. /\ m \in Nat
         /\ \A x \in P : RankIn(R, P, x) \in 0 .. m - 1
    BY <1>1, <1>4, RanksAreIncreasing
  <1>5b. /\ \A x, y \in P : RankIn(R, P, x) = RankIn(R, P, y) => x = y
         /\ \A k \in 0 .. m - 1 : \E x \in P : RankIn(R, P, x) = k
    <2>1. IsFiniteSet(P)
      BY <1>1
    <2>2. /\ \A x, y \in P : RankIn(R, P, x) = RankIn(R, P, y) => x = y
          /\ \A x, y \in P : <<x, y>> \in R <=> RankIn(R, P, x) < RankIn(R, P, y)
          /\ \A k \in 0 .. Cardinality(P) - 1 : \E x \in P : RankIn(R, P, x) = k
      BY <2>1, <1>4, RanksArePlaces
    <2>3. QED
      BY <2>2
  <1>6. /\ m \in Nat
        /\ \A x \in P : RankIn(R, P, x) \in 0 .. m - 1
        /\ \A x, y \in P : RankIn(R, P, x) = RankIn(R, P, y) => x = y
        /\ \A k \in 0 .. m - 1 : \E x \in P : RankIn(R, P, x) = k
    BY <1>5a, <1>5b
  <1> DEFINE f == [x \in P |-> RankIn(R, P, x)]
             D == 0 .. m - 1
             U == {k \in D : k <= M}
             S == {i \in P : Occurrence(lines, i) <= M}
  <1> HIDE DEF m
  <1>7. Pairs(f, P, D)
    BY <1>6 DEF Pairs
  <1>8. IsFiniteSet(D) /\ U \in SUBSET D
    BY <1>6, FS_Interval
  <1>9. {x \in P : f[x] \in U} = S
    <2>1. \A x \in P : f[x] \in D /\ f[x] = Occurrence(lines, x)
      BY <1>5, <1>6
    <2> HIDE DEF f, D
    <2>2. QED
      BY <2>1
  <1>10. Cardinality(U) = Min({M + 1, m})
    <2>1. M \in Nat
      BY JournalAssumption
    <2> HIDE DEF M
    <2>2. CASE M + 1 <= m
      <3>1. U = 0 .. M
        BY <1>6, <2>1, <2>2
      <3>2. Cardinality(0 .. M) = M + 1
        BY <2>1, FS_Interval
      <3>3. Min({M + 1, m}) = M + 1
        BY <1>6, <2>1, <2>2, LeastOfTwo
      <3> HIDE DEF U
      <3>4. QED
        BY <3>1, <3>2, <3>3
    <2>3. CASE ~(M + 1 <= m)
      <3>1. U = 0 .. m - 1
        BY <1>6, <2>1, <2>3
      <3>2. Cardinality(0 .. m - 1) = m
        BY <1>6, FS_Interval
      <3>3. Min({M + 1, m}) = m
        BY <1>6, <2>1, <2>3, LeastOfTwo
      <3> HIDE DEF U
      <3>4. QED
        BY <3>1, <3>2, <3>3
    <2>4. QED
      BY <2>2, <2>3
  <1> HIDE DEF f, D, U, S
  <1>11. Cardinality({x \in P : f[x] \in U}) = Cardinality(U)
    BY <1>7, <1>8, PairedParts
  <1>12. QED
    BY <1>9, <1>10, <1>11 DEF S, P, m

\* The rows made of the lines of a file, with ids after the largest one there is.
NewRows(lines, id) ==
    {[cols |-> s.cols, occ |-> s.occ, id |-> id + s.at] : s \in Stored(lines)}

LEMMA NewRowsAreTheLines ==
    ASSUME NEW n \in Nat, NEW lines, DOMAIN lines = 1 .. n, NEW id \in Int
    PROVE  /\ IsFiniteSet(NewRows(lines, id))
           /\ \A r \in NewRows(lines, id) :
                  r.id \in Int /\ \E i \in 1 .. n : r.cols = lines[i]
           /\ \A c : Cardinality({r \in NewRows(lines, id) : r.cols = c}) =
                         Min({MaxOccurrence + 1, Cardinality(Places(lines, c))})
  <1> DEFINE A == {i \in 1 .. n : Occurrence(lines, i) <= MaxOccurrence}
             Row(i) == [cols |-> lines[i], occ |-> Occurrence(lines, i), id |-> id + i]
             N == NewRows(lines, id)
             g == [i \in A |-> Row(i)]
  <1>1. N = {Row(i) : i \in A}
    <2> DEFINE Line(i) == [cols |-> lines[i], occ |-> Occurrence(lines, i), at |-> i]
               Make(s) == [cols |-> s.cols, occ |-> s.occ, id |-> id + s.at]
    <2>1. Stored(lines) = {Line(i) : i \in A}
      BY DEF Stored
    <2>2. N = {Make(s) : s \in Stored(lines)}
      BY DEF NewRows
    <2>3. \A i \in A : Make(Line(i)) = Row(i)
      OBVIOUS
    <2> HIDE DEF Line, Make, Row, N, A
    <2>4. QED
      BY <2>1, <2>2, <2>3
  <1>2. \A i \in A : Row(i).id = id + i /\ Row(i).cols = lines[i] /\ i \in Int
    OBVIOUS
  <1>3. A \subseteq 1 .. n
    OBVIOUS
  <1>4. IsFiniteSet(A)
    <2>1. IsFiniteSet(1 .. n)
      BY FS_Interval
    <2> HIDE DEF A
    <2>2. QED
      BY <1>3, <2>1, FS_Subset
  <1> HIDE DEF A, Row, N
  <1>5. Pairs(g, A, N)
    <2>1. \A i, j \in A : Row(i) = Row(j) => i = j
      <3>1. TAKE i, j \in A
      <3>2. HAVE Row(i) = Row(j)
      <3>3. id + i = id + j /\ i \in Int /\ j \in Int
        BY <1>2, <3>2
      <3>4. QED
        BY <3>3
    <2>2. QED
      BY <1>1, <2>1 DEF Pairs
  <1>6. \A i \in A : g[i] = Row(i)
    OBVIOUS
  <1> HIDE DEF g
  <1>7. IsFiniteSet(N)
    BY <1>4, <1>5, PairedSizes
  <1>8. \A r \in N : r.id \in Int /\ \E i \in 1 .. n : r.cols = lines[i]
    <2>1. TAKE r \in N
    <2>2. PICK i \in A : r = Row(i)
      BY <1>1
    <2>3. r.id = id + i /\ r.cols = lines[i] /\ i \in 1 .. n /\ i \in Int
      BY <1>2, <1>3, <2>2
    <2>4. QED
      BY <2>3
  <1>9. ASSUME NEW c
        PROVE  Cardinality({r \in N : r.cols = c}) =
                   Min({MaxOccurrence + 1, Cardinality(Places(lines, c))})
    <2> DEFINE U == {r \in N : r.cols = c}
               Q == {i \in Places(lines, c) : Occurrence(lines, i) <= MaxOccurrence}
    <2>1. Q = {i \in A : lines[i] = c}
      BY DEF Places, A
    <2>2. {i \in A : g[i] \in U} = {i \in A : lines[i] = c}
      <3>1. \A i \in A : g[i] \in N /\ g[i].cols = lines[i]
        BY <1>2, <1>5, <1>6 DEF Pairs
      <3>2. QED
        BY <3>1
    <2>3. U \in SUBSET N
      OBVIOUS
    <2> HIDE DEF U
    <2>4. Cardinality({i \in A : g[i] \in U}) = Cardinality(U)
      BY <1>5, <1>7, <2>3, PairedParts
    <2>5. Cardinality(Q) = Min({MaxOccurrence + 1, Cardinality(Places(lines, c))})
      BY OccurrencesStored
    <2>6. Cardinality(U) = Cardinality(Q)
      BY <2>1, <2>2, <2>4
    <2> HIDE DEF Q
    <2>7. QED
      BY <2>5, <2>6 DEF U
  <1>10. QED
    BY <1>7, <1>8, <1>9 DEF N

LEMMA NextIdIsANumber ==
    ASSUME JournalType
    PROVE  NextRowId - 1 \in Int
  <1> DEFINE F == [r \in journal |-> r.id]
             I == {F[r] : r \in journal}
             V == I \cup {0}
  <1>1. V = {r.id : r \in journal} \cup {0}
    OBVIOUS
  <1>2. V \subseteq Int /\ V # {}
    BY DEF JournalType
  <1>3. IsFiniteSet(I)
    <2>1. IsFiniteSet(journal)
      BY DEF JournalType
    <2> HIDE DEF F
    <2>2. QED
      BY <2>1, ValuesAreFinite
  <1> HIDE DEF I
  <1>4. IsFiniteSet(V)
    BY <1>3, FS_AddElement
  <1> DEFINE m == Max(V)
  <1> HIDE DEF V
  <1>5. m \in Int
    BY <1>2, <1>4, LeastAndLargest
  <1>6. NextRowId = 1 + m
    BY <1>1 DEF NextRowId
  <1> HIDE DEF m
  <1>7. QED
    BY <1>5, <1>6

-----------------------------------------------------------------------------
(* The rows are the lines last imported *)

\* What ImportIsExact says of a day d, of its lines and of the rows J.
ExactFor(J, lines, d) ==
    \A c \in {lines[i] : i \in DOMAIN lines} \cup {r.cols : r \in {x \in J : x.cols.day = d}} :
        Cardinality({r \in J : r.cols = c}) =
            Min({MaxOccurrence + 1, Cardinality(Places(lines, c))})

LEMMA ExactByDay ==
    ASSUME ImportIsExact, NEW d \in TradeDays
    PROVE  ExactFor(journal, imported[d], d)
  BY DEF ImportIsExact, ExactFor, Places

LEMMA JournalInit == DtInit => JournalInv
  <1> SUFFICES ASSUME DtInit PROVE JournalInv
    OBVIOUS
  <1>1. /\ journal = {} /\ DOMAIN notes = {} /\ importReply = NoRows
        /\ \A d \in TradeDays : imported[d] = [i \in {} |-> {}]
    BY DEF DtInit
  <1>2. IsFiniteSet({}) /\ Cardinality({}) = 0
    BY FS_EmptySet
  <1>3. JournalType
    BY <1>1, <1>2 DEF JournalType, NoRows
  <1>4. ImportIsExact
    BY <1>1 DEF ImportIsExact
  <1>5. ReplyCountsRows
    BY <1>1, <1>2 DEF ReplyCountsRows, NoRows
  <1>6. QED
    BY <1>3, <1>4, <1>5 DEF JournalInv

\* What an import does, in the terms of the lemmas above.
LEMMA ImportInParts ==
    ASSUME NEW file, ImportLines(file)
    PROVE  LET lines == Parsed(file)
               dates == {lines[i].day : i \in DOMAIN lines}
               new == NewRows(lines, NextRowId - 1)
           IN  /\ journal' = KeptRows(dates) \cup new
               /\ importReply'.inserted = Cardinality(new)
               /\ importReply'.skipped = Len(lines) - Cardinality(new)
               /\ importReply'.total = Len(lines)
               /\ imported' = [d \in TradeDays |->
                      IF d \in dates
                      THEN [i \in {k \in DOMAIN lines : lines[k].day = d} |-> lines[i]]
                      ELSE imported[d]]
               /\ notes' = notes
  BY DEF ImportLines, NewRows

\* The rows of a day the file names are its lines; those of another day stay.
LEMMA ImportPreserves ==
    ASSUME JournalInv, NEW file \in ImportFiles, ImportLines(file)
    PROVE  JournalInv'
  <1> DEFINE lines == Parsed(file)
             dates == {lines[i].day : i \in DOMAIN lines}
             id == NextRowId - 1
             new == NewRows(lines, id)
             kept == KeptRows(dates)
  <1>1. PICK n \in Nat : /\ lines = [i \in 1 .. n |-> lines[i]]
                         /\ Len(lines) = n
                         /\ \A i \in 1 .. n : IsLine(lines[i])
    BY ParsedLines
  <1>2. DOMAIN lines = 1 .. n
    BY <1>1
  <1>3. /\ journal' = kept \cup new
        /\ importReply'.inserted = Cardinality(new)
        /\ importReply'.skipped = n - Cardinality(new)
        /\ importReply'.total = n
        /\ imported' = [d \in TradeDays |->
               IF d \in dates
               THEN [i \in {k \in DOMAIN lines : lines[k].day = d} |-> lines[i]]
               ELSE imported[d]]
        /\ notes' = notes
    <2>1. /\ journal' = kept \cup new
          /\ importReply'.inserted = Cardinality(new)
          /\ importReply'.skipped = Len(lines) - Cardinality(new)
          /\ importReply'.total = Len(lines)
          /\ imported' = [d \in TradeDays |->
                 IF d \in dates
                 THEN [i \in {k \in DOMAIN lines : lines[k].day = d} |-> lines[i]]
                 ELSE imported[d]]
          /\ notes' = notes
      BY ImportInParts, Zenon
    <2>2. QED
      BY <1>1, <2>1
  <1>4. JournalType /\ ImportIsExact
    BY DEF JournalInv
  <1>5. id \in Int
    BY <1>4, NextIdIsANumber
  <1> HIDE DEF id, lines
  <1>6. /\ IsFiniteSet(new)
        /\ \A r \in new : r.id \in Int /\ \E i \in 1 .. n : r.cols = lines[i]
        /\ \A c : Cardinality({r \in new : r.cols = c}) =
                      Min({MaxOccurrence + 1, Cardinality(Places(lines, c))})
    BY <1>2, <1>5, NewRowsAreTheLines
  <1>7. Cardinality(new) \in Nat
    BY <1>6, FS_CardinalityType
  <1>8. kept = {r \in journal : r.cols.day \notin dates}
    BY DEF KeptRows
  <1>9. dates = {lines[i].day : i \in 1 .. n}
    BY <1>2
  <1> HIDE DEF new, kept
  <1>10. \A r \in new : IsLine(r.cols) /\ r.cols.day \in dates
    BY <1>1, <1>6, <1>9
  <1>11. IsFiniteSet(journal')
    <2>1. kept \subseteq journal
      BY <1>8
    <2>2. IsFiniteSet(kept)
      BY <1>4, <2>1, FS_Subset DEF JournalType
    <2>3. QED
      BY <1>3, <1>6, <2>2, FS_Union
  <1>12. \A r \in journal' : IsLine(r.cols) /\ r.id \in Int
    BY <1>3, <1>4, <1>6, <1>8, <1>10 DEF JournalType
  <1>13. ASSUME NEW d \in TradeDays
         PROVE  /\ IsFiniteSet(DOMAIN imported'[d])
                /\ \A i \in DOMAIN imported'[d] : imported'[d][i].day = d
    <2>1. CASE d \in dates
      <3> DEFINE D == {k \in DOMAIN lines : lines[k].day = d}
      <3>1. imported'[d] = [i \in D |-> lines[i]]
        BY <1>3, <2>1
      <3>2. D \subseteq 1 .. n
        BY <1>2
      <3>3. IsFiniteSet(1 .. n)
        BY FS_Interval
      <3>4. \A i \in D : lines[i].day = d
        OBVIOUS
      <3> HIDE DEF D
      <3>5. IsFiniteSet(D)
        BY <3>2, <3>3, FS_Subset
      <3>6. QED
        BY <3>1, <3>4, <3>5
    <2>2. CASE d \notin dates
      <3>1. imported'[d] = imported[d]
        BY <1>3, <2>2
      <3>2. QED
        BY <1>4, <3>1 DEF JournalType
    <2>3. QED
      BY <2>1, <2>2
  <1>14. JournalType'
    <2>1. importReply'.inserted \in Int
      BY <1>3, <1>7
    <2>2. \A k \in DOMAIN notes' :
              IsKey(k) /\ notes'[k] \in NoteContents /\ ~Blank(notes'[k])
      BY <1>3, <1>4 DEF JournalType
    <2>3. QED
      BY <1>11, <1>12, <1>13, <2>1, <2>2 DEF JournalType
  <1>15. ASSUME NEW d \in TradeDays
         PROVE  ExactFor(journal', imported'[d], d)
    <2> DEFINE L == imported'[d]
    <2>1. CASE d \in dates
      <3> DEFINE D == {k \in DOMAIN lines : lines[k].day = d}
      <3>1. L = [i \in D |-> lines[i]]
        BY <1>3, <2>1
      <3>2. ASSUME NEW c, c.day = d
            PROVE  Cardinality({r \in journal' : r.cols = c}) =
                       Min({MaxOccurrence + 1, Cardinality(Places(L, c))})
        <4>1. \A r \in kept : r.cols # c
          BY <1>8, <2>1, <3>2
        <4>2. {r \in journal' : r.cols = c} = {r \in new : r.cols = c}
          BY <1>3, <4>1
        <4>3. Places(L, c) = Places(lines, c)
          BY <3>1, <3>2 DEF Places
        <4>4. QED
          BY <1>6, <4>2, <4>3
      <3>3. \A c \in {L[i] : i \in DOMAIN L}
                         \cup {r.cols : r \in {x \in journal' : x.cols.day = d}} : c.day = d
        BY <3>1
      <3> HIDE DEF L
      <3>4. ExactFor(journal', L, d)
        BY <3>2, <3>3 DEF ExactFor
      <3>5. QED
        BY <3>4 DEF L
    <2>2. CASE d \notin dates
      <3>1. L = imported[d]
        BY <1>3, <2>2
      <3>2. \A r \in new : r.cols.day # d
        BY <1>10, <2>2
      <3>3. {x \in journal' : x.cols.day = d} = {x \in journal : x.cols.day = d}
        BY <1>3, <1>8, <2>2, <3>2
      <3>4. \A c : c.day = d =>
                {r \in journal' : r.cols = c} = {r \in journal : r.cols = c}
        BY <1>3, <1>8, <2>2, <3>2
      <3>5. \A c \in {L[i] : i \in DOMAIN L}
                         \cup {r.cols : r \in {x \in journal' : x.cols.day = d}} : c.day = d
        BY <1>4, <3>1 DEF JournalType
      <3>6. ExactFor(journal, L, d)
        BY <1>4, <3>1, ExactByDay
      <3> HIDE DEF L
      <3>7. ExactFor(journal', L, d)
        BY <3>3, <3>4, <3>5, <3>6 DEF ExactFor
      <3>8. QED
        BY <3>7 DEF L
    <2>3. QED
      BY <2>1, <2>2
  <1>16. ImportIsExact'
    BY <1>15 DEF ImportIsExact, ExactFor, Places
  <1>17. ReplyCountsRows'
    <2>1. Cardinality(new) <= Cardinality(journal') /\ Cardinality(journal') \in Nat
      BY <1>3, <1>11, FS_Subset, FS_CardinalityType
    <2>2. QED
      BY <1>3, <1>7, <2>1 DEF ReplyCountsRows
  <1>18. QED
    BY <1>14, <1>16, <1>17 DEF JournalInv

\* The other requests change neither the rows nor what was imported.
LEMMA OthersPreserve ==
    ASSUME JournalInv,
           \/ ImportStoresNothing
           \/ \E r \in journal, content \in NoteContents : UpsertNote(TradeKey(r), content)
           \/ UNCHANGED dtVars
    PROVE  JournalInv'
  <1>1. journal' = journal /\ imported' = imported
    BY DEF ImportStoresNothing, UpsertNote, dtVars
  <1>2. JournalType /\ ImportIsExact /\ ReplyCountsRows
    BY DEF JournalInv
  <1>3. Cardinality(journal) \in Nat
    BY <1>2, FS_CardinalityType DEF JournalType
  <1>4. importReply' \in {importReply, NoRows}
    BY DEF ImportStoresNothing, UpsertNote, dtVars
  <1>5. ReplyCountsRows' /\ importReply'.inserted \in Int
    BY <1>1, <1>2, <1>3, <1>4 DEF ReplyCountsRows, NoRows, JournalType
  <1>6. \A k \in DOMAIN notes' : IsKey(k) /\ notes'[k] \in NoteContents /\ ~Blank(notes'[k])
    <2>1. CASE notes' = notes
      BY <1>2, <2>1 DEF JournalType
    <2>2. CASE \E r \in journal, content \in NoteContents : UpsertNote(TradeKey(r), content)
      <3>1. PICK r \in journal, content \in NoteContents : UpsertNote(TradeKey(r), content)
        BY <2>2
      <3>2. IsKey(TradeKey(r))
        BY <1>2 DEF JournalType, IsKey, IsLine, TradeKey
      <3> DEFINE key == TradeKey(r)
      <3> HIDE DEF key
      <3>3. notes' = IF Blank(content)
                     THEN [k \in DOMAIN notes \ {key} |-> notes[k]]
                     ELSE [k \in DOMAIN notes \cup {key} |->
                               IF k = key THEN content ELSE notes[k]]
        BY <3>1 DEF UpsertNote, key
      <3>4. \A k \in DOMAIN notes' :
                \/ k \in DOMAIN notes /\ notes'[k] = notes[k]
                \/ k = key /\ notes'[k] = content /\ ~Blank(content)
        BY <3>3
      <3>5. QED
        BY <1>2, <3>2, <3>4 DEF JournalType, key
    <2>3. QED
      BY <2>1, <2>2 DEF ImportStoresNothing, dtVars
  <1>7. JournalType'
    BY <1>1, <1>2, <1>5, <1>6 DEF JournalType
  <1>8. ImportIsExact'
    <2>1. ASSUME NEW d \in TradeDays
          PROVE  ExactFor(journal', imported'[d], d)
      <3>1. ExactFor(journal, imported[d], d)
        BY <1>2, ExactByDay
      <3>2. QED
        BY <1>1, <3>1
    <2>2. QED
      BY <2>1 DEF ImportIsExact, ExactFor, Places
  <1>9. QED
    BY <1>5, <1>7, <1>8 DEF JournalInv

\* The rows of a day are the lines last imported for it, up to the number of
\* occurrences the column can tell apart; the answer accounts for each line; a
\* note names a day that was traded and says something (ImportSBICsv).
THEOREM JournalInvHolds == DtSpec => []JournalInv
  <1>1. DtInit => JournalInv
    BY JournalInit
  <1>2. JournalInv /\ [DtNext]_dtVars => JournalInv'
    <2> SUFFICES ASSUME JournalInv, [DtNext]_dtVars
                 PROVE  JournalInv'
      OBVIOUS
    <2>1. CASE \E file \in ImportFiles : ImportLines(file)
      BY <2>1, ImportPreserves
    <2>2. CASE ImportStoresNothing
      BY <2>2, OthersPreserve
    <2>3. CASE \E r \in journal, content \in NoteContents : UpsertNote(TradeKey(r), content)
      BY <2>3, OthersPreserve
    <2>4. CASE UNCHANGED dtVars
      BY <2>4, OthersPreserve
    <2>5. QED
      BY <2>1, <2>2, <2>3, <2>4 DEF DtNext
  <1>3. QED
    BY <1>1, <1>2, PTL DEF DtSpec

-----------------------------------------------------------------------------
(* Ranges of days *)

LEMMA RangesAreFinite ==
    ASSUME JournalType, NEW from, NEW to
    PROVE  /\ IsFiniteSet(InRange(from, to)) /\ InRange(from, to) \subseteq journal
           /\ \A r \in InRange(from, to) : IsLine(r.cols) /\ r.id \in Int
  <1>1. InRange(from, to) \subseteq journal
    BY DEF InRange
  <1>2. IsFiniteSet(InRange(from, to))
    BY <1>1, FS_Subset DEF JournalType
  <1>3. QED
    BY <1>1, <1>2 DEF JournalType

LEMMA RangeOfADay ==
    ASSUME JournalType, NEW d \in TradeDays
    PROVE  InRange(d, d) = {r \in journal : r.cols.day = d}
  <1>1. d \in Int /\ \A r \in journal : r.cols.day \in Int
    BY LinesHaveNumbers DEF JournalType
  <1>2. QED
    BY <1>1 DEF InRange

\* A line of the last file of its day is in the journal.
LEMMA LinesAreStored ==
    ASSUME JournalInv, NEW d \in TradeDays, NEW i \in DOMAIN imported[d]
    PROVE  \E r \in journal : r.cols = imported[d][i]
  <1> DEFINE c == imported[d][i]
             P == Places(imported[d], c)
             J == {r \in journal : r.cols = c}
  <1>1. Cardinality(J) = Min({MaxOccurrence + 1, Cardinality(P)})
    BY ExactByDay DEF JournalInv, ExactFor
  <1>2. i \in P /\ P \subseteq DOMAIN imported[d]
    BY DEF Places
  <1>3. IsFiniteSet(P)
    BY <1>2, FS_Subset DEF JournalInv, JournalType
  <1> HIDE DEF P, c
  <1>4. Cardinality(P) \in Nat /\ Cardinality(P) # 0
    BY <1>2, <1>3, FS_CardinalityType, FS_EmptySet
  <1>5. Min({MaxOccurrence + 1, Cardinality(P)}) # 0
    <2> DEFINE m == MaxOccurrence + 1
               q == Cardinality(P)
    <2>1. m \in Int /\ q \in Int /\ m # 0 /\ q # 0
      BY <1>4, JournalAssumption
    <2> HIDE DEF m, q
    <2>2. Min({m, q}) # 0
      BY <2>1, LeastOfTwo
    <2>3. QED
      BY <2>2 DEF m, q
  <1>6. J # {}
    BY <1>1, <1>5, FS_EmptySet
  <1>7. QED
    BY <1>6 DEF c

\* The trades of a range are those its rows name.
LEMMA TradeOfARow ==
    ASSUME NEW from, NEW to
    PROVE  /\ \A r \in InRange(from, to) :
                  \E t \in Trades(from, to) : t.key = TradeKey(r)
           /\ \A t \in Trades(from, to) :
                  /\ \E r \in InRange(from, to) : t.key = TradeKey(r)
                  /\ t = [key |-> t.key, pl |-> t.pl]
                  /\ t.pl = Bucket({r \in InRange(from, to) : TradeKey(r) = t.key}).pl
  <1> DEFINE S == InRange(from, to)
             B(k) == Bucket({r \in S : TradeKey(r) = k}).pl
             K == {TradeKey(r) : r \in S}
  <1>1. Trades(from, to) = {[key |-> k, pl |-> B(k)] : k \in K}
    BY DEF Trades
  <1> HIDE DEF B
  <1>2. \A r \in S : \E t \in Trades(from, to) : t.key = TradeKey(r)
    <2>1. TAKE r \in S
    <2>2. [key |-> TradeKey(r), pl |-> B(TradeKey(r))] \in Trades(from, to)
      BY <1>1
    <2>3. QED
      BY <2>2
  <1>3. \A t \in Trades(from, to) :
            /\ \E r \in S : t.key = TradeKey(r)
            /\ t = [key |-> t.key, pl |-> t.pl]
            /\ t.pl = B(t.key)
    BY <1>1
  <1>4. QED
    BY <1>2, <1>3 DEF B

LEMMA NotesFollow ==
    ASSUME JournalInv
    PROVE  NotesFollowTrades
  <1> SUFFICES ASSUME NEW k \in DOMAIN notes
               PROVE  /\ (\E i \in DOMAIN imported[k.day] :
                             /\ imported[k.day][i].sym = k.sym
                             /\ Direction(imported[k.day][i]) = k.dir)
                          => \E t \in Trades(k.day, k.day) : t.key = k /\ NoteOf(t) = notes[k]
                      /\ \A t \in Trades(k.day, k.day) :
                             NoteOf(t) = notes[k] => t.key = k \/ t.key \in DOMAIN notes
    BY DEF NotesFollowTrades
  <1>1. IsKey(k) /\ ~Blank(notes[k])
    BY DEF JournalInv, JournalType
  <1>2. ASSUME NEW i \in DOMAIN imported[k.day],
               imported[k.day][i].sym = k.sym, Direction(imported[k.day][i]) = k.dir
        PROVE  \E t \in Trades(k.day, k.day) : t.key = k /\ NoteOf(t) = notes[k]
    <2>1. k.day \in TradeDays
      BY <1>1 DEF IsKey
    <2>2. PICK r \in journal : r.cols = imported[k.day][i]
      BY <2>1, LinesAreStored
    <2>3. r.cols.day = k.day
      BY <2>1, <2>2 DEF JournalInv, JournalType
    <2>4. TradeKey(r) = k
      BY <1>1, <1>2, <2>2, <2>3 DEF TradeKey, IsKey
    <2>5. r \in InRange(k.day, k.day)
      BY <2>1, <2>3, RangeOfADay DEF JournalInv
    <2>6. PICK t \in Trades(k.day, k.day) : t.key = TradeKey(r)
      BY <2>5, TradeOfARow
    <2>7. QED
      BY <2>4, <2>6 DEF NoteOf
  <1>3. ASSUME NEW t \in Trades(k.day, k.day), NoteOf(t) = notes[k], t.key \notin DOMAIN notes
        PROVE  FALSE
    <2>1. notes[k] = [tags |-> <<>>, memo |-> FALSE]
      BY <1>3 DEF NoteOf, NoNote
    <2>2. QED
      BY <1>1, <2>1 DEF Blank
  <1>4. QED
    BY <1>2, <1>3

-----------------------------------------------------------------------------
(* Summaries *)

\* The results of rows, and rows with a result.
PlOf(S) == [r \in S |-> Pl(r)]
AreRows(S) == IsFiniteSet(S) /\ \A r \in S : IsLine(r.cols)

LEMMA ResultsAreNumbers ==
    ASSUME NEW S, AreRows(S)
    PROVE  /\ PlOf(S) \in [S -> Int]
           /\ \A s \in SUBSET S : AreRows(s) /\ PartialSum(PlOf(S), s) = SumFunction(PlOf(s))
  <1>1. \A r \in S : Pl(r) \in Int
    BY LinesHaveNumbers DEF AreRows, Pl
  <1>2. PlOf(S) \in [S -> Int]
    BY <1>1 DEF PlOf
  <1>3. ASSUME NEW s \in SUBSET S
        PROVE  AreRows(s) /\ PartialSum(PlOf(S), s) = SumFunction(PlOf(s))
    <2>1. AreRows(s)
      BY FS_Subset DEF AreRows
    <2>2. [r \in s |-> PlOf(S)[r]] = PlOf(s)
      BY DEF PlOf
    <2>3. QED
      BY <2>1, <2>2 DEF PartialSum
  <1>4. QED
    BY <1>2, <1>3

\* Gains and losses add up to the result.
LEMMA BucketAddsUp ==
    ASSUME NEW S, AreRows(S)
    PROVE  LET b == Bucket(S) IN
           /\ b.pl = SumFunction(PlOf(S)) /\ b.pl \in Int
           /\ b.count = Cardinality(S) /\ b.count \in Nat
           /\ b.profit + b.loss = b.pl
           /\ b.wins + b.losses <= b.count
  <1> DEFINE W == Winners(S)
             L == Losers(S)
             Z == {r \in S : Pl(r) = 0}
             F == PlOf(S)
  <1>1. /\ F \in [S -> Int] /\ \A r \in S : F[r] = Pl(r) /\ Pl(r) \in Int
        /\ \A s \in SUBSET S : AreRows(s) /\ PartialSum(F, s) = SumFunction(PlOf(s))
    BY ResultsAreNumbers DEF PlOf
  <1>2. /\ Bucket(S).pl = SumFunction(F) /\ Bucket(S).count = Cardinality(S)
        /\ Bucket(S).profit = SumFunction(PlOf(W)) /\ Bucket(S).loss = SumFunction(PlOf(L))
        /\ Bucket(S).wins = Cardinality(W) /\ Bucket(S).losses = Cardinality(L)
    BY DEF Bucket, PlOf
  <1>3. /\ W \in SUBSET S /\ L \in SUBSET S /\ Z \in SUBSET S /\ W \cup L \in SUBSET S
        /\ W \cap L = {} /\ (W \cup L) \cap Z = {} /\ (W \cup L) \cup Z = S
    BY <1>1 DEF Winners, Losers
  <1>4. IsFiniteSet(S) /\ Cardinality(S) \in Nat
    BY FS_CardinalityType DEF AreRows
  <1>5. SumFunction(PlOf(Z)) = 0
    <2>1. PlOf(Z) \in [Z -> Int] /\ \A r \in Z : PlOf(Z)[r] = 0
      BY <1>1 DEF PlOf
    <2>2. IsFiniteSet(Z)
      BY <1>3, <1>4, FS_Subset
    <2> HIDE DEF Z
    <2>3. QED
      BY <2>1, <2>2, SumOfOneSign
  <1> HIDE DEF W, L, Z, F
  <1>6. PartialSum(F, S) = SumFunction(F) /\ PartialSum(F, W) = SumFunction(PlOf(W))
        /\ PartialSum(F, L) = SumFunction(PlOf(L)) /\ PartialSum(F, Z) = 0
        /\ F \in [S -> Int]
    BY <1>1, <1>3, <1>5 DEF F
  <1>7. PartialSum(F, (W \cup L) \cup Z) = PartialSum(F, W \cup L) + PartialSum(F, Z)
    <2>1. (W \cup L) \in SUBSET S /\ Z \in SUBSET S /\ (W \cup L) \cap Z = {}
      BY <1>3
    <2> DEFINE B == W \cup L
    <2>2. B \in SUBSET S /\ Z \in SUBSET S /\ B \cap Z = {}
      BY <2>1
    <2>3. F \in [S -> Int] /\ IsFiniteSet(S)
      BY <1>6, <1>4
    <2> HIDE DEF B
    <2>4. PartialSum(F, B \cup Z) = PartialSum(F, B) + PartialSum(F, Z)
      BY <2>2, <2>3, SumOfTwoParts
    <2>5. QED
      BY <2>4 DEF B
  <1>8. /\ PartialSum(F, W \cup L) = PartialSum(F, W) + PartialSum(F, L)
        /\ PartialSum(F, W) \in Int /\ PartialSum(F, L) \in Int
    BY <1>6, <1>3, <1>4, SumOfTwoParts
  <1>9. Cardinality(W) + Cardinality(L) <= Cardinality(S)
    <2>1. IsFiniteSet(W) /\ IsFiniteSet(L)
      BY <1>3, <1>4, FS_Subset
    <2>2. Cardinality(W \cup L) = Cardinality(W) + Cardinality(L)
      BY <1>3, <2>1, DisjointSizes
    <2>3. Cardinality(W \cup L) <= Cardinality(S)
      BY <1>3, <1>4, FS_Subset
    <2>4. QED
      BY <2>2, <2>3
  <1>10. Bucket(S).pl \in Int /\ Bucket(S).profit + Bucket(S).loss = Bucket(S).pl
    <2>1. PartialSum(F, S) = PartialSum(F, W \cup L) + PartialSum(F, Z)
      BY <1>3, <1>7
    <2>2. PartialSum(F, S) = PartialSum(F, W) + PartialSum(F, L)
      BY <1>6, <1>8, <2>1
    <2>3. QED
      BY <1>2, <1>6, <1>8, <2>2
  <1>11. QED
    BY <1>2, <1>4, <1>9, <1>10 DEF F

\* The dates of a summary in their order.
LEMMA DatesInOrder ==
    ASSUME NEW D, IsFiniteSet(D), D \subseteq Int
    PROVE  LET p == InOrder(D, [d \in D |-> d]) IN
           /\ Cardinality(D) \in Nat
           /\ p \in [1 .. Cardinality(D) -> D]
           /\ \A i, j \in 1 .. Cardinality(D) : i < j => p[i] < p[j]
           /\ Pairs(p, 1 .. Cardinality(D), D)
  <1> DEFINE n == Cardinality(D)
             key == [d \in D |-> d]
             p == InOrder(D, key)
             R == {q \in D \X D : q[1] < q[2]}
  <1>1. \A x, y \in D : <<x, y>> \in R <=> x < y
    OBVIOUS
  <1>3. \A x \in D : {y \in D : key[y] < key[x]} = {y \in D : <<y, x>> \in R}
    OBVIOUS
  <1> HIDE DEF R
  <1>2. IsOrder(R, D)
    BY <1>1 DEF IsOrder
  <1>4. p = InOrderOf(R, D)
    <2>1. \A x \in D : Cardinality({y \in D : key[y] < key[x]}) = RankIn(R, D, x)
      BY <1>3 DEF RankIn
    <2>2. p = [k \in 1 .. n |-> CHOOSE x \in D : Cardinality({y \in D : key[y] < key[x]}) = k - 1]
      BY DEF InOrder
    <2>3. InOrderOf(R, D) = [k \in 1 .. n |-> CHOOSE x \in D : RankIn(R, D, x) = k - 1]
      BY DEF InOrderOf
    <2>4. QED
      BY <2>1, <2>2, <2>3, Zenon
  <1> HIDE DEF p
  <1>5. /\ n \in Nat
        /\ p \in [1 .. n -> D]
        /\ \A k, l \in 1 .. n : k < l => <<p[k], p[l]>> \in R
        /\ \A x \in D : /\ RankIn(R, D, x) + 1 \in 1 .. n
                        /\ p[RankIn(R, D, x) + 1] = x
    BY <1>2, <1>4, MembersInOrder
  <1> HIDE DEF n
  <1>6. \A i, j \in 1 .. n : i < j => p[i] < p[j]
    BY <1>1, <1>5
  <1>7. \A i, j \in 1 .. n : p[i] = p[j] => i = j
    <2>1. TAKE i, j \in 1 .. n
    <2>2. i < j \/ j < i \/ i = j
      BY <1>5
    <2>3. p[i] \in Int /\ p[j] \in Int
      BY <1>5
    <2>4. QED
      BY <1>6, <2>2, <2>3
  <1>8. Pairs(p, 1 .. n, D)
    BY <1>5, <1>7 DEF Pairs
  <1>9. QED
    BY <1>5, <1>6, <1>8 DEF p, n, key

\* The buckets of the rows S, one for each of the n dates p that stand for their
\* days.
InBuckets(buckets, S, b, n, p) ==
    /\ n \in Nat /\ p \in [1 .. n -> Int]
    /\ \A i, j \in 1 .. n : i < j => p[i] < p[j]
    /\ Pairs(p, 1 .. n, {b[r.cols.day] : r \in S})
    /\ buckets = [i \in 1 .. n |-> Bucket({r \in S : b[r.cols.day] = p[i]})]

LEMMA AggregateInOrder ==
    ASSUME JournalType, NEW from, NEW to, NEW b \in [TradeDays -> Int]
    PROVE  \E n, p :
               InBuckets(Aggregate(from, to, b), InRange(from, to), b, n, p)
  <1> DEFINE S == InRange(from, to)
             F == [r \in S |-> b[r.cols.day]]
             D == {b[r.cols.day] : r \in S}
             n == Cardinality(D)
             p == InOrder(D, [d \in D |-> d])
  <1>1. IsFiniteSet(S) /\ \A r \in S : r.cols.day \in TradeDays
    BY RangesAreFinite DEF IsLine
  <1>2. D = {F[r] : r \in S} /\ D \subseteq Int
    BY <1>1
  <1>3. Aggregate(from, to, b) = [i \in DOMAIN p |-> Bucket({r \in S : b[r.cols.day] = p[i]})]
    BY DEF Aggregate
  <1> HIDE DEF S, F, D, p
  <1>4. IsFiniteSet(D)
    BY <1>1, <1>2, ValuesAreFinite
  <1>5. /\ n \in Nat
        /\ p \in [1 .. n -> D]
        /\ \A i, j \in 1 .. n : i < j => p[i] < p[j]
        /\ Pairs(p, 1 .. n, D)
    BY <1>2, <1>4, DatesInOrder DEF p
  <1> HIDE DEF n
  <1>6. p \in [1 .. n -> Int] /\ DOMAIN p = 1 .. n
    BY <1>2, <1>5
  <1>7. InBuckets(Aggregate(from, to, b), S, b, n, p)
    <2>1. Pairs(p, 1 .. n, {b[r.cols.day] : r \in S})
      BY <1>5 DEF D
    <2>2. QED
      BY <1>3, <1>5, <1>6, <2>1 DEF InBuckets
  <1>8. QED
    BY <1>7 DEF S

LEMMA AggregatesAddUp ==
    ASSUME JournalType, NEW from, NEW to, NEW b \in [TradeDays -> Int]
    PROVE  AddUpTo(Aggregate(from, to, b), Overall(from, to))
  <1>0. PICK n, p : InBuckets(Aggregate(from, to, b), InRange(from, to), b, n, p)
    BY AggregateInOrder
  <1> DEFINE S == InRange(from, to)
             D == {b[r.cols.day] : r \in S}
             buckets == Aggregate(from, to, b)
             K == 1 .. n
  <1>1. /\ n \in Nat /\ p \in [K -> Int] /\ Pairs(p, K, D)
        /\ buckets = [i \in K |-> Bucket({r \in S : b[r.cols.day] = p[i]})]
    BY <1>0 DEF InBuckets
  <1>3. AreRows(S)
    BY RangesAreFinite DEF AreRows
  <1> DEFINE f == [r \in S |-> CHOOSE i \in K : p[i] = b[r.cols.day]]
             Class(i) == {r \in S : f[r] = i}
  <1>4. /\ f \in [S -> K] /\ \A r \in S : p[f[r]] = b[r.cols.day]
    <2>1. \A z \in D : \E i \in K : p[i] = z
      BY <1>1 DEF Pairs
    <2>2. \A r \in S : b[r.cols.day] \in D
      OBVIOUS
    <2> HIDE DEF D, S, K
    <2>3. \A r \in S : \E i \in K : p[i] = b[r.cols.day]
      BY <2>1, <2>2
    <2>4. QED
      BY <2>3
  <1> HIDE DEF f
  <1>5. ASSUME NEW i \in K
        PROVE  Class(i) = {r \in S : b[r.cols.day] = p[i]}
    BY <1>1, <1>4 DEF Pairs
  <1>6. DOMAIN buckets = K
    BY <1>1
  <1> HIDE DEF buckets, D, S
  <1>7. IsFiniteSet(K) /\ IsFiniteSet(S)
    BY <1>1, <1>3, FS_Interval DEF AreRows
  <1> HIDE DEF K
  <1>8. SumFunction([i \in DOMAIN buckets |-> buckets[i].pl]) = SumFunction(PlOf(S))
    <2> DEFINE C == [i \in K |-> buckets[i].pl]
               F == PlOf(S)
    <2>1. F \in [S -> Int] /\ \A s \in SUBSET S : AreRows(s) /\ PartialSum(F, s) = SumFunction(PlOf(s))
      BY <1>3, ResultsAreNumbers
    <2>2. ASSUME NEW i \in K
          PROVE  C[i] = PartialSum(F, {r \in S : f[r] = i})
      <3>1. buckets[i] = Bucket(Class(i))
        BY <1>1, <1>5
      <3>2. Class(i) \in SUBSET S
        OBVIOUS
      <3> HIDE DEF Class
      <3>3. Bucket(Class(i)).pl = SumFunction(PlOf(Class(i)))
        BY <2>1, <3>2, BucketAddsUp
      <3>4. QED
        BY <2>1, <3>1, <3>2, <3>3 DEF Class
    <2>3. DOMAIN C = K
      OBVIOUS
    <2> HIDE DEF C, F
    <2>4. SumFunction(C) = SumFunction(F)
      BY <1>4, <1>7, <2>1, <2>2, <2>3, SumOfClasses
    <2>5. QED
      BY <1>6, <2>4 DEF C, F
  <1>9. SumFunction([i \in DOMAIN buckets |-> buckets[i].count]) = Cardinality(S)
    <2> DEFINE C == [i \in K |-> buckets[i].count]
               F == [r \in S |-> 1]
    <2>1. F \in [S -> Int] /\ \A s \in SUBSET S : [r \in s |-> F[r]] = [r \in s |-> 1]
      OBVIOUS
    <2>2. ASSUME NEW i \in K
          PROVE  C[i] = PartialSum(F, {r \in S : f[r] = i})
      <3>1. buckets[i] = Bucket(Class(i))
        BY <1>1, <1>5
      <3>2. Class(i) \in SUBSET S /\ IsFiniteSet(Class(i))
        BY <1>7, FS_Subset
      <3> HIDE DEF Class
      <3>3. Bucket(Class(i)).count = Cardinality(Class(i))
        BY DEF Bucket
      <3>4. SumFunction([r \in Class(i) |-> 1]) = Cardinality(Class(i))
        BY <3>2, SizeIsASum
      <3>5. PartialSum(F, Class(i)) = SumFunction([r \in Class(i) |-> 1])
        BY <2>1, <3>2 DEF PartialSum
      <3>6. QED
        BY <3>1, <3>3, <3>4, <3>5 DEF Class
    <2>3. DOMAIN C = K
      OBVIOUS
    <2> HIDE DEF C, F
    <2>4. SumFunction(C) = SumFunction(F)
      BY <1>4, <1>7, <2>1, <2>2, <2>3, SumOfClasses
    <2>5. SumFunction(F) = Cardinality(S)
      BY <1>7, SizeIsASum DEF F
    <2>6. QED
      BY <1>6, <2>4, <2>5 DEF C
  <1>10. Overall(from, to).pl = SumFunction(PlOf(S)) /\ Overall(from, to).count = Cardinality(S)
    BY DEF Overall, Bucket, PlOf, S
  <1>11. QED
    BY <1>8, <1>9, <1>10 DEF AddUpTo, buckets

-----------------------------------------------------------------------------
(* Trades *)

\* Each trade is made of the rows that have its key.
LEMMA TradesAreGroups ==
    ASSUME JournalType, NEW from, NEW to
    PROVE  /\ IsFiniteSet(Trades(from, to))
           /\ \A t \in Trades(from, to) :
                  t.pl = SumFunction(PlOf({r \in InRange(from, to) : TradeKey(r) = t.key}))
                  /\ t.pl \in Int
           /\ \A t, u \in Trades(from, to) : t.key = u.key => t = u
  <1> DEFINE S == InRange(from, to)
             T == Trades(from, to)
             Group(k) == {r \in S : TradeKey(r) = k}
  <1>1. AreRows(S)
    BY RangesAreFinite DEF AreRows
  <1>2. /\ \A r \in S : \E t \in T : t.key = TradeKey(r)
        /\ \A t \in T : /\ \E r \in S : t.key = TradeKey(r)
                        /\ t = [key |-> t.key, pl |-> t.pl]
                        /\ t.pl = Bucket(Group(t.key)).pl
    BY TradeOfARow
  <1> HIDE DEF T
  <1>3. \A t, u \in T : t.key = u.key => t = u
    <2> DEFINE B(k) == Bucket(Group(k)).pl
    <2>1. \A t \in T : t = [key |-> t.key, pl |-> B(t.key)]
      BY <1>2
    <2> HIDE DEF B
    <2>2. TAKE t, u \in T
    <2>3. HAVE t.key = u.key
    <2>4. QED
      BY <2>1, <2>3
  <1>4. ASSUME NEW t \in T
        PROVE  t.pl = SumFunction(PlOf(Group(t.key))) /\ t.pl \in Int
    <2> DEFINE s == Group(t.key)
    <2>1. s \in SUBSET S
      OBVIOUS
    <2>2. t.pl = Bucket(s).pl
      BY <1>2
    <2> HIDE DEF s, S
    <2>3. AreRows(s)
      BY <1>1, <2>1, ResultsAreNumbers
    <2>4. QED
      BY <2>2, <2>3, BucketAddsUp DEF s
  <1>5. IsFiniteSet(T)
    <2> DEFINE F == [r \in S |-> CHOOSE t \in T : t.key = TradeKey(r)]
    <2>1. T = {F[r] : r \in S}
      <3>1. ASSUME NEW t \in T
            PROVE  \E r \in S : t = F[r]
        <4>1. PICK r \in S : t.key = TradeKey(r)
          BY <1>2
        <4>2. F[r] \in T /\ F[r].key = TradeKey(r)
          BY <1>2
        <4>3. QED
          BY <1>3, <4>1, <4>2
      <3>2. \A r \in S : F[r] \in T
        BY <1>2
      <3> HIDE DEF F
      <3>3. QED
        BY <3>1, <3>2
    <2>2. IsFiniteSet(S)
      BY <1>1 DEF AreRows
    <2> HIDE DEF F, S
    <2>3. IsFiniteSet({F[r] : r \in S})
      BY <2>2, ValuesAreFinite
    <2>4. QED
      BY <2>1, <2>3
  <1>6. QED
    BY <1>3, <1>4, <1>5 DEF T

\* The results of some trades add up to those of the rows they are made of.
LEMMA TradesAddUp ==
    ASSUME JournalType, NEW from, NEW to, NEW U \in SUBSET Trades(from, to)
    PROVE  SumFunction([t \in U |-> t.pl]) =
               SumFunction(PlOf({r \in InRange(from, to) : \E t \in U : t.key = TradeKey(r)}))
  <1> DEFINE S == InRange(from, to)
             P == {r \in S : \E t \in U : t.key = TradeKey(r)}
             f == [r \in P |-> CHOOSE t \in U : t.key = TradeKey(r)]
             C == [t \in U |-> t.pl]
             F == PlOf(P)
  <1>1. AreRows(S)
    BY RangesAreFinite DEF AreRows
  <1>2. /\ IsFiniteSet(U)
        /\ \A t \in U : t.pl = SumFunction(PlOf({r \in S : TradeKey(r) = t.key}))
        /\ \A t, u \in U : t.key = u.key => t = u
    BY TradesAreGroups, FS_Subset
  <1>3. P \in SUBSET S
    OBVIOUS
  <1>4. f \in [P -> U] /\ \A r \in P : f[r].key = TradeKey(r)
    OBVIOUS
  <1>5. AreRows(P)
    BY <1>1, <1>3, ResultsAreNumbers
  <1>6. \A t \in U : {r \in S : TradeKey(r) = t.key} = {r \in P : f[r] = t}
    BY <1>2, <1>4
  <1>7. DOMAIN C = U /\ \A t \in U : C[t] = SumFunction(PlOf({r \in P : f[r] = t}))
    BY <1>2, <1>6
  <1> HIDE DEF C, P, f, F
  <1>8. /\ F \in [P -> Int]
        /\ \A s \in SUBSET P : AreRows(s) /\ PartialSum(F, s) = SumFunction(PlOf(s))
    BY <1>5, ResultsAreNumbers DEF F
  <1>9. \A t \in U : C[t] = PartialSum(F, {r \in P : f[r] = t})
    BY <1>7, <1>8
  <1>10. F \in [P -> Int] /\ IsFiniteSet(P)
    BY <1>5, <1>8 DEF AreRows
  <1>11. SumFunction(C) = SumFunction(F)
    BY <1>2, <1>4, <1>7, <1>9, <1>10, SumOfClasses
  <1>12. QED
    BY <1>11 DEF C, F, P

\* The result of a symbol is that of its rows.
SymbolRows(from, to, s) == {r \in InRange(from, to) : r.cols.sym = s}

LEMMA SymbolsAddUp ==
    ASSUME JournalType, NEW from, NEW to, NEW s
    PROVE  /\ SymbolPl(Trades(from, to), s) =
                  SumFunction(PlOf(SymbolRows(from, to, s)))
           /\ SymbolPl(Trades(from, to), s) \in Int
           /\ SumFunction([t \in Trades(from, to) |-> t.pl]) = Overall(from, to).pl
  <1> DEFINE S == InRange(from, to)
             T == Trades(from, to)
             U == SymbolTrades(T, s)
             R == {r \in S : r.cols.sym = s}
  <1>1. AreRows(S)
    BY RangesAreFinite DEF AreRows
  <1>2. \A r \in S : TradeKey(r).sym = r.cols.sym
    BY DEF TradeKey
  <1>3. {r \in S : \E t \in U : t.key = TradeKey(r)} = R
    <2>1. \A r \in R : \E t \in U : t.key = TradeKey(r)
      <3>1. TAKE r \in R
      <3>2. PICK t \in T : t.key = TradeKey(r)
        BY TradeOfARow
      <3>3. t \in U
        BY <1>2, <3>2 DEF SymbolTrades
      <3>4. QED
        BY <3>2, <3>3
    <2>2. \A r \in S : (\E t \in U : t.key = TradeKey(r)) => r \in R
      BY <1>2 DEF SymbolTrades
    <2> HIDE DEF U
    <2>3. QED
      BY <2>1, <2>2
  <1>4. {r \in S : \E t \in T : t.key = TradeKey(r)} = S
    BY TradeOfARow
  <1>5. U \in SUBSET T
    BY DEF SymbolTrades
  <1>6. SumFunction([t \in U |-> t.pl]) = SumFunction(PlOf(R))
    BY <1>3, <1>5, TradesAddUp
  <1>7. SumFunction([t \in T |-> t.pl]) = SumFunction(PlOf(S))
    BY <1>4, TradesAddUp
  <1>8. SumFunction(PlOf(R)) \in Int
    <2>1. R \in SUBSET S
      OBVIOUS
    <2> HIDE DEF R, S
    <2>2. AreRows(R)
      BY <1>1, <2>1, ResultsAreNumbers
    <2>3. QED
      BY <2>2, ResultsAreNumbers, SumIsWhole DEF AreRows
  <1>9. QED
    BY <1>6, <1>7, <1>8 DEF SymbolPl, Overall, Bucket, PlOf, SymbolRows

\* A symbol with at most one live brand row is counted once in its summary.
LEMMA SymbolSummaryAgrees ==
    ASSUME JournalType, NEW from, NEW to,
           NEW s \in DOMAIN SymbolSummary(from, to), LiveBrands[s] <= 1
    PROVE  SymbolSummary(from, to)[s].pl = SymbolPl(Trades(from, to), s)
  <1>0. SymbolPl(Trades(from, to), s) = SumFunction(PlOf(SymbolRows(from, to, s)))
    BY SymbolsAddUp
  <1> DEFINE S == InRange(from, to)
             R == {r \in S : r.cols.sym = s}
             J == R \X (1 .. 1)
             f == [r \in R |-> <<r, 1>>]
             C == [j \in J |-> Pl(j[1])]
             F == PlOf(R)
  <1>1. \E r \in S : s = r.cols.sym
    BY DEF SymbolSummary
  <1>2. LiveBrands[s] \in Nat
    <2>1. PICK r \in S : s = r.cols.sym
      BY <1>1
    <2>2. IsLine(r.cols)
      BY RangesAreFinite
    <2>3. QED
      BY <2>1, <2>2, JournalAssumption DEF IsLine, TradeSymbols
  <1>3. Max({1, LiveBrands[s]}) = 1
    <2> DEFINE n == LiveBrands[s]
    <2>1. n \in Int /\ n <= 1
      BY <1>2
    <2> HIDE DEF n
    <2>2. Max({1, n}) \in {1, n} /\ Max({1, n}) >= 1
      BY <2>1, ExtremesOfTwo
    <2>3. Max({1, n}) = 1
      BY <2>1, <2>2
    <2>4. QED
      BY <2>3 DEF n
  <1>4. JoinedOnSymbol(from, to, s) = J
    BY <1>3 DEF JoinedOnSymbol
  <1>5. SymbolSummary(from, to)[s].pl = SumFunction(C)
    BY <1>1, <1>4 DEF SymbolSummary
  <1>6. Pairs(f, R, J)
    <2>1. f \in [R -> J] /\ \A r \in R : f[r] = <<r, 1>>
      OBVIOUS
    <2>2. \A j \in J : j[1] \in R /\ f[j[1]] = j
      OBVIOUS
    <2>3. \A x, y \in R : f[x] = f[y] => x = y
      OBVIOUS
    <2>4. QED
      BY <2>1, <2>2, <2>3 DEF Pairs
  <1>7. AreRows(R) /\ F \in [R -> Int]
    <2>1. AreRows(S) /\ R \in SUBSET S
      BY RangesAreFinite DEF AreRows
    <2> HIDE DEF R, S
    <2>2. QED
      BY <2>1, ResultsAreNumbers
  <1>8. DOMAIN C = J /\ \A r \in R : C[f[r]] = F[r]
    BY DEF PlOf
  <1>9. IsFiniteSet(R)
    BY <1>7 DEF AreRows
  <1>10. SymbolPl(Trades(from, to), s) = SumFunction(PlOf(R))
    BY <1>0 DEF SymbolRows
  <1> HIDE DEF C, F, f, J, R
  <1>11. SumFunction(C) = SumFunction(F)
    BY <1>6, <1>7, <1>8, <1>9, SumOfPairs
  <1>12. QED
    BY <1>5, <1>10, <1>11 DEF F

\* The symbols traded at a loss lose no less than the whole.
LEMMA TrapsLose ==
    ASSUME JournalType, NEW from, NEW to, NEW traps \in FavoriteTraps(Trades(from, to))
    PROVE  SumFunction([i \in DOMAIN traps |-> SymbolPl(Trades(from, to), traps[i])])
               <= Overall(from, to).pl
  <1> DEFINE T == Trades(from, to)
             Y == {t.key.sym : t \in T}
             A == {s \in Y : SymbolPl(T, s) < 0}
             H == [s \in Y |-> SymbolPl(T, s)]
             F == [i \in DOMAIN traps |-> SymbolPl(T, traps[i])]
             K == 1 .. Cardinality(A)
             C == [s \in A |-> H[s]]
             B == Y \ A
             g == [t \in T |-> t.key.sym]
             V == [t \in T |-> t.pl]
  <1>1. traps \in Bijection(K, A)
    BY DEF FavoriteTraps, Arrangements
  <1>2. Pairs(traps, K, A) /\ DOMAIN traps = K
    BY <1>1 DEF Bijection, Injection, IsInjective, Surjection, Pairs
  <1>3. IsFiniteSet(T) /\ V \in [T -> Int]
    BY TradesAreGroups
  <1>4. H \in [Y -> Int] /\ SumFunction(V) = Overall(from, to).pl
    BY SymbolsAddUp
  <1>5. \A s \in Y : H[s] = PartialSum(V, {t \in T : g[t] = s})
    <2>1. ASSUME NEW s \in Y
          PROVE  H[s] = PartialSum(V, {t \in T : g[t] = s})
      <3> DEFINE U == SymbolTrades(T, s)
      <3>1. U = {t \in T : g[t] = s}
        BY DEF SymbolTrades
      <3>2. [t \in U |-> V[t]] = [t \in U |-> t.pl]
        BY <3>1
      <3>3. H[s] = SumFunction([t \in U |-> t.pl])
        BY DEF SymbolPl
      <3> HIDE DEF H, U, V
      <3>4. QED
        BY <3>1, <3>2, <3>3 DEF PartialSum
    <2>2. QED
      BY <2>1
  <1>6. Y = {g[t] : t \in T} /\ g \in [T -> Y]
    OBVIOUS
  <1>7. \A i \in K : F[i] = C[traps[i]] /\ F[i] \in Int
    BY <1>2, <1>4 DEF Pairs
  <1>8. F \in [K -> Int] /\ DOMAIN C = A /\ DOMAIN H = Y
    BY <1>2, <1>7
  <1>9. A \in SUBSET Y /\ B \in SUBSET Y /\ A \cap B = {} /\ A \cup B = Y
    OBVIOUS
  <1>9a. (\A s \in B : H[s] >= 0) /\ H \in [Y -> Int]
    BY <1>4
  <1> HIDE DEF T, Y, A, H, F, C, B, g, V
  <1>10. IsFiniteSet(Y)
    BY <1>3, <1>6, ValuesAreFinite
  <1>11. IsFiniteSet(A) /\ IsFiniteSet(B)
    BY <1>9, <1>10, FS_Subset
  <1> HIDE DEF K
  <1>12. SumFunction(H) = SumFunction(V)
    BY <1>3, <1>5, <1>6, <1>8, <1>10, SumOfClasses
  <1>13. SumFunction(C) = SumFunction(F)
    BY <1>2, <1>7, <1>8, <1>11, SumOfPairs
  <1>14. PartialSum(H, A) = SumFunction(C)
    BY DEF PartialSum, C
  <1>15. PartialSum(H, B) >= 0
    <2> DEFINE P == [s \in B |-> H[s]]
    <2>1. P \in [B -> Int] /\ \A s \in B : P[s] >= 0
      BY <1>9, <1>9a
    <2> HIDE DEF P
    <2>2. SumFunction(P) >= 0
      BY <1>11, <2>1, SumOfOneSign
    <2>3. QED
      BY <2>2 DEF PartialSum, P
  <1>16. /\ PartialSum(H, A \cup B) = PartialSum(H, A) + PartialSum(H, B)
         /\ PartialSum(H, A) \in Int /\ PartialSum(H, B) \in Int
    BY <1>9, <1>9a, <1>10, SumOfTwoParts
  <1>17. PartialSum(H, Y) = SumFunction(H)
    BY <1>9a DEF PartialSum
  <1>18. PartialSum(H, Y) = PartialSum(H, A) + PartialSum(H, B)
    BY <1>9, <1>16
  <1>18a. SumFunction(F) <= SumFunction(V)
    BY <1>12, <1>13, <1>14, <1>15, <1>16, <1>17, <1>18
  <1>19. QED
    BY <1>4, <1>18a DEF F, T

-----------------------------------------------------------------------------
(* Equity *)

\* The largest member of a set of numbers is the one its Max is.
LEMMA LargestIs ==
    ASSUME NEW V, V \subseteq Int, NEW x \in V, \A y \in V : y <= x
    PROVE  Max(V) = x
  <1>1. \E z \in V : \A y \in V : z >= y
    OBVIOUS
  <1>2. Max(V) \in V /\ \A y \in V : Max(V) >= y
    <2> DEFINE m == CHOOSE z \in V : \A y \in V : z >= y
    <2>1. m \in V /\ \A y \in V : m >= y
      BY <1>1
    <2>2. QED
      BY <2>1 DEF Max
  <1> DEFINE m == Max(V)
  <1>3. m \in Int /\ x \in Int /\ m <= x /\ x <= m
    BY <1>2
  <1> HIDE DEF m
  <1>4. m = x
    BY <1>3
  <1>5. QED
    BY <1>4 DEF m

\* m is the largest value of v so far, at each of the places 0 to n.
IsRunningMax(m, v, n) ==
    /\ v \in [0 .. n -> Int] /\ m \in [0 .. n -> Int] /\ m[0] = v[0]
    /\ \A k \in 1 .. n :
           (m[k] = m[k - 1] \/ m[k] = v[k]) /\ m[k] >= m[k - 1] /\ m[k] >= v[k]

LEMMA RunningMaxIsLargest ==
    ASSUME NEW n \in Nat, NEW v, NEW m, IsRunningMax(m, v, n)
    PROVE  \A k \in 0 .. n : /\ \A i \in 0 .. k : v[i] <= m[k]
                             /\ \E i \in 0 .. k : v[i] = m[k]
  <1> DEFINE Good(k) == /\ \A i \in 0 .. k : v[i] <= m[k]
                        /\ \E i \in 0 .. k : v[i] = m[k]
             Bad == {k \in 0 .. n : ~Good(k)}
  <1> SUFFICES ASSUME Bad # {} PROVE FALSE
    OBVIOUS
  <1>1. Bad \subseteq Nat
    OBVIOUS
  <1>2. PICK k \in Bad : \A j \in Bad : k <= j
    <2> HIDE DEF Bad
    <2>1. QED
      BY <1>1, LeastNatural
  <1>3. k \in 0 .. n /\ ~Good(k)
    BY <1>2
  <1>4. k # 0
    <2>1. Good(0)
      BY DEF IsRunningMax
    <2>2. QED
      BY <1>3, <2>1
  <1>5. k \in 1 .. n /\ k - 1 \in 0 .. n /\ Good(k - 1)
    <2>1. k - 1 \in 0 .. n /\ k - 1 \notin Bad
      BY <1>1, <1>2, <1>3, <1>4
    <2>2. QED
      BY <1>3, <1>4, <2>1
  <1>6. /\ m[k] \in Int /\ m[k - 1] \in Int /\ \A i \in 0 .. k : v[i] \in Int
        /\ (m[k] = m[k - 1] \/ m[k] = v[k]) /\ m[k] >= m[k - 1] /\ m[k] >= v[k]
    BY <1>5 DEF IsRunningMax
  <1>7. \A i \in 0 .. k : i = k \/ i \in 0 .. k - 1
    BY <1>5
  <1>8. \A i \in 0 .. k : v[i] <= m[k]
    <2>1. TAKE i \in 0 .. k
    <2>2. CASE i = k
      BY <1>6, <2>2
    <2>3. CASE i \in 0 .. k - 1
      <3>1. v[i] <= m[k - 1]
        BY <1>5, <2>3
      <3>2. QED
        BY <1>6, <3>1
    <2>4. QED
      BY <1>7, <2>2, <2>3
  <1>9. \E i \in 0 .. k : v[i] = m[k]
    <2>1. CASE m[k] = v[k]
      BY <1>5, <2>1
    <2>2. CASE m[k] = m[k - 1]
      <3>1. PICK i \in 0 .. k - 1 : v[i] = m[k - 1]
        BY <1>5
      <3>2. i \in 0 .. k
        BY <1>5
      <3>3. QED
        BY <2>2, <3>1, <3>2
    <2>3. QED
      BY <1>6, <2>1, <2>2
  <1>10. QED
    BY <1>3, <1>8, <1>9

LEMMA RunningMaxByMax ==
    ASSUME NEW n \in Nat, NEW v \in [0 .. n -> Int], NEW m \in [0 .. n -> Int], m[0] = v[0],
           \A k \in 1 .. n : m[k] = Max({m[k - 1], v[k]})
    PROVE  IsRunningMax(m, v, n)
  <1>1. ASSUME NEW k \in 1 .. n
        PROVE  (m[k] = m[k - 1] \/ m[k] = v[k]) /\ m[k] >= m[k - 1] /\ m[k] >= v[k]
    <2> DEFINE x == m[k - 1]
               y == v[k]
    <2>1. x \in Int /\ y \in Int /\ m[k] = Max({x, y})
      OBVIOUS
    <2> HIDE DEF x, y
    <2>2. (m[k] = x \/ m[k] = y) /\ m[k] >= x /\ m[k] >= y
      BY <2>1, ExtremesOfTwo
    <2>3. QED
      BY <2>2 DEF x, y
  <1>2. QED
    BY <1>1 DEF IsRunningMax

\* The least of two numbers is the negated largest of the negated ones.
LEMMA NegatedExtremes ==
    ASSUME NEW a \in Int, NEW b \in Int
    PROVE  -Min({a, b}) = Max({-a, -b})
  <1> DEFINE x == Min({a, b})
             y == Max({-a, -b})
  <1>1. (x = a \/ x = b) /\ x <= a /\ x <= b
    BY ExtremesOfTwo
  <1>2. (y = -a \/ y = -b) /\ y >= -a /\ y >= -b
    <2> DEFINE p == -a
               q == -b
    <2>1. p \in Int /\ q \in Int
      OBVIOUS
    <2> HIDE DEF p, q
    <2>2. LET z == Max({p, q}) IN (z = p \/ z = q) /\ z >= p /\ z >= q
      BY <2>1, ExtremesOfTwo
    <2>3. QED
      BY <2>2 DEF p, q
  <1> HIDE DEF x, y
  <1>3. -x = y
    BY <1>1, <1>2
  <1>4. QED
    BY <1>3 DEF x, y

\* s is the length of the run of places in L that ends at each place.
IsRunLength(s, L, n) ==
    /\ s \in [0 .. n -> Nat] /\ s[0] = 0
    /\ \A k \in 1 .. n : s[k] = IF k \in L THEN s[k - 1] + 1 ELSE 0

LEMMA RunLengthIsExact ==
    ASSUME NEW n \in Nat, NEW s, NEW L, IsRunLength(s, L, n)
    PROVE  \A k \in 0 .. n : /\ s[k] <= k
                             /\ \A j \in k - s[k] + 1 .. k : j \in L
                             /\ s[k] < k => k - s[k] \notin L
  <1> DEFINE Good(k) == /\ s[k] <= k
                        /\ \A j \in k - s[k] + 1 .. k : j \in L
                        /\ s[k] < k => k - s[k] \notin L
             Bad == {k \in 0 .. n : ~Good(k)}
  <1> SUFFICES ASSUME Bad # {} PROVE FALSE
    OBVIOUS
  <1>1. Bad \subseteq Nat
    OBVIOUS
  <1>2. PICK k \in Bad : \A j \in Bad : k <= j
    <2> HIDE DEF Bad
    <2>1. QED
      BY <1>1, LeastNatural
  <1>3. k \in 0 .. n /\ ~Good(k)
    BY <1>2
  <1>4. k # 0
    <2>1. Good(0)
      BY DEF IsRunLength
    <2>2. QED
      BY <1>3, <2>1
  <1>5. k \in 1 .. n /\ k - 1 \in 0 .. n /\ Good(k - 1)
    <2>1. k - 1 \in 0 .. n /\ k - 1 \notin Bad
      BY <1>1, <1>2, <1>3, <1>4
    <2>2. QED
      BY <1>3, <1>4, <2>1
  <1>6. s[k] \in Nat /\ s[k - 1] \in Nat /\ s[k] = IF k \in L THEN s[k - 1] + 1 ELSE 0
    BY <1>5 DEF IsRunLength
  <1>7. CASE k \in L
    <2>1. s[k] = s[k - 1] + 1 /\ k - s[k] = (k - 1) - s[k - 1]
      BY <1>5, <1>6, <1>7
    <2>2. \A j \in k - s[k] + 1 .. k : j \in L
      <3>1. TAKE j \in k - s[k] + 1 .. k
      <3>2. j = k \/ j \in (k - 1) - s[k - 1] + 1 .. k - 1
        BY <1>5, <2>1
      <3>3. QED
        BY <1>5, <1>7, <3>2
    <2>3. Good(k)
      BY <1>5, <1>6, <2>1, <2>2
    <2>4. QED
      BY <1>3, <2>3
  <1>8. CASE k \notin L
    BY <1>3, <1>5, <1>6, <1>8
  <1>9. QED
    BY <1>7, <1>8

\* The points of an equity curve over the results of n days.
EquityPoints ==
    [cum : Int, peak : Int, trough : Int, streak : Nat, down : Int, up : Int, worst : Int]

LEMMA EquityStepType ==
    ASSUME NEW a \in EquityPoints, NEW b, b.pl \in Int
    PROVE  LET e == EquityStep(a, b) IN
           /\ e \in EquityPoints
           /\ e.cum = a.cum + b.pl
           /\ e.streak = IF b.pl < 0 THEN a.streak + 1 ELSE 0
           /\ e.peak = Max({a.peak, e.cum}) /\ e.trough = Min({a.trough, e.cum})
           /\ e.down = Max({a.down, e.peak - e.cum}) /\ e.up = Max({a.up, e.cum - e.trough})
           /\ e.worst = Max({a.worst, e.streak})
  <1> DEFINE c == a.cum + b.pl
             peak == Max({a.peak, c})
             trough == Min({a.trough, c})
             streak == IF b.pl < 0 THEN a.streak + 1 ELSE 0
             down == Max({a.down, peak - c})
             up == Max({a.up, c - trough})
             worst == Max({a.worst, streak})
  <1>1. /\ a.cum \in Int /\ a.peak \in Int /\ a.trough \in Int /\ a.streak \in Nat
        /\ a.down \in Int /\ a.up \in Int /\ a.worst \in Int
    BY DEF EquityPoints
  <1>2. c \in Int /\ streak \in Nat
    BY <1>1
  <1>3. EquityStep(a, b) = [cum |-> c, peak |-> peak, trough |-> trough, streak |-> streak,
                            down |-> down, up |-> up, worst |-> worst]
    BY DEF EquityStep
  <1> HIDE DEF c, streak
  <1>4. peak \in Int /\ trough \in Int
    BY <1>1, <1>2, ExtremesOfTwo
  <1> HIDE DEF peak, trough
  <1>5. down \in Int /\ up \in Int /\ worst \in Int
    <2>1. peak - c \in Int /\ c - trough \in Int /\ streak \in Int
      BY <1>2, <1>4
    <2>2. QED
      BY <1>1, <2>1, ExtremesOfTwo
  <1> HIDE DEF down, up, worst
  <1>6. EquityStep(a, b) \in EquityPoints
    BY <1>2, <1>3, <1>4, <1>5 DEF EquityPoints
  <1>7. QED
    BY <1>3, <1>6 DEF c, peak, trough, streak, down, up, worst

IsCurve(e, daily, n) ==
    /\ e \in [0 .. n -> EquityPoints]
    /\ e[0] = EquityStart
    /\ \A k \in 1 .. n : e[k] = EquityStep(e[k - 1], daily[k])

\* A step of the curve, from point a to point x on a day with the result b.
IsStep(a, b, x) ==
    /\ a \in EquityPoints /\ x \in EquityPoints /\ b.pl \in Int
    /\ x.cum = a.cum + b.pl
    /\ x.streak = IF b.pl < 0 THEN a.streak + 1 ELSE 0
    /\ x.peak = Max({a.peak, x.cum}) /\ x.trough = Min({a.trough, x.cum})
    /\ x.down = Max({a.down, x.peak - x.cum}) /\ x.up = Max({a.up, x.cum - x.trough})
    /\ x.worst = Max({a.worst, x.streak})

LEMMA CurveStep ==
    ASSUME NEW n \in Nat, NEW daily, \A k \in 1 .. n : daily[k].pl \in Int,
           NEW e, IsCurve(e, daily, n)
    PROVE  \A k \in 1 .. n : IsStep(e[k - 1], daily[k], e[k])
  <1> TAKE k \in 1 .. n
  <1> DEFINE a == e[k - 1]
             b == daily[k]
             x == e[k]
  <1>1. k - 1 \in 0 .. n /\ k \in 0 .. n
    OBVIOUS
  <1>2. a \in EquityPoints /\ x = EquityStep(a, b) /\ b.pl \in Int
    BY <1>1 DEF IsCurve
  <1> HIDE DEF a, b, x
  <1>3. /\ x \in EquityPoints
        /\ x.cum = a.cum + b.pl
        /\ x.streak = IF b.pl < 0 THEN a.streak + 1 ELSE 0
        /\ x.peak = Max({a.peak, x.cum}) /\ x.trough = Min({a.trough, x.cum})
        /\ x.down = Max({a.down, x.peak - x.cum}) /\ x.up = Max({a.up, x.cum - x.trough})
        /\ x.worst = Max({a.worst, x.streak})
    BY <1>2, EquityStepType
  <1>4. QED
    BY <1>2, <1>3 DEF a, b, x, IsStep

\* The days are folded in their order.
LEMMA CurveOfDays ==
    ASSUME NEW n \in Nat, NEW daily, DOMAIN daily = 1 .. n, \A k \in 1 .. n : daily[k].pl \in Int
    PROVE  \E e : IsCurve(e, daily, n) /\ EquityStats(daily) = e[n]
  <1> DEFINE Step(g, s) == EquityStep(g[s \ {Max(s)}], daily[Max(s)])
             fold == CHOOSE g : g = [s \in SUBSET DOMAIN daily |->
                                        IF s = {} THEN EquityStart ELSE Step(g, s)]
             F == [p \in EquityPoints \X (1 .. n) |-> EquityStep(p[1], daily[p[2]])]
  <1>1. EquityStats(daily) = fold[DOMAIN daily]
    BY DEF EquityStats, FoldLeft, MapThenFoldSet
  <1>2. EquityStart \in EquityPoints
    BY DEF EquityStart, EquityPoints
  <1>3. F \in [EquityPoints \X (1 .. n) -> EquityPoints]
    <2>1. SUFFICES ASSUME NEW p \in EquityPoints \X (1 .. n)
                   PROVE  EquityStep(p[1], daily[p[2]]) \in EquityPoints
      OBVIOUS
    <2>2. p[1] \in EquityPoints /\ daily[p[2]].pl \in Int
      OBVIOUS
    <2>3. QED
      BY <2>2, EquityStepType
  <1>4. PICK g \in [SUBSET (1 .. n) -> EquityPoints] : IsFold(g, n, EquityStart, F)
    <2> HIDE DEF F
    <2>1. QED
      BY <1>2, <1>3, FoldsExist
  <1>5. \A s \in SUBSET (1 .. n) : s # {} => F[<<g[s \ {Max(s)}], Max(s)>>] = Step(g, s)
    <2>1. TAKE s \in SUBSET (1 .. n)
    <2>2. HAVE s # {}
    <2>3. Max(s) \in 1 .. n
      BY <2>1, <2>2, LargestMember
    <2>4. g[s \ {Max(s)}] \in EquityPoints
      BY <2>1
    <2>5. QED
      BY <2>3, <2>4
  <1>6. g = [s \in SUBSET DOMAIN daily |-> IF s = {} THEN EquityStart ELSE Step(g, s)]
    BY <1>4, <1>5 DEF IsFold
  <1>7. fold = [s \in SUBSET DOMAIN daily |-> IF s = {} THEN EquityStart ELSE Step(fold, s)]
    BY <1>6
  <1> HIDE DEF fold, F
  <1>8. fold[{}] = EquityStart
    BY <1>7
  <1>9. ASSUME NEW k \in 1 .. n
        PROVE  fold[1 .. k] = EquityStep(fold[1 .. k - 1], daily[k])
    <2>1. Max(1 .. k) = k /\ (1 .. k) \ {k} = 1 .. k - 1
      BY FirstPositions
    <2>2. 1 .. k \in SUBSET DOMAIN daily /\ 1 .. k # {}
      <3>1. k \in 1 .. k /\ 1 .. k \subseteq 1 .. n
        OBVIOUS
      <3>2. QED
        BY <3>1
    <2>3. fold[1 .. k] = Step(fold, 1 .. k)
      BY <1>7, <2>2
    <2>4. QED
      BY <2>1, <2>3
  <1> DEFINE e == [k \in 0 .. n |-> fold[1 .. k]]
             Bad == {k \in 0 .. n : e[k] \notin EquityPoints}
  <1>10. e[0] = EquityStart
    <2>1. 1 .. 0 = {}
      OBVIOUS
    <2>2. QED
      BY <1>8, <2>1
  <1>11. \A k \in 1 .. n : e[k] = EquityStep(e[k - 1], daily[k])
    BY <1>9
  <1>12. EquityStats(daily) = e[n]
    BY <1>1
  <1>13. DOMAIN e = 0 .. n /\ e = [k \in 0 .. n |-> e[k]]
    OBVIOUS
  <1> HIDE DEF e
  <1>14. Bad = {}
    <2> SUFFICES ASSUME Bad # {} PROVE FALSE
      OBVIOUS
    <2>1. Bad \subseteq Nat
      OBVIOUS
    <2> HIDE DEF Bad
    <2>2. PICK k \in Bad : \A m \in Bad : k <= m
      BY <2>1, LeastNatural
    <2>3. k \in 0 .. n /\ e[k] \notin EquityPoints
      BY DEF Bad
    <2>4. k # 0
      BY <1>2, <1>10, <2>3
    <2>5. k \in 1 .. n /\ k - 1 \in 0 .. n /\ k - 1 \notin Bad
      BY <2>1, <2>2, <2>3, <2>4
    <2>6. e[k - 1] \in EquityPoints
      BY <2>5 DEF Bad
    <2>7. daily[k].pl \in Int
      BY <2>5
    <2>8. EquityStep(e[k - 1], daily[k]) \in EquityPoints
      BY <2>6, <2>7, EquityStepType
    <2>9. QED
      BY <1>11, <2>3, <2>5, <2>8
  <1>15. IsCurve(e, daily, n)
    <2>1. \A k \in 0 .. n : e[k] \in EquityPoints
      BY <1>14
    <2>2. e \in [0 .. n -> EquityPoints]
      BY <1>13, <2>1
    <2>3. QED
      BY <1>10, <1>11, <2>2 DEF IsCurve
  <1>16. QED
    BY <1>12, <1>15

\* The sum of the results of the first k days.
SumTo(daily, k) == SumFunction([i \in 1 .. k |-> daily[i].pl])

LEMMA CurveIsCumulative ==
    ASSUME NEW n \in Nat, NEW daily, DOMAIN daily = 1 .. n, \A k \in 1 .. n : daily[k].pl \in Int,
           NEW e, IsCurve(e, daily, n)
    PROVE  \A k \in 0 .. n : e[k].cum = SumTo(daily, k)
  <1>0. \A k \in 1 .. n : IsStep(e[k - 1], daily[k], e[k])
    BY CurveStep
  <1> DEFINE P == [i \in 1 .. n |-> daily[i].pl]
             Bad == {k \in 0 .. n : e[k].cum # SumTo(daily, k)}
  <1>1. ASSUME NEW k \in 0 .. n
        PROVE  SumTo(daily, k) = PartialSum(P, 1 .. k)
    <2>1. [i \in 1 .. k |-> daily[i].pl] = [i \in 1 .. k |-> P[i]]
      OBVIOUS
    <2>2. QED
      BY <2>1 DEF SumTo, PartialSum
  <1> SUFFICES ASSUME Bad # {} PROVE FALSE
    OBVIOUS
  <1>2. Bad \subseteq Nat
    OBVIOUS
  <1>3. PICK k \in Bad : \A m \in Bad : k <= m
    <2> HIDE DEF Bad
    <2>1. QED
      BY <1>2, LeastNatural
  <1>4. k \in 0 .. n /\ e[k].cum # SumTo(daily, k)
    BY <1>3
  <1>5. k # 0
    <2>1. SumTo(daily, 0) = 0
      <3>1. 1 .. 0 = {} /\ 0 \in 0 .. n
        OBVIOUS
      <3>2. SumTo(daily, 0) = PartialSum(P, {})
        BY <1>1, <3>1
      <3> HIDE DEF P
      <3>3. QED
        BY <3>2, SumOfOne
    <2>2. e[0].cum = 0
      BY DEF IsCurve, EquityStart
    <2>3. QED
      BY <1>4, <2>1, <2>2
  <1>6. k \in 1 .. n /\ k - 1 \in 0 .. n /\ k - 1 \notin Bad
    BY <1>2, <1>3, <1>4, <1>5
  <1>7. e[k - 1].cum = SumTo(daily, k - 1)
    BY <1>6
  <1>8. e[k].cum = e[k - 1].cum + P[k]
    <2>1. e[k].cum = e[k - 1].cum + daily[k].pl
      BY <1>0, <1>6 DEF IsStep
    <2>2. QED
      BY <1>6, <2>1
  <1>9. PartialSum(P, 1 .. k) = PartialSum(P, 1 .. k - 1) + P[k]
    <2> DEFINE A == 1 .. k - 1
               S == 1 .. n
    <2>1. A \in SUBSET S /\ {k} \in SUBSET S /\ A \cap {k} = {} /\ A \cup {k} = 1 .. k
      BY <1>6
    <2>2. P \in [S -> Int] /\ P[k] \in Int
      BY <1>6
    <2>2a. IsFiniteSet(S)
      BY FS_Interval
    <2> DEFINE B == {k}
    <2> HIDE DEF A, B, S, P
    <2>2b. A \in SUBSET S /\ B \in SUBSET S /\ A \cap B = {}
      BY <2>1 DEF B
    <2>2c. PartialSum(P, A \cup B) = PartialSum(P, A) + PartialSum(P, B)
      BY <2>2, <2>2a, <2>2b, SumOfTwoParts
    <2>3. PartialSum(P, A \cup {k}) = PartialSum(P, A) + PartialSum(P, {k})
      BY <2>2c DEF B
    <2>4. PartialSum(P, {k}) = P[k]
      BY <2>2, SumOfOne
    <2>5. QED
      BY <2>1, <2>3, <2>4 DEF A
  <1>10. SumTo(daily, k) = SumTo(daily, k - 1) + P[k]
    BY <1>1, <1>4, <1>6, <1>9
  <1> HIDE DEF P
  <1>11. QED
    BY <1>4, <1>7, <1>8, <1>10

\* What the equity statistics of n days are, by their definition.
IsExtremal(stats, daily, n) ==
    LET spans == {p \in (0 .. n) \X (0 .. n) : p[1] <= p[2]}
    IN  /\ stats.down = Max({SumTo(daily, p[1]) - SumTo(daily, p[2]) : p \in spans})
        /\ stats.up = Max({SumTo(daily, p[2]) - SumTo(daily, p[1]) : p \in spans})
        /\ stats.worst = Max({0} \cup
               {p[2] - p[1] : p \in {q \in spans :
                    \A k \in q[1] + 1 .. q[2] : daily[k].pl < 0}})

LEMMA CurveIsExtremal ==
    ASSUME NEW n \in Nat, NEW daily, DOMAIN daily = 1 .. n, \A k \in 1 .. n : daily[k].pl \in Int,
           NEW e, IsCurve(e, daily, n)
    PROVE  /\ IsExtremal(e[n], daily, n)
           /\ \A k \in 1 .. n : -daily[k].pl <= e[n].down
  <1>0. \A k \in 1 .. n : IsStep(e[k - 1], daily[k], e[k])
    BY CurveStep
  <1> DEFINE N == 0 .. n
             c == [k \in N |-> e[k].cum]
             peak == [k \in N |-> e[k].peak]
             trough == [k \in N |-> -e[k].trough]
             down == [k \in N |-> e[k].down]
             up == [k \in N |-> e[k].up]
             streak == [k \in N |-> e[k].streak]
             worst == [k \in N |-> e[k].worst]
             minus == [k \in N |-> -c[k]]
             fall == [k \in N |-> peak[k] - c[k]]
             climb == [k \in N |-> c[k] + trough[k]]
             L == {k \in 1 .. n : daily[k].pl < 0}
             spans == {p \in N \X N : p[1] <= p[2]}
             runs == {q \in spans : \A k \in q[1] + 1 .. q[2] : daily[k].pl < 0}
  <1>1. \A k \in N : /\ e[k].cum \in Int /\ e[k].peak \in Int /\ e[k].trough \in Int
                     /\ e[k].streak \in Nat /\ e[k].down \in Int /\ e[k].up \in Int
                     /\ e[k].worst \in Int
    BY DEF IsCurve, EquityPoints
  <1>3. e[0].cum = 0 /\ e[0].peak = 0 /\ e[0].trough = 0 /\ e[0].streak = 0
        /\ e[0].down = 0 /\ e[0].up = 0 /\ e[0].worst = 0
    BY DEF IsCurve, EquityStart
  <1>4. n \in N /\ 0 \in N /\ \A k \in 1 .. n : k \in N /\ k - 1 \in N
    OBVIOUS
  <1>2. /\ c \in [N -> Int] /\ peak \in [N -> Int] /\ trough \in [N -> Int]
        /\ down \in [N -> Int] /\ up \in [N -> Int] /\ worst \in [N -> Int]
        /\ streak \in [N -> Nat]
    BY <1>1
  <1>2a. /\ minus \in [N -> Int] /\ fall \in [N -> Int] /\ climb \in [N -> Int]
         /\ streak \in [N -> Int]
    BY <1>1, <1>2
  <1>2b. /\ peak[0] = c[0] /\ trough[0] = minus[0] /\ down[0] = fall[0]
         /\ up[0] = climb[0] /\ worst[0] = streak[0] /\ streak[0] = 0
    BY <1>3, <1>4
  <1>5. IsRunningMax(peak, c, n)
    <2>1. \A k \in 1 .. n : peak[k] = Max({peak[k - 1], c[k]})
      BY <1>0, <1>4 DEF IsStep
    <2> HIDE DEF peak, c
    <2>2. QED
      BY <1>2, <1>2b, <2>1, RunningMaxByMax
  <1>6. IsRunningMax(trough, minus, n)
    <2>1. \A k \in 1 .. n : trough[k] = Max({trough[k - 1], minus[k]})
      <3>1. TAKE k \in 1 .. n
      <3> DEFINE x == e[k - 1].trough
                 y == e[k].cum
                 z == e[k].trough
      <3>2. x \in Int /\ y \in Int /\ z = Min({x, y})
        BY <1>0, <1>1, <1>4 DEF IsStep
      <3>3. trough[k] = -z /\ trough[k - 1] = -x /\ minus[k] = -y
        BY <1>4
      <3> HIDE DEF x, y, z, trough, minus
      <3>4. -z = Max({-x, -y})
        BY <3>2, NegatedExtremes
      <3>5. QED
        BY <3>3, <3>4
    <2> HIDE DEF trough, minus
    <2>2. QED
      BY <1>2, <1>2a, <1>2b, <2>1, RunningMaxByMax
  <1>7. IsRunningMax(down, fall, n)
    <2>1. \A k \in 1 .. n : down[k] = Max({down[k - 1], fall[k]})
      BY <1>0, <1>4 DEF IsStep
    <2> HIDE DEF down, fall
    <2>2. QED
      BY <1>2, <1>2a, <1>2b, <2>1, RunningMaxByMax
  <1>8. IsRunningMax(up, climb, n)
    <2>1. \A k \in 1 .. n : up[k] = Max({up[k - 1], climb[k]})
      <3>1. TAKE k \in 1 .. n
      <3>2. e[k].up = Max({e[k - 1].up, e[k].cum - e[k].trough})
        BY <1>0 DEF IsStep
      <3>3. climb[k] = e[k].cum - e[k].trough
        BY <1>1, <1>4
      <3>4. QED
        BY <1>4, <3>2, <3>3
    <2> HIDE DEF up, climb
    <2>2. QED
      BY <1>2, <1>2a, <1>2b, <2>1, RunningMaxByMax
  <1>9. IsRunningMax(worst, streak, n)
    <2>1. \A k \in 1 .. n : worst[k] = Max({worst[k - 1], streak[k]})
      BY <1>0, <1>4 DEF IsStep
    <2> HIDE DEF worst, streak
    <2>2. QED
      BY <1>2, <1>2a, <1>2b, <2>1, RunningMaxByMax
  <1>10. IsRunLength(streak, L, n)
    <2>1. ASSUME NEW k \in 1 .. n
          PROVE  streak[k] = IF k \in L THEN streak[k - 1] + 1 ELSE 0
      <3>1. e[k].streak = IF daily[k].pl < 0 THEN e[k - 1].streak + 1 ELSE 0
        BY <1>0 DEF IsStep
      <3>2. QED
        BY <1>4, <3>1
    <2> HIDE DEF streak, L
    <2>2. QED
      BY <1>2, <1>2b, <2>1 DEF IsRunLength
  <1>11. /\ c \in [N -> Int] /\ peak \in [N -> Int] /\ trough \in [N -> Int]
         /\ streak \in [N -> Nat]
         /\ \A k \in N : fall[k] = peak[k] - c[k] /\ climb[k] = c[k] + trough[k]
                         /\ minus[k] = -c[k]
         /\ e[n].down = down[n] /\ e[n].up = up[n] /\ e[n].worst = worst[n]
         /\ down[n] \in Int /\ up[n] \in Int /\ worst[n] \in Int
    BY <1>1, <1>4
  <1>12. \A k \in N : SumTo(daily, k) = c[k]
    BY CurveIsCumulative
  <1> HIDE DEF c, peak, trough, down, up, streak, worst, minus, fall, climb
  <1>13. \A k \in N : /\ \A i \in 0 .. k : c[i] <= peak[k]
                      /\ \E i \in 0 .. k : c[i] = peak[k]
    BY <1>5, RunningMaxIsLargest
  <1>14. \A k \in N : /\ \A i \in 0 .. k : minus[i] <= trough[k]
                      /\ \E i \in 0 .. k : minus[i] = trough[k]
    BY <1>6, RunningMaxIsLargest
  <1>15. /\ e[n].down = Max({SumTo(daily, p[1]) - SumTo(daily, p[2]) : p \in spans})
         /\ \A p \in spans : SumTo(daily, p[1]) - SumTo(daily, p[2]) <= e[n].down
    <2> DEFINE V == {SumTo(daily, p[1]) - SumTo(daily, p[2]) : p \in spans}
    <2>1. V \subseteq Int
      <3>1. \A k \in N : SumTo(daily, k) \in Int
        BY <1>11, <1>12
      <3>2. QED
        BY <3>1
    <2>2. down[n] \in V
      <3>1. PICK j \in N : fall[j] = down[n]
        BY <1>4, <1>7, RunningMaxIsLargest
      <3>2. PICK i \in 0 .. j : c[i] = peak[j]
        BY <1>13
      <3>3. i \in N /\ i <= j
        OBVIOUS
      <3>4. <<i, j>> \in spans
        BY <3>3
      <3>5. down[n] = SumTo(daily, i) - SumTo(daily, j)
        BY <1>11, <1>12, <3>1, <3>2, <3>3
      <3>6. QED
        BY <3>4, <3>5
    <2>3. \A y \in V : y <= down[n]
      <3>1. TAKE y \in V
      <3>2. PICK p \in spans : y = SumTo(daily, p[1]) - SumTo(daily, p[2])
        OBVIOUS
      <3>3. p[1] \in N /\ p[2] \in N /\ p[1] \in 0 .. p[2]
        OBVIOUS
      <3>4. fall[p[2]] <= down[n]
        BY <1>4, <1>7, <3>3, RunningMaxIsLargest
      <3>5. c[p[1]] <= peak[p[2]]
        BY <1>13, <3>3
      <3>6. /\ y = c[p[1]] - c[p[2]] /\ fall[p[2]] = peak[p[2]] - c[p[2]]
            /\ c[p[1]] \in Int /\ c[p[2]] \in Int /\ peak[p[2]] \in Int /\ down[n] \in Int
        BY <1>11, <1>12, <3>2, <3>3
      <3>7. QED
        BY <3>4, <3>5, <3>6
    <2>3a. \A p \in spans : SumTo(daily, p[1]) - SumTo(daily, p[2]) <= e[n].down
      BY <1>11, <2>3
    <2> HIDE DEF V
    <2>4. Max(V) = down[n]
      BY <2>1, <2>2, <2>3, LargestIs
    <2>5. QED
      BY <1>11, <2>3a, <2>4 DEF V
  <1>16. e[n].up = Max({SumTo(daily, p[2]) - SumTo(daily, p[1]) : p \in spans})
    <2> DEFINE V == {SumTo(daily, p[2]) - SumTo(daily, p[1]) : p \in spans}
    <2>1. V \subseteq Int
      <3>1. \A k \in N : SumTo(daily, k) \in Int
        BY <1>11, <1>12
      <3>2. QED
        BY <3>1
    <2>2. up[n] \in V
      <3>1. PICK j \in N : climb[j] = up[n]
        BY <1>4, <1>8, RunningMaxIsLargest
      <3>2. PICK i \in 0 .. j : minus[i] = trough[j]
        BY <1>14
      <3>3. i \in N /\ i <= j
        OBVIOUS
      <3>4. <<i, j>> \in spans
        BY <3>3
      <3>5. up[n] = SumTo(daily, j) - SumTo(daily, i)
        BY <1>11, <1>12, <3>1, <3>2, <3>3
      <3>6. QED
        BY <3>4, <3>5
    <2>3. \A y \in V : y <= up[n]
      <3>1. TAKE y \in V
      <3>2. PICK p \in spans : y = SumTo(daily, p[2]) - SumTo(daily, p[1])
        OBVIOUS
      <3>3. p[1] \in N /\ p[2] \in N /\ p[1] \in 0 .. p[2]
        OBVIOUS
      <3>4. climb[p[2]] <= up[n]
        BY <1>4, <1>8, <3>3, RunningMaxIsLargest
      <3>5. minus[p[1]] <= trough[p[2]]
        BY <1>14, <3>3
      <3>6. /\ y = c[p[2]] - c[p[1]] /\ climb[p[2]] = c[p[2]] + trough[p[2]]
            /\ minus[p[1]] = -c[p[1]]
            /\ c[p[1]] \in Int /\ c[p[2]] \in Int /\ trough[p[2]] \in Int /\ up[n] \in Int
        BY <1>11, <1>12, <3>2, <3>3
      <3> HIDE DEF V, climb, minus, trough, up, c
      <3>7. QED
        BY <3>4, <3>5, <3>6
    <2> HIDE DEF V
    <2>4. Max(V) = up[n]
      BY <2>1, <2>2, <2>3, LargestIs
    <2>5. QED
      BY <1>11, <2>4 DEF V
  <1>17. e[n].worst = Max({0} \cup {p[2] - p[1] : p \in runs})
    <2> DEFINE V == {0} \cup {p[2] - p[1] : p \in runs}
    <2>1. V \subseteq Int
      OBVIOUS
    <2>2. worst[n] \in V
      <3>0. \E j \in 0 .. n : streak[j] = worst[n]
        BY <1>4, <1>9, RunningMaxIsLargest
      <3>1. PICK j \in N : streak[j] = worst[n]
        BY <3>0
      <3> DEFINE i == j - streak[j]
      <3>2. streak[j] \in Nat /\ streak[j] <= j /\ \A k \in i + 1 .. j : k \in L
        BY <1>10, <1>11, RunLengthIsExact
      <3>3. i \in N /\ i <= j /\ j - i = worst[n]
        BY <3>1, <3>2
      <3>3a. \A k \in i + 1 .. j : daily[k].pl < 0
        BY <3>2
      <3> HIDE DEF i
      <3>4. <<i, j>> \in runs
        BY <3>3, <3>3a
      <3>5. QED
        BY <3>3, <3>4
    <2>3. \A y \in V : y <= worst[n]
      <3>1. \A k \in N : streak[k] <= worst[n]
        BY <1>4, <1>9, RunningMaxIsLargest
      <3>2. 0 <= worst[n]
        BY <1>4, <1>11, <3>1
      <3>3. ASSUME NEW p \in runs
            PROVE  p[2] - p[1] <= worst[n]
        <4> DEFINE i == p[1]
                   j == p[2]
                   s == streak[j]
        <4>1. i \in N /\ j \in N /\ i <= j /\ \A k \in i + 1 .. j : k \in L
          OBVIOUS
        <4>2. s \in Nat /\ (s < j => j - s \notin L)
          BY <1>10, <1>11, <4>1, RunLengthIsExact
        <4> HIDE DEF i, j, s
        <4>3. j - i <= s
          <5> SUFFICES ASSUME j - i > s PROVE FALSE
            BY <4>1, <4>2
          <5>1. j - s \in i + 1 .. j /\ s < j
            BY <4>1, <4>2
          <5>2. QED
            BY <4>1, <4>2, <5>1
        <4>4. s <= worst[n] /\ worst[n] \in Int
          BY <1>11, <3>1, <4>1 DEF s
        <4>5. j - i <= worst[n]
          BY <4>1, <4>2, <4>3, <4>4
        <4>6. QED
          BY <4>5 DEF i, j
      <3>4. QED
        BY <3>2, <3>3
    <2> HIDE DEF V
    <2>4. Max(V) = worst[n]
      BY <2>1, <2>2, <2>3, LargestIs
    <2>5. QED
      BY <1>11, <2>4 DEF V
  <1>18. ASSUME NEW k \in 1 .. n
         PROVE  -daily[k].pl <= e[n].down
    <2>1. <<k - 1, k>> \in spans
      BY <1>4
    <2>2. SumTo(daily, k - 1) - SumTo(daily, k) <= e[n].down
      BY <1>15, <2>1
    <2>3. e[k].cum = e[k - 1].cum + daily[k].pl /\ daily[k].pl \in Int
      BY <1>0 DEF IsStep
    <2>4. c[k] = e[k].cum /\ c[k - 1] = e[k - 1].cum
      BY <1>4 DEF c
    <2>5. /\ SumTo(daily, k - 1) = c[k - 1] /\ SumTo(daily, k) = c[k]
          /\ c[k] \in Int /\ c[k - 1] \in Int
      BY <1>4, <1>11, <1>12
    <2>6. SumTo(daily, k - 1) - SumTo(daily, k) = -daily[k].pl
      BY <2>3, <2>4, <2>5
    <2>7. QED
      BY <2>2, <2>6
  <1>19. QED
    BY <1>15, <1>16, <1>17, <1>18 DEF IsExtremal

\* The days of a range, each with the result of its rows.
AreDays(daily, S, n, p) ==
    /\ n \in Nat /\ DOMAIN daily = 1 .. n /\ Len(daily) = n
    /\ \A k \in 1 .. n :
           /\ daily[k].pl = SumFunction(PlOf({r \in S : r.cols.day = p[k]}))
           /\ daily[k].pl \in Int
    /\ \A r \in S : \E k \in 1 .. n : p[k] = r.cols.day

LEMMA DaysOfARange ==
    ASSUME JournalType, NEW from, NEW to
    PROVE  \E n, p : AreDays(Daily(from, to), InRange(from, to), n, p)
  <1> DEFINE S == InRange(from, to)
             daily == Daily(from, to)
  <1>1. EachDay \in [TradeDays -> Int] /\ \A r \in S : EachDay[r.cols.day] = r.cols.day
    <2>1. TradeDays \subseteq Int
      BY JournalAssumption DEF TradeDays
    <2>2. \A r \in S : r.cols.day \in TradeDays
      BY RangesAreFinite DEF IsLine
    <2>3. QED
      BY <2>1, <2>2 DEF EachDay
  <1>2. PICK n, p : InBuckets(daily, S, EachDay, n, p)
    BY <1>1, AggregateInOrder DEF Daily
  <1>3. /\ n \in Nat
        /\ Pairs(p, 1 .. n, {EachDay[r.cols.day] : r \in S})
        /\ daily = [i \in 1 .. n |-> Bucket({r \in S : EachDay[r.cols.day] = p[i]})]
    BY <1>2 DEF InBuckets
  <1>4. AreRows(S)
    BY RangesAreFinite DEF AreRows
  <1>5. ASSUME NEW k \in 1 .. n
        PROVE  /\ daily[k].pl = SumFunction(PlOf({r \in S : r.cols.day = p[k]}))
               /\ daily[k].pl \in Int
    <2> DEFINE G == {r \in S : r.cols.day = p[k]}
    <2>1. {r \in S : EachDay[r.cols.day] = p[k]} = G /\ G \in SUBSET S
      BY <1>1
    <2>2. daily[k] = Bucket(G)
      BY <1>3, <2>1
    <2> HIDE DEF G, S, daily
    <2>3. AreRows(G)
      BY <1>4, <2>1, ResultsAreNumbers
    <2>4. daily[k].pl = SumFunction(PlOf(G)) /\ daily[k].pl \in Int
      BY <2>2, <2>3, BucketAddsUp
    <2>5. QED
      BY <2>4 DEF G
  <1>6. DOMAIN daily = 1 .. n
    BY <1>3
  <1>7. Len(daily) = n
    <2> DEFINE V == {daily[i] : i \in 1 .. n}
               B(i) == Bucket({r \in S : EachDay[r.cols.day] = p[i]})
    <2>1. daily = [i \in 1 .. n |-> B(i)]
      BY <1>3
    <2> HIDE DEF B, S, daily
    <2>2. daily \in [1 .. n -> V]
      BY <2>1
    <2> HIDE DEF V
    <2>3. n \in Nat
      BY <1>3
    <2>4. QED
      BY <2>2, <2>3
  <1>8. \A r \in S : \E k \in 1 .. n : p[k] = r.cols.day
    BY <1>1, <1>3 DEF Pairs
  <1> HIDE DEF S, daily
  <1>9. AreDays(daily, S, n, p)
    BY <1>3, <1>5, <1>6, <1>7, <1>8 DEF AreDays
  <1>10. QED
    BY <1>9 DEF S, daily

LEMMA EquityIsSound ==
    ASSUME JournalType
    PROVE  EquityIsExtremal
  <1> SUFFICES ASSUME NEW from \in TradeDays, NEW to \in TradeDays
               PROVE  LET daily == Daily(from, to)
                          n == Len(daily)
                          Cum(i) == SumFunction([k \in 1 .. i |-> daily[k].pl])
                          stats == PeriodStats(from, to)
                          spans == {p \in (0 .. n) \X (0 .. n) : p[1] <= p[2]}
                      IN  /\ stats.down = Max({Cum(p[1]) - Cum(p[2]) : p \in spans})
                          /\ stats.up = Max({Cum(p[2]) - Cum(p[1]) : p \in spans})
                          /\ stats.streak = Max({0} \cup
                                 {p[2] - p[1] : p \in {q \in spans :
                                      \A k \in q[1] + 1 .. q[2] : daily[k].pl < 0}})
    BY DEF EquityIsExtremal
  <1>1. PICK n, p : AreDays(Daily(from, to), InRange(from, to), n, p)
    BY DaysOfARange
  <1> DEFINE daily == Daily(from, to)
  <1>2. n \in Nat /\ DOMAIN daily = 1 .. n /\ Len(daily) = n /\ \A k \in 1 .. n : daily[k].pl \in Int
    BY <1>1 DEF AreDays
  <1>3. /\ PeriodStats(from, to).down = EquityStats(daily).down
        /\ PeriodStats(from, to).up = EquityStats(daily).up
        /\ PeriodStats(from, to).streak = EquityStats(daily).worst
    BY DEF PeriodStats
  <1> HIDE DEF daily
  <1>4. IsExtremal(EquityStats(daily), daily, n)
    <2>1. PICK e : IsCurve(e, daily, n) /\ EquityStats(daily) = e[n]
      BY <1>2, CurveOfDays
    <2>2. IsExtremal(e[n], daily, n)
      BY <1>2, <2>1, CurveIsExtremal
    <2>3. QED
      BY <2>1, <2>2
  <1>5. QED
    BY <1>2, <1>3, <1>4 DEF IsExtremal, SumTo, daily

\* A losing line without a winning one shows in the draw down.
LEMMA LossesShow ==
    ASSUME JournalType, NEW from, NEW to, PeriodStats(from, to).worst < 0
    PROVE  \/ PeriodStats(from, to).best > 0
           \/ PeriodStats(from, to).down >= -PeriodStats(from, to).worst
  <1> DEFINE S == InRange(from, to)
             V == {Pl(r) : r \in S}
             stats == PeriodStats(from, to)
             daily == Daily(from, to)
  <1>1. /\ stats.worst = Worst(S) /\ stats.best = Best(S)
        /\ stats.down = EquityStats(daily).down
    BY DEF PeriodStats
  <1>2. AreRows(S)
    BY RangesAreFinite DEF AreRows
  <1> HIDE DEF stats, daily, S
  <1>3. stats.worst < 0
    BY DEF stats
  <1>4. S # {} /\ Worst(S) = Min(V) /\ Best(S) = Max(V)
    BY <1>1, <1>3 DEF Worst, Best
  <1>5. /\ PlOf(S) \in [S -> Int] /\ \A r \in S : PlOf(S)[r] = Pl(r)
        /\ \A s \in SUBSET S : AreRows(s) /\ PartialSum(PlOf(S), s) = SumFunction(PlOf(s))
    BY <1>2, ResultsAreNumbers DEF PlOf
  <1>6. IsFiniteSet(V) /\ V # {} /\ V \subseteq Int
    <2>1. V = {PlOf(S)[r] : r \in S}
      BY <1>5
    <2>2. IsFiniteSet({PlOf(S)[r] : r \in S})
      BY <1>2, ValuesAreFinite DEF AreRows
    <2>3. QED
      BY <1>4, <1>5, <2>1, <2>2
  <1>7. Min(V) \in V /\ Max(V) \in V /\ \A x \in V : x <= Max(V)
    <2> HIDE DEF V
    <2>1. QED
      BY <1>6, LeastAndLargest
  <1>8. PICK r \in S : Pl(r) = Min(V)
    BY <1>7
  <1> SUFFICES ASSUME ~(stats.best > 0)
               PROVE  stats.down >= -stats.worst
    BY DEF stats
  <1>9. \A x \in S : Pl(x) \in Int /\ Pl(x) <= 0
    <2>1. Max(V) \in Int /\ Max(V) <= 0
      BY <1>1, <1>4, <1>6, <1>7
    <2>2. \A x \in S : Pl(x) \in V
      OBVIOUS
    <2> HIDE DEF V
    <2> DEFINE m == Max(V)
    <2>3. m \in Int /\ m <= 0 /\ \A x \in V : x \in Int /\ x <= m
      BY <1>6, <1>7, <2>1
    <2> HIDE DEF m
    <2>4. QED
      BY <2>2, <2>3
  <1>10. PICK n, p : AreDays(daily, S, n, p)
    BY DaysOfARange DEF daily, S
  <1>11. PICK k \in 1 .. n : p[k] = r.cols.day
    BY <1>10 DEF AreDays
  <1>12. daily[k].pl <= Pl(r) /\ daily[k].pl \in Int
    <2> DEFINE G == {x \in S : x.cols.day = p[k]}
               H == G \ {r}
               O == {r}
               F == PlOf(S)
    <2>1. daily[k].pl = SumFunction(PlOf(G)) /\ daily[k].pl \in Int
      BY <1>10 DEF AreDays
    <2>2. O \in SUBSET S /\ H \in SUBSET S /\ O \cap H = {} /\ O \cup H = G /\ G \in SUBSET S
      BY <1>11
    <2>3. IsFiniteSet(S) /\ F \in [S -> Int]
      BY <1>2, <1>5 DEF AreRows
    <2>4. F[r] = Pl(r) /\ F[r] \in Int
      BY <1>5
    <2>5. PlOf(H) \in [H -> Int] /\ \A x \in H : PlOf(H)[x] <= 0
      BY <1>9, <2>2 DEF PlOf
    <2> HIDE DEF G, H, F
    <2>6. PartialSum(F, O) = F[r]
      BY <2>4, SumOfOne
    <2> HIDE DEF O
    <2>7. PartialSum(F, O \cup H) = PartialSum(F, O) + PartialSum(F, H)
          /\ PartialSum(F, H) \in Int
      BY <2>2, <2>3, SumOfTwoParts
    <2>8. /\ PartialSum(F, G) = SumFunction(PlOf(G)) /\ PartialSum(F, H) = SumFunction(PlOf(H))
          /\ IsFiniteSet(H)
      BY <1>5, <2>2 DEF F, AreRows
    <2>9. SumFunction(PlOf(H)) <= 0
      BY <2>5, <2>8, SumOfOneSign
    <2>10. PartialSum(F, G) = Pl(r) + PartialSum(F, H)
      BY <2>2, <2>4, <2>6, <2>7
    <2>11. QED
      BY <2>1, <2>4, <2>7, <2>8, <2>9, <2>10
  <1>13. -daily[k].pl <= stats.down /\ stats.down \in Int
    <2>1. /\ n \in Nat /\ DOMAIN daily = 1 .. n /\ \A i \in 1 .. n : daily[i].pl \in Int
      BY <1>10 DEF AreDays
    <2>2. PICK e : IsCurve(e, daily, n) /\ EquityStats(daily) = e[n]
      BY <2>1, CurveOfDays
    <2>3. \A i \in 1 .. n : -daily[i].pl <= e[n].down
      BY <2>1, <2>2, CurveIsExtremal
    <2>4. e[n].down \in Int
      BY <2>1, <2>2 DEF IsCurve, EquityPoints
    <2>5. QED
      BY <1>1, <2>2, <2>3, <2>4
  <1>14. stats.worst = Pl(r) /\ Pl(r) \in Int
    BY <1>1, <1>4, <1>8, <1>9
  <1>15. QED
    BY <1>12, <1>13, <1>14

\* A day with a row has lines to show.
LEMMA DaysHaveLines ==
    ASSUME JournalType, NEW r \in journal
    PROVE  OfDay(r.cols.day) # <<>>
  <1> DEFINE d == r.cols.day
             S == InRange(d, d)
  <1>1. d \in TradeDays
    BY DEF JournalType, IsLine
  <1> HIDE DEF d
  <1>2. r \in S
    <2>1. S = {x \in journal : x.cols.day = d}
      BY <1>1, RangeOfADay
    <2>2. QED
      BY <2>1 DEF d
  <1>3. IsFiniteSet(S)
    BY RangesAreFinite
  <1>4. DOMAIN OfDay(d) = 1 .. Cardinality(S)
    BY DEF OfDay, InOrder
  <1> HIDE DEF S
  <1>5. Cardinality(S) \in Nat /\ Cardinality(S) # 0
    BY <1>2, <1>3, FS_CardinalityType, FS_EmptySet
  <1>6. 1 \in DOMAIN OfDay(d)
    BY <1>4, <1>5
  <1>7. OfDay(d) # <<>>
    BY <1>6
  <1>8. QED
    BY <1>7 DEF d

LEMMA RangeIsCovered ==
    ASSUME JournalType, CoveredRange # <<>>
    PROVE  /\ CoveredRange[1] <= CoveredRange[2]
           /\ OfDay(CoveredRange[1]) # <<>> /\ OfDay(CoveredRange[2]) # <<>>
  <1> DEFINE days == {r.cols.day : r \in journal}
             F == [r \in journal |-> r.cols.day]
  <1>1. days # {} /\ CoveredRange[1] = Min(days) /\ CoveredRange[2] = Max(days)
    BY DEF CoveredRange
  <1>2. days \subseteq Int
    BY LinesHaveNumbers DEF JournalType
  <1>3. IsFiniteSet(days)
    <2>1. days = {F[r] : r \in journal} /\ IsFiniteSet(journal)
      BY DEF JournalType
    <2> HIDE DEF days, F
    <2>2. IsFiniteSet({F[r] : r \in journal})
      BY <2>1, ValuesAreFinite
    <2>3. QED
      BY <2>1, <2>2
  <1>4. \A d \in days : OfDay(d) # <<>>
    BY DaysHaveLines
  <1> HIDE DEF days
  <1>5. Min(days) \in days /\ (\A x \in days : Min(days) <= x) /\ Max(days) \in days
    BY <1>1, <1>2, <1>3, LeastAndLargest
  <1>6. QED
    BY <1>1, <1>4, <1>5

-----------------------------------------------------------------------------
(* Sorting *)

\* L is a strict order of S in which some may be equal.
IsWeakOrder(L, S) ==
    /\ \A x \in S : <<x, x>> \notin L
    /\ \A x, y, z \in S : <<x, y>> \in L /\ <<y, z>> \in L => <<x, z>> \in L
    /\ \A x, y, z \in S : <<x, z>> \in L => <<x, y>> \in L \/ <<y, z>> \in L

\* What a weak order compares can be put in that order.
LEMMA SortsExist ==
    ASSUME NEW S, IsFiniteSet(S), NEW L, IsWeakOrder(L, S)
    PROVE  \E f \in Bijection(1 .. Cardinality(S), S) :
               /\ DOMAIN f = 1 .. Cardinality(S)
               /\ \A i, j \in 1 .. Cardinality(S) : i < j => <<f[j], f[i]>> \notin L
  <1>1. PICK b \in Bijection(1 .. Cardinality(S), S) : TRUE
    BY FS_NatBijection, FS_CardinalityType, FS_CountingElements DEF ExistsBijection
  <1> DEFINE D == 1 .. Cardinality(S)
             at == [x \in S |-> CHOOSE i \in D : b[i] = x]
             R == {p \in S \X S :
                      p \in L \/ (<<p[2], p[1]>> \notin L /\ at[p[1]] < at[p[2]])}
             f == InOrderOf(R, S)
  <1>2. \A x \in S : at[x] \in D /\ b[at[x]] = x
    BY <1>1 DEF Bijection, Surjection
  <1>3. D \subseteq Int
    OBVIOUS
  <1> HIDE DEF at, D
  <1>4. /\ \A x \in S : at[x] \in Int
        /\ \A x, y \in S : at[x] = at[y] => x = y
    BY <1>2, <1>3
  <1>5. \A x, y \in S :
            <<x, y>> \in R <=>
                (<<x, y>> \in L \/ (<<y, x>> \notin L /\ at[x] < at[y]))
    <2>1. TAKE x, y \in S
    <2>2. <<x, y>> \in S \X S /\ <<x, y>>[1] = x /\ <<x, y>>[2] = y
      OBVIOUS
    <2>3. QED
      BY <2>2
  <1> HIDE DEF R
  <1>6. IsOrder(R, S)
    <2>1. ASSUME NEW x \in S
          PROVE  <<x, x>> \notin R
      <3>1. <<x, x>> \in R <=> (<<x, x>> \in L \/ (<<x, x>> \notin L /\ at[x] < at[x]))
        BY <1>5
      <3>2. <<x, x>> \notin L
        BY DEF IsWeakOrder
      <3>3. ~(at[x] < at[x])
        BY <1>4
      <3>4. QED
        BY <3>1, <3>2, <3>3
    <2>2. \A x, y, z \in S : <<x, y>> \in R /\ <<y, z>> \in R => <<x, z>> \in R
      <3>1. TAKE x, y, z \in S
      <3>2. HAVE <<x, y>> \in R /\ <<y, z>> \in R
      <3>3. /\ <<x, y>> \in L \/ (<<y, x>> \notin L /\ at[x] < at[y])
            /\ <<y, z>> \in L \/ (<<z, y>> \notin L /\ at[y] < at[z])
        BY <1>5, <3>2
      <3>4. /\ <<x, y>> \in L /\ <<y, z>> \in L => <<x, z>> \in L
            /\ <<x, y>> \in L => <<x, z>> \in L \/ <<z, y>> \in L
            /\ <<y, z>> \in L => <<y, x>> \in L \/ <<x, z>> \in L
            /\ <<z, x>> \in L => <<z, y>> \in L \/ <<y, x>> \in L
        BY DEF IsWeakOrder
      <3>5. at[x] < at[y] /\ at[y] < at[z] => at[x] < at[z]
        BY <1>4
      <3>6. QED
        BY <1>5, <3>3, <3>4, <3>5
    <2>3. \A x, y \in S : x # y => <<x, y>> \in R \/ <<y, x>> \in R
      <3>1. TAKE x, y \in S
      <3>2. HAVE x # y
      <3>3. at[x] < at[y] \/ at[y] < at[x]
        BY <1>4, <3>2
      <3>4. QED
        BY <1>5, <3>3
    <2>4. QED
      BY <2>1, <2>2, <2>3 DEF IsOrder
  <1>7. /\ Cardinality(S) \in Nat
        /\ f \in [1 .. Cardinality(S) -> S]
        /\ \A k, l \in 1 .. Cardinality(S) : k < l => <<f[k], f[l]>> \in R
        /\ \A x \in S : /\ RankIn(R, S, x) + 1 \in 1 .. Cardinality(S)
                        /\ f[RankIn(R, S, x) + 1] = x
    BY <1>6, MembersInOrder
  <1> HIDE DEF f
  <1>8. \A k, l \in D : k < l => <<f[k], f[l]>> \in R
    BY <1>7 DEF D
  <1>9. f \in [D -> S] /\ \A x \in S : \E k \in D : f[k] = x
    BY <1>7 DEF D
  <1>10. \A k, l \in D : f[k] = f[l] => k = l
    <2>1. TAKE k, l \in D
    <2>2. HAVE f[k] = f[l]
    <2>3. f[k] \in S /\ f[l] \in S /\ <<f[k], f[k]>> \notin R
      BY <1>6, <1>9 DEF IsOrder
    <2>4. ~(k < l) /\ ~(l < k)
      BY <1>8, <2>2, <2>3
    <2>5. QED
      BY <1>3, <2>4
  <1>11. f \in Bijection(D, S)
    BY <1>9, <1>10 DEF Bijection, Injection, IsInjective, Surjection
  <1>12. \A i, j \in D : i < j => <<f[j], f[i]>> \notin L
    <2>1. TAKE i, j \in D
    <2>2. HAVE i < j
    <2>3. f[i] \in S /\ f[j] \in S /\ <<f[i], f[j]>> \in R
      BY <1>8, <1>9, <2>2
    <2>4. \/ <<f[i], f[j]>> \in L
          \/ <<f[j], f[i]>> \notin L
      BY <1>5, <2>3
    <2>5. <<f[i], f[j]>> \in L /\ <<f[j], f[i]>> \in L => <<f[i], f[i]>> \in L
      BY <2>3 DEF IsWeakOrder
    <2>6. QED
      BY <2>3, <2>4, <2>5 DEF IsWeakOrder
  <1>13. DOMAIN f = D
    BY <1>9
  <1>14. QED
    BY <1>11, <1>12, <1>13 DEF D

-----------------------------------------------------------------------------
(* The worst trades *)

\* Part of what is never negative adds up to no more than the rest with it.
LEMMA SmallerParts ==
    ASSUME NEW S, IsFiniteSet(S), NEW F \in [S -> Int], \A x \in S : F[x] >= 0,
           NEW B \in SUBSET S, NEW A \in SUBSET B
    PROVE  PartialSum(F, A) <= PartialSum(F, B)
  <1> DEFINE C == B \ A
             G == [x \in C |-> F[x]]
  <1>1. A \in SUBSET S /\ C \in SUBSET S /\ A \cap C = {} /\ A \cup C = B
    OBVIOUS
  <1>2. IsFiniteSet(C)
    BY <1>1, FS_Subset
  <1>3. G \in [C -> Int] /\ \A x \in C : G[x] >= 0
    BY <1>1
  <1> HIDE DEF C, G
  <1>4. SumFunction(G) >= 0
    BY <1>2, <1>3, SumOfOneSign
  <1>5. PartialSum(F, C) >= 0
    BY <1>4 DEF PartialSum, G
  <1>6. /\ PartialSum(F, A \cup C) = PartialSum(F, A) + PartialSum(F, C)
        /\ PartialSum(F, A) \in Int /\ PartialSum(F, C) \in Int
    BY <1>1, SumOfTwoParts
  <1>7. PartialSum(F, B) = PartialSum(F, A) + PartialSum(F, C)
    BY <1>1, <1>6
  <1>8. QED
    BY <1>5, <1>6, <1>7

LEMMA ProductsInOrder ==
    ASSUME NEW a \in Nat, NEW b \in Nat, a <= b, NEW h \in Nat
    PROVE  a * h <= b * h
  <1>1. b * h = a * h + (b - a) * h
    OBVIOUS
  <1>2. (b - a) * h >= 0
    OBVIOUS
  <1>3. QED
    BY <1>1, <1>2

\* Disjoint parts of what F gives its domain S add up.
PartsAddUp(F, S) ==
    \A X, Y \in SUBSET S : X \cap Y = {} =>
        /\ PartialSum(F, X \cup Y) = PartialSum(F, X) + PartialSum(F, Y)
        /\ PartialSum(F, X) \in Int /\ PartialSum(F, Y) \in Int

LEMMA PartsOfASum ==
    ASSUME NEW S, IsFiniteSet(S), NEW F \in [S -> Int]
    PROVE  PartsAddUp(F, S)
  BY SumOfTwoParts DEF PartsAddUp

\* Of values that do not rise, no n add up to more than the first n.
LEMMA FirstAreLargest ==
    ASSUME NEW m \in Nat, NEW D, D = 1 .. m, NEW F \in [D -> Int], \A i \in D : F[i] >= 0,
           \A i, j \in D : i < j => F[i] >= F[j],
           NEW n \in Nat, n # 0, NEW S \in SUBSET D, Cardinality(S) <= n
    PROVE  PartialSum(F, S) <= PartialSum(F, {i \in D : i <= n})
  <1> DEFINE P == {i \in D : i <= n}
             A == S \ P
             B == P \ S
             C == S \cap P
  <1>1. IsFiniteSet(D)
    BY FS_Interval
  <1>2. /\ A \in SUBSET D /\ B \in SUBSET D /\ C \in SUBSET D /\ P \in SUBSET D /\ C \in SUBSET P
        /\ C \cap A = {} /\ C \cap B = {} /\ C \cup A = S /\ C \cup B = P
    OBVIOUS
  <1>3. \A x \in D : F[x] >= 0
    OBVIOUS
  <1>3a. PartsAddUp(F, D)
    BY <1>1, PartsOfASum
  <1>4. CASE A = {}
    <2>1. S = C
      BY <1>2, <1>4
    <2> HIDE DEF P, C
    <2>2. PartialSum(F, C) <= PartialSum(F, P)
      BY <1>1, <1>2, <1>3, SmallerParts
    <2>3. QED
      BY <2>1, <2>2 DEF P
  <1>5. CASE A # {}
    <2>1. PICK x \in A : TRUE
      BY <1>5
    <2>2. n \in D
      BY <2>1
    <2> DEFINE h == F[n]
    <2>3. h \in Nat
      BY <2>2
    <2>4. \A i \in A : F[i] <= h
      BY <2>2
    <2>5. \A i \in B : h <= F[i]
      <3>1. TAKE i \in B
      <3>2. i = n \/ i < n
        OBVIOUS
      <3>3. QED
        BY <2>2, <2>3, <3>2
    <2>6. Cardinality(P) = n
      <3>1. P = 1 .. n
        BY <2>2
      <3> HIDE DEF P, A, B, C, h
      <3>2. 1 \in Int /\ n \in Int /\ 1 <= n
        OBVIOUS
      <3>3. Cardinality(1 .. n) = n
        BY <3>2, FS_Interval
      <3>4. QED
        BY <3>1, <3>3
    <2>7. \A i \in A : F[i] \in Int /\ 0 <= F[i]
      BY <1>3
    <2>8. \A i \in B : F[i] \in Int /\ F[i] <= F[1]
      <3>1. TAKE i \in B
      <3>2. i = 1 \/ 1 < i
        OBVIOUS
      <3>3. 1 \in D /\ i \in D
        BY <2>2
      <3>4. QED
        BY <3>2, <3>3
    <2>9. F[1] \in Int
      BY <2>2
    <2> DEFINE FA == [i \in A |-> F[i]]
               FB == [i \in B |-> F[i]]
               top == F[1]
    <2>10. FA \in [A -> Int] /\ \A i \in A : 0 <= FA[i] /\ FA[i] <= h
      BY <2>4, <2>7
    <2>11. FB \in [B -> Int] /\ \A i \in B : h <= FB[i] /\ FB[i] <= top
      BY <2>5, <2>8
    <2>11a. top \in Int
      BY <2>9
    <2>12. PartialSum(F, A) = SumFunction(FA) /\ PartialSum(F, B) = SumFunction(FB)
      BY DEF PartialSum
    <2> HIDE DEF FA, FB, top, h, A, B, C, P
    <2>14. IsFiniteSet(A) /\ IsFiniteSet(B) /\ IsFiniteSet(C)
      BY <1>1, <1>2, FS_Subset
    <2>15. SumFunction(FA) \in Int /\ SumFunction(FA) <= Cardinality(A) * h
      BY <2>3, <2>10, <2>14, SumWithin
    <2>16. SumFunction(FB) \in Int /\ Cardinality(B) * h <= SumFunction(FB)
      BY <2>3, <2>11, <2>11a, <2>14, SumWithin
    <2>17. /\ Cardinality(S) = Cardinality(C) + Cardinality(A)
           /\ Cardinality(C) \in Nat /\ Cardinality(A) \in Nat
      BY <1>2, <2>14, DisjointSizes
    <2>18. Cardinality(P) = Cardinality(C) + Cardinality(B) /\ Cardinality(B) \in Nat
      BY <1>2, <2>14, DisjointSizes
    <2>19. Cardinality(A) <= Cardinality(B)
      BY <2>6, <2>17, <2>18
    <2>20. Cardinality(A) * h <= Cardinality(B) * h
      BY <2>3, <2>17, <2>18, <2>19, ProductsInOrder
    <2>21. Cardinality(A) * h \in Int /\ Cardinality(B) * h \in Int
      BY <2>3, <2>17, <2>18
    <2>22. PartialSum(F, A) <= PartialSum(F, B)
      BY <2>12, <2>15, <2>16, <2>20, <2>21
    <2>23. /\ PartialSum(F, C \cup A) = PartialSum(F, C) + PartialSum(F, A)
           /\ PartialSum(F, C) \in Int /\ PartialSum(F, A) \in Int
      <3>1. C \in SUBSET D /\ A \in SUBSET D /\ C \cap A = {}
        BY <1>2
      <3>2. QED
        BY <1>3a, <3>1 DEF PartsAddUp
    <2>24. /\ PartialSum(F, C \cup B) = PartialSum(F, C) + PartialSum(F, B)
           /\ PartialSum(F, B) \in Int
      <3>1. C \in SUBSET D /\ B \in SUBSET D /\ C \cap B = {}
        BY <1>2
      <3>2. QED
        BY <1>3a, <3>1 DEF PartsAddUp
    <2>24a. C \cup A = S /\ C \cup B = P
      BY <1>2
    <2>25. PartialSum(F, S) <= PartialSum(F, P)
      <3>1. PartialSum(F, S) = PartialSum(F, C) + PartialSum(F, A)
        BY <2>23, <2>24a
      <3>2. PartialSum(F, P) = PartialSum(F, C) + PartialSum(F, B)
        BY <2>24, <2>24a
      <3>3. QED
        BY <2>22, <2>23, <2>24, <3>1, <3>2
    <2>26. QED
      BY <2>25 DEF P
  <1>6. QED
    BY <1>4, <1>5

\* Both sorts have an order to give.
LEMMA WorstAreSorted ==
    ASSUME JournalType, NEW from, NEW to
    PROVE  WorstFirst(Trades(from, to)) # {}
  <1> DEFINE S == LosingTrades(Trades(from, to))
             L == {p \in S \X S : p[1].pl < p[2].pl}
  <1>1. IsFiniteSet(S) /\ \A t \in S : t.pl \in Int
    BY TradesAreGroups, FS_Subset DEF LosingTrades
  <1> HIDE DEF S
  <1>2. \A x, y \in S : <<x, y>> \in L <=> x.pl < y.pl
    OBVIOUS
  <1> HIDE DEF L
  <1>3. IsWeakOrder(L, S)
    BY <1>1, <1>2 DEF IsWeakOrder
  <1>4. PICK f \in Bijection(1 .. Cardinality(S), S) :
            /\ DOMAIN f = 1 .. Cardinality(S)
            /\ \A i, j \in 1 .. Cardinality(S) : i < j => <<f[j], f[i]>> \notin L
    BY <1>1, <1>3, SortsExist
  <1>5. \A i \in DOMAIN f : f[i] \in S
    BY <1>4 DEF Bijection, Injection
  <1>6. \A i, j \in DOMAIN f : i < j => ~(f[j].pl < f[i].pl)
    BY <1>2, <1>4, <1>5
  <1>7. f \in WorstFirst(Trades(from, to))
    BY <1>4, <1>6 DEF WorstFirst, Arrangements, S
  <1>8. QED
    BY <1>7

LEMMA TrapsAreSorted ==
    ASSUME JournalType, NEW from, NEW to
    PROVE  FavoriteTraps(Trades(from, to)) # {}
  <1> DEFINE T == Trades(from, to)
             n(s) == Cardinality(SymbolTrades(T, s))
             v(s) == SymbolPl(T, s)
             S == {s \in {t.key.sym : t \in T} : v(s) < 0}
             L == {p \in S \X S : n(p[1]) > n(p[2]) \/ (n(p[1]) = n(p[2]) /\ v(p[1]) < v(p[2]))}
  <1>1. IsFiniteSet(S)
    <2> DEFINE F == [t \in T |-> t.key.sym]
               Y == {F[t] : t \in T}
    <2>1. S \subseteq Y
      OBVIOUS
    <2>2. IsFiniteSet(T)
      BY TradesAreGroups
    <2> HIDE DEF F, T, S
    <2>3. IsFiniteSet(Y)
      BY <2>2, ValuesAreFinite
    <2>4. QED
      BY <2>1, <2>3, FS_Subset
  <1>2. \A s \in S : n(s) \in Int /\ v(s) \in Int
    <2>1. ASSUME NEW s
          PROVE  n(s) \in Int
      <3>1. IsFiniteSet(T) /\ SymbolTrades(T, s) \subseteq T
        BY TradesAreGroups DEF SymbolTrades
      <3>2. Cardinality(SymbolTrades(T, s)) \in Nat
        BY <3>1, FS_Subset, FS_CardinalityType
      <3>3. QED
        BY <3>2
    <2>2. ASSUME NEW s
          PROVE  v(s) \in Int
      BY SymbolsAddUp
    <2>3. QED
      BY <2>1, <2>2
  <1> HIDE DEF S, n, v
  <1>4. \A x, y \in S : <<x, y>> \in L <=> (n(x) > n(y) \/ (n(x) = n(y) /\ v(x) < v(y)))
    OBVIOUS
  <1> HIDE DEF L
  <1>5. IsWeakOrder(L, S)
    BY <1>2, <1>4 DEF IsWeakOrder
  <1>6. PICK f \in Bijection(1 .. Cardinality(S), S) :
            /\ DOMAIN f = 1 .. Cardinality(S)
            /\ \A i, j \in 1 .. Cardinality(S) : i < j => <<f[j], f[i]>> \notin L
    BY <1>1, <1>5, SortsExist
  <1>7. \A i \in DOMAIN f : f[i] \in S
    BY <1>6 DEF Bijection, Injection
  <1>8. \A i, j \in DOMAIN f :
            i < j => ~(n(f[j]) > n(f[i]) \/ (n(f[j]) = n(f[i]) /\ v(f[j]) < v(f[i])))
    BY <1>4, <1>6, <1>7
  <1>9. f \in FavoriteTraps(T)
    BY <1>6, <1>8 DEF FavoriteTraps, Arrangements, S, n, v
  <1>10. QED
    BY <1>9

LEMMA WorstDominate ==
    ASSUME JournalType
    PROVE  WorstTradesDominate
  <1>0. \A from, to \in TradeDays : WorstFirst(Trades(from, to)) # {}
    BY WorstAreSorted
  <1> SUFFICES ASSUME NEW from \in TradeDays, NEW to \in TradeDays,
                      NEW w \in WorstFirst(Trades(from, to))
               PROVE  /\ \A n \in {1, 3, 5} : \A S \in SUBSET LosingTrades(Trades(from, to)) :
                             Cardinality(S) <= n =>
                                 SumFunction([t \in S |-> -t.pl]) <= LossShare(w, n)[1]
                      /\ LossShare(w, 1)[1] <= LossShare(w, 3)[1]
                      /\ LossShare(w, 5)[1] <= LossShare(w, 5)[2]
    BY <1>0 DEF WorstTradesDominate
  <1> DEFINE L == LosingTrades(Trades(from, to))
             m == Cardinality(L)
             D == 1 .. m
             F == [i \in D |-> -w[i].pl]
             First(n) == {i \in D : i <= n}
  <1>1. IsFiniteSet(L) /\ \A t \in L : t.pl \in Int /\ t.pl < 0
    BY TradesAreGroups, FS_Subset DEF LosingTrades
  <1>2. Pairs(w, D, L) /\ DOMAIN w = D /\ \A i, j \in D : i < j => ~(w[j].pl < w[i].pl)
    <2>1. w \in Bijection(D, L) /\ \A i, j \in DOMAIN w : i < j => ~(w[j].pl < w[i].pl)
      BY DEF WorstFirst, Arrangements
    <2>2. Pairs(w, D, L) /\ DOMAIN w = D
      BY <2>1 DEF Bijection, Injection, IsInjective, Surjection, Pairs
    <2>3. QED
      BY <2>1, <2>2
  <1>3. m \in Nat
    BY <1>1, FS_CardinalityType
  <1> HIDE DEF L, m
  <1>4. /\ F \in [D -> Int] /\ \A i \in D : F[i] >= 0 /\ F[i] = -w[i].pl
        /\ \A i, j \in D : i < j => F[i] >= F[j]
    <2>1. \A i \in D : w[i].pl \in Int /\ w[i].pl < 0
      BY <1>1, <1>2 DEF Pairs
    <2>2. QED
      BY <1>2, <2>1
  <1>5. IsFiniteSet(D)
    BY <1>3, FS_Interval
  <1>6. ASSUME NEW n \in {1, 3, 5}
        PROVE  LossShare(w, n)[1] = PartialSum(F, First(n)) /\ LossShare(w, n)[2] = PartialSum(F, D)
    <2>1. /\ [i \in First(n) |-> F[i]] = [i \in {i \in DOMAIN w : i <= n} |-> -w[i].pl]
          /\ [i \in D |-> F[i]] = [i \in DOMAIN w |-> -w[i].pl]
      BY <1>2
    <2>2. QED
      BY <2>1 DEF LossShare, PartialSum
  <1>7. /\ First(1) \in SUBSET First(3) /\ First(3) \in SUBSET D
        /\ First(5) \in SUBSET D /\ D \in SUBSET D
    OBVIOUS
  <1>8. ASSUME NEW n \in {1, 3, 5}, NEW S \in SUBSET L, Cardinality(S) <= n
        PROVE  SumFunction([t \in S |-> -t.pl]) <= PartialSum(F, First(n))
    <2>0. Cardinality({i \in D : w[i] \in S}) = Cardinality(S)
      <3> HIDE DEF D, F
      <3>1. QED
        BY <1>1, <1>2, PairedParts
    <2> DEFINE R == {i \in D : w[i] \in S}
               g == [i \in R |-> w[i]]
               FR == [i \in R |-> F[i]]
               C == [t \in S |-> -t.pl]
    <2>1. IsFiniteSet(S)
      BY <1>1, FS_Subset
    <2>2. Cardinality(R) = Cardinality(S)
      BY <2>0
    <2>3. Pairs(g, R, S)
      BY <1>2 DEF Pairs
    <2>4. FR \in [R -> Int] /\ DOMAIN C = S /\ \A i \in R : C[g[i]] = FR[i]
      BY <1>4
    <2>5. PartialSum(F, R) = SumFunction(FR) /\ R \in SUBSET D
      BY DEF PartialSum
    <2> HIDE DEF R, g, FR, C
    <2>6. SumFunction(C) = SumFunction(FR)
      BY <2>1, <2>3, <2>4, SumOfPairs
    <2>7. n \in Nat /\ n # 0
      OBVIOUS
    <2>8. PartialSum(F, R) <= PartialSum(F, First(n))
      <3> HIDE DEF F
      <3>1. F \in [D -> Int] /\ (\A i \in D : F[i] >= 0)
            /\ (\A i, j \in D : i < j => F[i] >= F[j])
        BY <1>4
      <3>2. R \in SUBSET D /\ Cardinality(R) <= n /\ D = 1 .. m
        BY <1>8, <2>2, <2>5
      <3> HIDE DEF D
      <3>3. PartialSum(F, R) <= PartialSum(F, {i \in D : i <= n})
        BY <1>3, <2>7, <3>1, <3>2, FirstAreLargest
      <3>4. QED
        BY <3>3
    <2>9. QED
      BY <2>5, <2>6, <2>8 DEF C
  <1>9. \A i \in D : F[i] >= 0
    BY <1>4
  <1>10. F \in [D -> Int]
    BY <1>4
  <1> HIDE DEF F, D
  <1>11. PartialSum(F, First(1)) <= PartialSum(F, First(3))
    <2> HIDE DEF First
    <2>1. QED
      BY <1>5, <1>7, <1>9, <1>10, SmallerParts
  <1>12. PartialSum(F, First(5)) <= PartialSum(F, D)
    <2> HIDE DEF First
    <2>1. QED
      BY <1>5, <1>7, <1>9, <1>10, SmallerParts
  <1> HIDE DEF First
  <1>13. QED
    BY <1>6, <1>8, <1>11, <1>12 DEF L

LEMMA ViewsAreSound ==
    ASSUME JournalType
    PROVE  ViewsAgree
  <1>1. ASSUME NEW from \in TradeDays, NEW to \in TradeDays
        PROVE  /\ \A bucketDate \in {EachDay, FirstOfMonth, FirstOfYear} :
                      AddUpTo(Aggregate(from, to, bucketDate), Overall(from, to))
               /\ SumFunction([t \in Trades(from, to) |-> t.pl]) = Overall(from, to).pl
               /\ \A s \in DOMAIN SymbolSummary(from, to) :
                      LiveBrands[s] <= 1 =>
                          SymbolSummary(from, to)[s].pl = SymbolPl(Trades(from, to), s)
               /\ \A traps \in FavoriteTraps(Trades(from, to)) :
                      SumFunction([i \in DOMAIN traps |-> SymbolPl(Trades(from, to), traps[i])])
                          <= Overall(from, to).pl
               /\ FavoriteTraps(Trades(from, to)) # {}
    <2>1. ASSUME NEW b \in {EachDay, FirstOfMonth, FirstOfYear}
          PROVE  AddUpTo(Aggregate(from, to, b), Overall(from, to))
      <3>1. TradeDays \subseteq Int
        BY JournalAssumption DEF TradeDays
      <3>2. b \in [TradeDays -> Int]
        BY <3>1 DEF EachDay, FirstOfMonth, FirstOfYear
      <3>3. QED
        BY <3>2, AggregatesAddUp
    <2>2. SumFunction([t \in Trades(from, to) |-> t.pl]) = Overall(from, to).pl
      BY SymbolsAddUp
    <2>3. QED
      BY <2>1, <2>2, SymbolSummaryAgrees, TrapsLose, TrapsAreSorted
  <1>2. ASSUME NEW from \in TradeDays, NEW to \in TradeDays
        PROVE  LET all == Overall(from, to)
                   stats == PeriodStats(from, to)
               IN  /\ all.profit + all.loss = all.pl /\ all.wins + all.losses <= all.count
                   /\ stats.worst < 0 => stats.best > 0 \/ stats.down >= -stats.worst
    <2>1. AreRows(InRange(from, to))
      BY RangesAreFinite DEF AreRows
    <2>2. LET all == Overall(from, to)
          IN  all.profit + all.loss = all.pl /\ all.wins + all.losses <= all.count
      BY <2>1, BucketAddsUp DEF Overall
    <2>3. QED
      BY <2>2, LossesShow
  <1>3. CoveredRange # <<>> =>
            /\ CoveredRange[1] <= CoveredRange[2]
            /\ OfDay(CoveredRange[1]) # <<>> /\ OfDay(CoveredRange[2]) # <<>>
    BY RangeIsCovered
  <1>4. QED
    BY <1>1, <1>2, <1>3 DEF ViewsAgree

-----------------------------------------------------------------------------
(* Tags *)

LEMMA TagsAreListed ==
    ASSUME NEW c \in NoteContents \cup {NoNote}, NEW tag
    PROVE  TimesListed(tag, c) \in Nat
  <1> DEFINE P == {i \in DOMAIN c.tags : c.tags[i] = tag}
  <1>1. IsFiniteSet(DOMAIN c.tags)
    <2>1. CASE c = NoNote
      <3>1. DOMAIN c.tags = {}
        BY <2>1 DEF NoNote
      <3>2. QED
        BY <3>1, FS_EmptySet
    <2>2. CASE c \in NoteContents
      <3> DEFINE V == ToSet(c.tags)
                 s == c.tags
      <3>1. s \in Seq(V)
        BY <2>2, JournalAssumption
      <3> HIDE DEF V, s
      <3>2. Len(s) \in Nat /\ DOMAIN s = 1 .. Len(s)
        BY <3>1
      <3>3. IsFiniteSet(DOMAIN s)
        BY <3>2, FS_Interval
      <3>4. QED
        BY <3>3 DEF s
    <2>3. QED
      BY <2>1, <2>2
  <1>2. P \subseteq DOMAIN c.tags
    OBVIOUS
  <1> HIDE DEF P
  <1>3. Cardinality(P) \in Nat
    BY <1>1, <1>2, FS_Subset, FS_CardinalityType
  <1>4. QED
    BY <1>3 DEF TimesListed, P

LEMMA UntaggedTrades ==
    ASSUME NEW tag
    PROVE  TimesListed(tag, NoNote) = 0
  <1>1. {i \in DOMAIN NoNote.tags : NoNote.tags[i] = tag} = {}
    BY DEF NoNote
  <1>2. QED
    BY <1>1, FS_EmptySet DEF TimesListed

LEMMA TagsAreExact ==
    ASSUME JournalType
    PROVE  TagsCountTrades
  <1> SUFFICES ASSUME NEW d \in TradeDays, NEW tag
               PROVE  TagStat(Trades(d, d), tag).count =
                          SumFunction([k \in {k \in DOMAIN notes :
                                                 k.day = d /\ \E r \in journal : TradeKey(r) = k}
                                          |-> TimesListed(tag, notes[k])])
    BY DEF TagsCountTrades
  <1> DEFINE T == Trades(d, d)
             N == {t \in T : t.key \in DOMAIN notes}
             O == T \ N
             K == {k \in DOMAIN notes : k.day = d /\ \E r \in journal : TradeKey(r) = k}
             F == [t \in T |-> TimesListed(tag, NoteOf(t))]
             C == [k \in K |-> TimesListed(tag, notes[k])]
             g == [t \in N |-> t.key]
             FN == [t \in N |-> F[t]]
             FO == [t \in O |-> F[t]]
  <1>1. IsFiniteSet(T) /\ \A t, u \in T : t.key = u.key => t = u
    BY TradesAreGroups
  <1>2. \A t \in T : NoteOf(t) \in NoteContents \cup {NoNote}
    BY DEF NoteOf, JournalType
  <1>3. F \in [T -> Int]
    <2>1. \A t \in T : TimesListed(tag, NoteOf(t)) \in Int
      BY <1>2, TagsAreListed
    <2>2. QED
      BY <2>1
  <1>4. \A t \in O : F[t] = 0
    <2>1. \A t \in O : NoteOf(t) = NoNote
      BY DEF NoteOf
    <2>2. QED
      BY <2>1, UntaggedTrades
  <1>5. Pairs(g, N, K)
    <2>1. InRange(d, d) = {r \in journal : r.cols.day = d}
      BY RangeOfADay
    <2>2. ASSUME NEW t \in N
          PROVE  g[t] \in K
      <3>1. PICK r \in InRange(d, d) : t.key = TradeKey(r)
        BY TradeOfARow
      <3>2. r \in journal /\ TradeKey(r).day = d
        BY <2>1, <3>1 DEF TradeKey
      <3>3. QED
        BY <3>1, <3>2
    <2>3. ASSUME NEW k \in K
          PROVE  \E t \in N : g[t] = k
      <3>1. PICK r \in journal : TradeKey(r) = k
        OBVIOUS
      <3>2. r \in InRange(d, d)
        BY <2>1, <3>1 DEF TradeKey
      <3>3. PICK t \in T : t.key = TradeKey(r)
        BY <3>2, TradeOfARow
      <3>4. t \in N /\ g[t] = k
        BY <3>1, <3>3
      <3>5. QED
        BY <3>4
    <2>4. \A x, y \in N : g[x] = g[y] => x = y
      BY <1>1
    <2>5. g \in [N -> K]
      <3> HIDE DEF K
      <3>1. \A t \in N : t.key \in K
        BY <2>2
      <3>2. QED
        BY <3>1
    <2> HIDE DEF g, N, K
    <2>6. QED
      BY <2>3, <2>4, <2>5 DEF Pairs
  <1>6. FN \in [N -> Int] /\ DOMAIN C = K /\ \A t \in N : C[g[t]] = FN[t]
    <2>1. \A t \in N : g[t] \in K /\ g[t] = t.key
      BY <1>5 DEF Pairs
    <2>2. \A t \in N : NoteOf(t) = notes[t.key]
      BY DEF NoteOf
    <2>3. \A t \in N : F[t] = TimesListed(tag, NoteOf(t)) /\ F[t] \in Int
      BY <1>3
    <2> HIDE DEF K, F, g
    <2>4. FN \in [N -> Int] /\ \A t \in N : FN[t] = F[t]
      BY <2>3
    <2> HIDE DEF FN, N
    <2>5. \A t \in N : C[g[t]] = FN[t]
      BY <2>1, <2>2, <2>3, <2>4
    <2>6. QED
      BY <2>4, <2>5
  <1>7. FO \in [O -> Int] /\ \A t \in O : FO[t] = 0
    BY <1>4
  <1>8. N \in SUBSET T /\ O \in SUBSET T /\ N \cap O = {} /\ N \cup O = T
    OBVIOUS
  <1>9. /\ PartialSum(F, N) = SumFunction(FN) /\ PartialSum(F, O) = SumFunction(FO)
        /\ PartialSum(F, T) = SumFunction(F)
    BY DEF PartialSum
  <1>10. TagStat(T, tag).count = SumFunction(F)
    BY DEF TagStat
  <1> HIDE DEF T, N, O, K, F, C, g, FN, FO
  <1>11. IsFiniteSet(N) /\ IsFiniteSet(O)
    BY <1>1, <1>8, FS_Subset
  <1>12. SumFunction(C) = SumFunction(FN)
    BY <1>5, <1>6, <1>11, SumOfPairs
  <1>13. SumFunction(FO) = 0
    BY <1>7, <1>11, SumOfOneSign
  <1>14. PartsAddUp(F, T)
    BY <1>1, <1>3, PartsOfASum
  <1>15. PartialSum(F, N \cup O) = PartialSum(F, N) + PartialSum(F, O) /\ PartialSum(F, N) \in Int
    BY <1>8, <1>14 DEF PartsAddUp
  <1>16. PartialSum(F, T) = PartialSum(F, N) + PartialSum(F, O)
    BY <1>8, <1>15
  <1>17. SumFunction(F) = SumFunction(C)
    BY <1>9, <1>12, <1>13, <1>15, <1>16
  <1>18. QED
    BY <1>10, <1>17 DEF T, C, K

-----------------------------------------------------------------------------
(* Everything the journal shows *)

\* The rows of a day are the lines last imported for it, a note stays with its
\* trade, every view adds up to the same result, and the statistics are those of
\* their definitions, after any imports and notes (daytrade_interactor).
THEOREM JournalStaysExact == DtSpec => []JournalIsExact
  <1>1. ASSUME JournalInv
        PROVE  JournalIsExact
    <2>1. JournalType /\ ImportIsExact /\ ReplyCountsRows
      BY <1>1 DEF JournalInv
    <2>2. NotesFollowTrades
      BY <1>1, NotesFollow
    <2>3. ViewsAgree
      BY <2>1, ViewsAreSound
    <2>4. EquityIsExtremal
      BY <2>1, EquityIsSound
    <2>5. WorstTradesDominate
      BY <2>1, WorstDominate
    <2>6. TagsCountTrades
      BY <2>1, TagsAreExact
    <2>7. QED
      BY <2>1, <2>2, <2>3, <2>4, <2>5, <2>6 DEF JournalIsExact
  <1>2. DtSpec => []JournalInv
    BY JournalInvHolds
  <1>3. QED
    BY <1>1, <1>2, PTL
=============================================================================
