------------------------ MODULE BlueSelectionProofs ------------------------
(***************************************************************************)
(* Proofs about BlueSelection, for any communes, scores, quotas, callers   *)
(* and faults: the ranks of a bulletin are 1, 2, ... within the limits of  *)
(* the day (RanksWithinLimits), and the racing tasks implement the daily   *)
(* set of BlueDailySet.                                                    *)
(***************************************************************************)
EXTENDS BlueSelection, FiniteSetTheorems, TLAPS

\* A strict total order on S.
Orders(order, S) ==
  /\ \A c \in S : <<c, c>> \notin order
  /\ \A c, d \in S : c # d => <<c, d>> \in order \/ <<d, c>> \in order
  /\ \A c, d, e \in S : <<c, d>> \in order /\ <<d, e>> \in order => <<c, e>> \in order

\* Rows with the ranks first, ..., last, of as many communes.
Numbered(rows, first, last) ==
  /\ {k.rank : k \in rows} = first..last
  /\ \A k, l \in rows : k.rank = l.rank \/ k.commune = l.commune => k = l

CommunesOf(rows) == {k.commune : k \in rows}

-----------------------------------------------------------------------------
(* Orders and ranks.                                                       *)

\* The orders of the selection are strict and total.
LEMMA ScoreOrders ==
  ASSUME TypeOK
  PROVE  Orders(HigherScore, Communes) /\ Orders(FasterGrowth, Communes)
<1>1. \A c \in Communes : c \in Nat /\ score[c] \in Nat /\ Previous[c] \in Nat
  BY CommunesAssumption DEF TypeOK
<1>2. \A c \in Communes : Growth(c) \in Int
  BY <1>1 DEF Growth
<1>3. \A c, d \in Communes : <<c, d>> \in HigherScore <=>
        score[c] > score[d] \/ (score[c] = score[d] /\ c < d)
  BY DEF HigherScore, Pairs
<1>4. \A c, d \in Communes : <<c, d>> \in FasterGrowth <=>
        Growth(c) > Growth(d) \/ (Growth(c) = Growth(d) /\ <<c, d>> \in HigherScore)
  BY DEF FasterGrowth, Pairs
<1>5. Orders(HigherScore, Communes)
  BY <1>1, <1>3 DEF Orders
<1>6. Orders(FasterGrowth, Communes)
  <2>1. ASSUME NEW c \in Communes PROVE <<c, c>> \notin FasterGrowth
    <3>1. <<c, c>> \notin HigherScore
      BY <1>5 DEF Orders
    <3> QED
      BY <1>2, <1>4, <3>1
  <2>2. ASSUME NEW c \in Communes, NEW d \in Communes, c # d
        PROVE  <<c, d>> \in FasterGrowth \/ <<d, c>> \in FasterGrowth
    <3>1. <<c, d>> \in HigherScore \/ <<d, c>> \in HigherScore
      BY <1>5, <2>2 DEF Orders
    <3> QED
      BY <1>2, <1>4, <3>1
  <2>3. ASSUME NEW c \in Communes, NEW d \in Communes, NEW e \in Communes,
               <<c, d>> \in FasterGrowth, <<d, e>> \in FasterGrowth
        PROVE  <<c, e>> \in FasterGrowth
    <3>1. <<c, d>> \in HigherScore /\ <<d, e>> \in HigherScore => <<c, e>> \in HigherScore
      BY <1>5 DEF Orders
    <3> QED
      BY <1>2, <1>4, <2>3, <3>1
  <2> QED
    BY <2>1, <2>2, <2>3 DEF Orders
<1> QED
  BY <1>5, <1>6

\* The places of the communes of a set are 1, 2, ... up to its size.
LEMMA Places ==
  ASSUME NEW S, IsFiniteSet(S), NEW order, Orders(order, S)
  PROVE  /\ {Place(c, S, order) : c \in S} = 1..Cardinality(S)
         /\ \A c, d \in S : Place(c, S, order) = Place(d, S, order) => c = d
         /\ Cardinality(S) \in Nat
<1> DEFINE before(c) == {d \in S : <<d, c>> \in order}
           place == [c \in S |-> Place(c, S, order)]
<1>1. Cardinality(S) \in Nat
  BY FS_CardinalityType
<1>2. \A c \in S : before(c) \in SUBSET S /\ IsFiniteSet(before(c)) /\ Cardinality(before(c)) \in Nat
  BY FS_Subset, FS_CardinalityType
<1>3. ASSUME NEW c \in S PROVE Cardinality(before(c)) < Cardinality(S)
  <2>1. before(c) # S
    BY DEF Orders
  <2> HIDE DEF before
  <2>2. /\ Cardinality(before(c)) <= Cardinality(S)
        /\ Cardinality(S) = Cardinality(before(c)) => S = before(c)
    BY <1>2, FS_Subset
  <2> QED
    BY <1>1, <1>2, <2>1, <2>2
<1>4. ASSUME NEW c \in S, NEW d \in S, <<c, d>> \in order
      PROVE  Cardinality(before(c)) < Cardinality(before(d))
  <2>1. before(c) \in SUBSET before(d) /\ before(c) # before(d)
    BY <1>4 DEF Orders
  <2> HIDE DEF before
  <2>2. /\ Cardinality(before(c)) <= Cardinality(before(d))
        /\ Cardinality(before(d)) = Cardinality(before(c)) => before(d) = before(c)
    BY <1>2, <2>1, FS_Subset
  <2> QED
    BY <1>2, <2>1, <2>2
<1>5. \A c \in S : Place(c, S, order) = Cardinality(before(c)) + 1
  BY DEF Place
<1>6. \A c, d \in S : Place(c, S, order) = Place(d, S, order) => c = d
  <2> SUFFICES ASSUME NEW c \in S, NEW d \in S, c # d
               PROVE  Cardinality(before(c)) + 1 # Cardinality(before(d)) + 1
    BY <1>5
  <2>1. <<c, d>> \in order \/ <<d, c>> \in order
    BY DEF Orders
  <2> HIDE DEF before
  <2> QED
    BY <1>2, <1>4, <2>1
<1>7. place \in Injection(S, 1..Cardinality(S))
  <2>1. \A c \in S : Place(c, S, order) \in 1..Cardinality(S)
    <3> HIDE DEF before
    <3> QED
      BY <1>1, <1>2, <1>3, <1>5
  <2> QED
    BY <1>6, <2>1 DEF Injection, IsInjective
<1>8. place \in Surjection(S, 1..Cardinality(S))
  <2>1. IsFiniteSet(1..Cardinality(S)) /\ Cardinality(1..Cardinality(S)) = Cardinality(S)
    BY <1>1, FS_Interval
  <2> HIDE DEF place
  <2> QED
    BY <1>7, <2>1, FS_Injection
<1>9. {Place(c, S, order) : c \in S} = 1..Cardinality(S)
  BY <1>8 DEF Surjection
<1> QED
  BY <1>1, <1>6, <1>9

\* The rows of a group have the ranks after the first ones.
LEMMA RowsNumbered ==
  ASSUME NEW S, IsFiniteSet(S), NEW order, Orders(order, S), NEW first \in Nat, NEW reason
  PROVE  /\ Numbered(Rows(first, S, reason, order), first + 1, first + Cardinality(S))
         /\ CommunesOf(Rows(first, S, reason, order)) = S
<1> DEFINE rows == Rows(first, S, reason, order)
<1>1. /\ {Place(c, S, order) : c \in S} = 1..Cardinality(S)
      /\ \A c, d \in S : Place(c, S, order) = Place(d, S, order) => c = d
      /\ Cardinality(S) \in Nat
  BY Places
<1>2. \A c \in S : Place(c, S, order) \in 1..Cardinality(S)
  BY <1>1
<1>3. {k.rank : k \in rows} = {first + Place(c, S, order) : c \in S}
  <2> DEFINE row(c) == [commune |-> c, rank |-> first + Place(c, S, order), reason |-> reason]
  <2>1. rows = {row(c) : c \in S}
    BY DEF Rows
  <2>2. \A c \in S : row(c).rank = first + Place(c, S, order)
    OBVIOUS
  <2> HIDE DEF row, rows
  <2> QED
    BY <2>1, <2>2
<1>4. {first + Place(c, S, order) : c \in S} = (first + 1)..(first + Cardinality(S))
  <2>1. ASSUME NEW n \in (first + 1)..(first + Cardinality(S))
        PROVE  \E c \in S : n = first + Place(c, S, order)
    <3>1. n - first \in 1..Cardinality(S) /\ n = first + (n - first)
      BY <1>1
    <3> QED
      BY <1>1, <3>1
  <2> QED
    BY <1>1, <1>2, <2>1
<1>5. \A k, l \in rows : k.rank = l.rank \/ k.commune = l.commune => k = l
  <2> SUFFICES ASSUME NEW k \in rows, NEW l \in rows, k.rank = l.rank \/ k.commune = l.commune
               PROVE  k = l
    OBVIOUS
  <2>1. PICK c \in S : k = [commune |-> c, rank |-> first + Place(c, S, order), reason |-> reason]
    BY DEF Rows
  <2>2. PICK d \in S : l = [commune |-> d, rank |-> first + Place(d, S, order), reason |-> reason]
    BY DEF Rows
  <2>3. c = d
    BY <1>1, <1>2, <2>1, <2>2
  <2> QED
    BY <2>1, <2>2, <2>3
<1>6. CommunesOf(rows) = S
  <2> DEFINE row(c) == [commune |-> c, rank |-> first + Place(c, S, order), reason |-> reason]
  <2>1. rows = {row(c) : c \in S}
    BY DEF Rows
  <2>2. \A c \in S : row(c).commune = c
    OBVIOUS
  <2> HIDE DEF row, rows
  <2> QED
    BY <2>1, <2>2 DEF CommunesOf
<1> QED
  BY <1>3, <1>4, <1>5, <1>6 DEF Numbered

\* Groups of rows of other communes follow each other.
LEMMA Followed ==
  ASSUME NEW K, NEW L, NEW a \in Nat, NEW b \in Nat, NEW c \in Nat, a <= b + 1, b <= c,
         Numbered(K, a, b), Numbered(L, b + 1, c), CommunesOf(K) \cap CommunesOf(L) = {}
  PROVE  Numbered(K \cup L, a, c)
<1>1. \A k \in K, l \in L : k.rank \in a..b /\ l.rank \in (b + 1)..c /\ k.commune # l.commune
  BY DEF Numbered, CommunesOf
<1>2. \A k \in K, l \in L : k.rank # l.rank
  BY <1>1
<1>3. {k.rank : k \in K \cup L} = (a..b) \cup ((b + 1)..c)
  BY DEF Numbered
<1>4. (a..b) \cup ((b + 1)..c) = a..c
  OBVIOUS
<1> QED
  BY <1>1, <1>2, <1>3, <1>4 DEF Numbered

\* Numbered rows are as many as their ranks.
LEMMA RankCount ==
  ASSUME NEW K, NEW a \in Nat, NEW b \in Nat, a <= b + 1, Numbered(K, a, b)
  PROVE  IsFiniteSet(K) /\ Cardinality(K) = b - a + 1
<1> DEFINE row == [n \in a..b |-> CHOOSE k \in K : k.rank = n]
<1>1. \A n \in a..b : row[n] \in K /\ row[n].rank = n
  BY DEF Numbered
<1>2. \A k \in K : k.rank \in a..b /\ row[k.rank] = k
  BY <1>1 DEF Numbered
<1>3. row \in Bijection(a..b, K)
  <2>1. row \in [a..b -> K]
    BY <1>1
  <2>2. \A m, n \in a..b : row[m] = row[n] => m = n
    <3> HIDE DEF row
    <3> QED
      BY <1>1
  <2>3. \A k \in K : \E n \in a..b : row[n] = k
    <3> HIDE DEF row
    <3> QED
      BY <1>2
  <2> HIDE DEF row
  <2> QED
    BY <2>1, <2>2, <2>3 DEF Bijection, Injection, Surjection, IsInjective
<1>4. IsFiniteSet(a..b) /\ Cardinality(a..b) = b - a + 1
  BY FS_Interval
<1> QED
  BY <1>3, <1>4, FS_Bijection DEF ExistsBijection

\* A part of numbered rows is numbered.
LEMMA PartNumbered ==
  ASSUME NEW K, NEW a \in Nat, NEW b \in Nat, Numbered(K, a, b),
         NEW c \in Nat, NEW d \in Nat, a <= c, d <= b
  PROVE  Numbered({k \in K : k.rank \in c..d}, c, d)
<1>1. \A n \in c..d : n \in a..b
  OBVIOUS
<1> QED
  BY <1>1 DEF Numbered

\* Numbered rows are of as many communes.
LEMMA CommuneCount ==
  ASSUME NEW K, NEW a \in Nat, NEW b \in Nat, a <= b + 1, Numbered(K, a, b)
  PROVE  IsFiniteSet(CommunesOf(K)) /\ Cardinality(CommunesOf(K)) = b - a + 1
<1> DEFINE commune == [k \in K |-> k.commune]
<1>1. IsFiniteSet(K) /\ Cardinality(K) = b - a + 1
  BY RankCount
<1>2. commune \in Bijection(K, CommunesOf(K))
  BY DEF Numbered, CommunesOf, Bijection, Injection, Surjection, IsInjective
<1> QED
  BY <1>1, <1>2, FS_Bijection DEF ExistsBijection

\* The first n of a set are n at most; when one is left out they are n, and
\* each comes before it.
LEMMA TopFull ==
  ASSUME NEW S, IsFiniteSet(S), NEW order, Orders(order, S), NEW n \in Nat
  PROVE  /\ Top(n, S, order) \subseteq S /\ IsFiniteSet(Top(n, S, order))
         /\ Cardinality(Top(n, S, order)) <= n
         /\ \A c \in S \ Top(n, S, order) :
              /\ Cardinality(Top(n, S, order)) = n
              /\ \A d \in Top(n, S, order) : <<d, c>> \in order
<1> DEFINE T == Top(n, S, order)
           before(c) == {d \in S : <<d, c>> \in order}
           place == [c \in T |-> Place(c, S, order)]
<1>1. /\ {Place(c, S, order) : c \in S} = 1..Cardinality(S)
      /\ \A c, d \in S : Place(c, S, order) = Place(d, S, order) => c = d
      /\ Cardinality(S) \in Nat
  BY Places
<1>2. \A c \in S : Place(c, S, order) \in 1..Cardinality(S)
  BY <1>1
<1>3. T \subseteq S /\ \A c \in S : c \in T <=> Place(c, S, order) <= n
  BY DEF Top
<1>4. IsFiniteSet(T) /\ Cardinality(T) \in Nat
  BY <1>3, FS_Subset, FS_CardinalityType
<1>5. place \in Injection(T, 1..n)
  <2>1. \A c \in T : Place(c, S, order) \in 1..n
    BY <1>2, <1>3
  <2>2. \A c, d \in T : Place(c, S, order) = Place(d, S, order) => c = d
    BY <1>1, <1>3
  <2> HIDE DEF T
  <2> QED
    BY <2>1, <2>2 DEF Injection, IsInjective
<1>6. IsFiniteSet(1..n) /\ Cardinality(1..n) = n
  BY FS_Interval
<1>7. Cardinality(T) <= n
  <2> HIDE DEF place, T
  <2> QED
    BY <1>5, <1>6, FS_Injection
<1>8. ASSUME NEW c \in S \ T
      PROVE  Cardinality(T) = n /\ \A d \in T : <<d, c>> \in order
  <2>1. Place(c, S, order) > n
    BY <1>2, <1>3, <1>8
  <2>2. n <= Cardinality(S)
    BY <1>1, <1>2, <2>1
  <2>3. \A r \in 1..n : \E d \in T : Place(d, S, order) = r
    <3> SUFFICES ASSUME NEW r \in 1..n PROVE \E d \in T : Place(d, S, order) = r
      OBVIOUS
    <3>1. r \in 1..Cardinality(S)
      BY <1>1, <2>2
    <3>2. PICK d \in S : Place(d, S, order) = r
      BY <1>1, <3>1
    <3>3. d \in T
      BY <1>3, <3>2
    <3> QED
      BY <3>2, <3>3
  <2>4. place \in Surjection(T, 1..n)
    <3>1. place \in [T -> 1..n]
      BY <1>5 DEF Injection
    <3>2. \A r \in 1..n : \E d \in T : place[d] = r
      BY <2>3
    <3> HIDE DEF place, T
    <3> QED
      BY <3>1, <3>2 DEF Surjection
  <2>5. Cardinality(T) = n
    <3> HIDE DEF place, T
    <3> QED
      BY <1>5, <1>6, <2>4, FS_Injection
  <2>6. ASSUME NEW d \in T PROVE <<d, c>> \in order
    <3>1. d \in S /\ c # d
      BY <1>3, <1>8
    <3>2. CASE <<c, d>> \in order
      <4>1. before(c) \in SUBSET before(d)
        BY <3>1, <3>2 DEF Orders
      <4>2. IsFiniteSet(before(d)) /\ IsFiniteSet(before(c))
        BY FS_Subset
      <4>3. Cardinality(before(c)) <= Cardinality(before(d))
        BY <4>1, <4>2, FS_Subset
      <4>4. Cardinality(before(c)) \in Nat /\ Cardinality(before(d)) \in Nat
        BY <4>2, FS_CardinalityType
      <4>5. /\ Place(c, S, order) = Cardinality(before(c)) + 1
            /\ Place(d, S, order) = Cardinality(before(d)) + 1
        BY DEF Place
      <4>6. Place(d, S, order) <= n
        BY <1>3, <3>1
      <4> HIDE DEF before
      <4> QED
        BY <2>1, <4>3, <4>4, <4>5, <4>6
    <3> QED
      BY <3>1, <3>2 DEF Orders
  <2> QED
    BY <2>5, <2>6
<1> QED
  BY <1>3, <1>4, <1>7, <1>8

\* Each set of communes has a first one.
LEMMA FirstOne ==
  ASSUME NEW S, IsFiniteSet(S), NEW order, Orders(order, S), S # {}
  PROVE  \E c \in S : \A d \in S : c = d \/ <<c, d>> \in order
<1>1. /\ {Place(c, S, order) : c \in S} = 1..Cardinality(S)
      /\ Cardinality(S) \in Nat
  BY Places
<1>2. 1 \in 1..Cardinality(S)
  BY <1>1
<1>3. PICK c \in S : Place(c, S, order) = 1
  BY <1>1, <1>2
<1> DEFINE before == {d \in S : <<d, c>> \in order}
<1>4. IsFiniteSet(before) /\ Cardinality(before) \in Nat
  BY FS_Subset, FS_CardinalityType
<1>5. Cardinality(before) + 1 = 1
  BY <1>3 DEF Place
<1>6. before = {}
  <2> HIDE DEF before
  <2>1. Cardinality(before) = 0
    BY <1>4, <1>5
  <2> QED
    BY <1>4, <2>1, FS_EmptySet
<1>7. \A d \in S : c = d \/ <<c, d>> \in order
  BY <1>6 DEF Orders
<1> QED
  BY <1>7

-----------------------------------------------------------------------------
(* The selection.                                                          *)

\* The groups of the selection: the best indices, the best departments among
\* the others, and the fastest growth among those that remain.
Nation == Top(National, Candidates, HigherScore)
Territories == Top(Territorial, Leaders(Candidates \ Nation, HigherScore), HigherScore)
Others == Candidates \ (Nation \cup Territories)
Growing == Top(Acceleration, Others, FasterGrowth)

\* Any set of communes is finite and ordered both ways.
LEMMA CommunesOrdered ==
  ASSUME TypeOK, NEW S \in SUBSET Communes
  PROVE  /\ IsFiniteSet(S) /\ Cardinality(S) \in Nat
         /\ Orders(HigherScore, S) /\ Orders(FasterGrowth, S)
<1>1. IsFiniteSet(S)
  BY CommunesAssumption, FS_Subset
<1>2. Orders(HigherScore, S) /\ Orders(FasterGrowth, S)
  BY ScoreOrders DEF Orders
<1> QED
  BY <1>1, <1>2, FS_CardinalityType

\* The groups are disjoint sets of candidates, each within its quota.
LEMMA Groups ==
  ASSUME TypeOK
  PROVE  /\ Candidates \subseteq Communes
         /\ Nation \subseteq Candidates /\ Territories \subseteq Candidates \ Nation
         /\ Territories \subseteq Leaders(Candidates \ Nation, HigherScore)
         /\ Growing \subseteq Others
         /\ Cardinality(Nation) \in 0..National
         /\ Cardinality(Territories) \in 0..Territorial
         /\ Cardinality(Growing) \in 0..Acceleration
<1>1. Candidates \subseteq Communes /\ Nation \subseteq Candidates
  BY DEF Candidates, Nation, Top
<1>2. /\ Territories \subseteq Leaders(Candidates \ Nation, HigherScore)
      /\ Leaders(Candidates \ Nation, HigherScore) \subseteq Candidates \ Nation
  BY DEF Territories, Top, Leaders
<1>3. Growing \subseteq Others /\ Others \subseteq Candidates
  BY DEF Growing, Others, Top
<1>4. \A S \in SUBSET Communes :
        /\ IsFiniteSet(S) /\ Cardinality(S) \in Nat
        /\ Orders(HigherScore, S) /\ Orders(FasterGrowth, S)
  BY CommunesOrdered
<1>5. National \in Nat /\ Territorial \in Nat /\ Acceleration \in Nat
  BY LimitsAssumption
<1>6. Cardinality(Nation) <= National /\ Cardinality(Nation) \in Nat
  BY <1>1, <1>4, <1>5, TopFull DEF Nation
<1>7. Cardinality(Territories) <= Territorial /\ Cardinality(Territories) \in Nat
  <2>1. Leaders(Candidates \ Nation, HigherScore) \in SUBSET Communes
    BY <1>1, <1>2
  <2>2. Territories \in SUBSET Communes
    BY <1>1, <1>2
  <2> QED
    BY <1>4, <1>5, <2>1, <2>2, TopFull DEF Territories
<1>8. Cardinality(Growing) <= Acceleration /\ Cardinality(Growing) \in Nat
  <2>1. Others \in SUBSET Communes /\ Growing \in SUBSET Communes
    BY <1>1, <1>3
  <2> QED
    BY <1>4, <1>5, <2>1, TopFull DEF Growing
<1> QED
  BY <1>1, <1>2, <1>3, <1>5, <1>6, <1>7, <1>8

\* The ranking has every candidate, and the groups before the others.
LEMMA RankingNumbered ==
  ASSUME TypeOK
  PROVE  /\ \E n \in Nat : Numbered(Ranking, 1, n)
         /\ CommunesOf(Ranking) = Candidates
         /\ \A k \in Ranking :
              k.commune \in Nation \cup Territories \cup Growing
                => k.rank <= National + Territorial + Acceleration
<1> DEFINE last == Others \ Growing
           one == Cardinality(Nation)
           two == one + Cardinality(Territories)
           three == two + Cardinality(Growing)
           four == three + Cardinality(last)
           A == Rows(0, Nation, "national_top", HigherScore)
           B == Rows(one, Territories, "territorial_top", HigherScore)
           C == Rows(two, Growing, "risk_acceleration", FasterGrowth)
           D == Rows(three, last, "national_top", HigherScore)
<1>1. /\ Nation \in SUBSET Communes /\ Territories \in SUBSET Communes
      /\ Growing \in SUBSET Communes /\ last \in SUBSET Communes
      /\ Nation \cap Territories = {} /\ (Nation \cup Territories) \cap Growing = {}
      /\ (Nation \cup Territories \cup Growing) \cap last = {}
      /\ Nation \cup Territories \cup Growing \cup last = Candidates
  BY Groups DEF Others
<1>2. \A S \in SUBSET Communes :
        /\ IsFiniteSet(S) /\ Cardinality(S) \in Nat
        /\ Orders(HigherScore, S) /\ Orders(FasterGrowth, S)
  BY CommunesOrdered
<1>3. Ranking = A \cup B \cup C \cup D
  BY DEF Ranking, Nation, Territories, Others, Growing
<1> HIDE DEF last
<1>4. one \in Nat /\ two \in Nat /\ three \in Nat /\ four \in Nat
      /\ one <= two /\ two <= three /\ three <= four
  BY <1>1, <1>2
<1>5. Numbered(A, 1, one) /\ CommunesOf(A) = Nation
  <2>1. Numbered(A, 0 + 1, 0 + one) /\ CommunesOf(A) = Nation
    BY <1>1, <1>2, RowsNumbered
  <2> QED
    BY <1>4, <2>1
<1>6. Numbered(B, one + 1, two) /\ CommunesOf(B) = Territories
  BY <1>1, <1>2, <1>4, RowsNumbered
<1>7. Numbered(C, two + 1, three) /\ CommunesOf(C) = Growing
  BY <1>1, <1>2, <1>4, RowsNumbered
<1>8. Numbered(D, three + 1, four) /\ CommunesOf(D) = last
  BY <1>1, <1>2, <1>4, RowsNumbered
<1>9. three <= National + Territorial + Acceleration
  BY Groups, LimitsAssumption
<1> HIDE DEF A, B, C, D, one, two, three, four
<1>10. Numbered(A \cup B, 1, two) /\ CommunesOf(A \cup B) = Nation \cup Territories
  <2>1. CommunesOf(A \cup B) = Nation \cup Territories
    BY <1>5, <1>6 DEF CommunesOf
  <2> QED
    BY <1>1, <1>4, <1>5, <1>6, <2>1, Followed
<1>11. /\ Numbered(A \cup B \cup C, 1, three)
       /\ CommunesOf(A \cup B \cup C) = Nation \cup Territories \cup Growing
  <2>1. CommunesOf(A \cup B \cup C) = Nation \cup Territories \cup Growing
    BY <1>7, <1>10 DEF CommunesOf
  <2> QED
    BY <1>1, <1>4, <1>7, <1>10, <2>1, Followed
<1>12. Numbered(Ranking, 1, four) /\ CommunesOf(Ranking) = Candidates
  <2>1. CommunesOf(A \cup B \cup C \cup D) = Nation \cup Territories \cup Growing \cup last
    BY <1>8, <1>11 DEF CommunesOf
  <2>2. CommunesOf(A \cup B \cup C) \cap CommunesOf(D) = {}
    BY <1>1, <1>8, <1>11
  <2>3. \A K : Numbered(K, 1, three) /\ CommunesOf(K) \cap CommunesOf(D) = {}
                => Numbered(K \cup D, 1, four)
    BY <1>4, <1>8, Followed
  <2>4. Numbered((A \cup B \cup C) \cup D, 1, four)
    BY <1>11, <2>2, <2>3
  <2> QED
    BY <1>1, <1>3, <2>1, <2>4
<1>13. ASSUME NEW k \in Ranking, k.commune \in Nation \cup Territories \cup Growing
       PROVE  k.rank <= National + Territorial + Acceleration
  <2>1. k.commune \notin last
    BY <1>1, <1>13
  <2>2. k \notin D
    BY <1>8, <2>1 DEF CommunesOf
  <2>3. k \in A \cup B \cup C
    BY <1>3, <2>2
  <2>4. k.rank \in 1..three
    BY <1>11, <2>3 DEF Numbered
  <2> QED
    BY <1>4, <1>9, <2>4, LimitsAssumption
<1> QED
  BY <1>4, <1>12, <1>13

\* The selection has the ranks from 1 on, up to the limit, or to the last
\* candidate when none is left out, and depends on the scores only.
LEMMA SelectionRanked ==
  ASSUME TypeOK
  PROVE  /\ \E n \in 0..ProactiveLimit :
              /\ Numbered(Selection, 1, n)
              /\ Candidates \ CommunesOf(Selection) # {} => n = ProactiveLimit
         /\ CommunesOf(Selection) \subseteq Candidates
         /\ Nation \cup Territories \cup Growing \subseteq CommunesOf(Selection)
<1>1. PICK four \in Nat : Numbered(Ranking, 1, four)
  BY RankingNumbered
<1>2. PICK m \in Nat : m = Least(DailyLimit, ProactiveLimit) /\ m = ProactiveLimit
  BY LimitsAssumption DEF Least
<1>3. PICK n \in Nat : n <= m /\ n <= four /\ (n = m \/ n = four)
  BY <1>1, <1>2
<1>4. Selection = {k \in Ranking : k.rank \in 1..n}
  <2>1. \A k \in Ranking : k.rank \in 1..four
    BY <1>1 DEF Numbered
  <2>2. \A k \in Ranking : k.rank <= m <=> k.rank \in 1..n
    BY <1>1, <1>3, <2>1
  <2> QED
    BY <1>2, <2>2 DEF Selection
<1>5. Numbered(Selection, 1, n)
  BY <1>1, <1>3, <1>4, PartNumbered
<1>6. CommunesOf(Selection) \subseteq Candidates
  BY RankingNumbered DEF Selection, CommunesOf
<1>7. ASSUME NEW c \in Candidates \ CommunesOf(Selection) PROVE n = ProactiveLimit
  <2>1. PICK k \in Ranking : k.commune = c
    BY RankingNumbered DEF CommunesOf
  <2>2. k \notin Selection
    BY <1>7, <2>1 DEF CommunesOf
  <2>3. k.rank \in 1..four
    BY <1>1 DEF Numbered
  <2> QED
    BY <1>2, <1>3, <1>4, <2>2, <2>3
<1>8. ASSUME NEW c \in Nation \cup Territories \cup Growing
      PROVE  c \in CommunesOf(Selection)
  <2>1. c \in Candidates
    BY Groups DEF Others
  <2>2. PICK k \in Ranking : k.commune = c
    BY <2>1, RankingNumbered DEF CommunesOf
  <2>3. k.rank <= National + Territorial + Acceleration /\ k.rank \in 1..four
    BY <1>1, <2>2, RankingNumbered DEF Numbered
  <2>4. k.rank <= Least(DailyLimit, ProactiveLimit)
    BY <1>2, <2>3, LimitsAssumption, QuotasAssumption
  <2> QED
    BY <2>2, <2>4 DEF Selection, CommunesOf
<1>9. n \in 0..ProactiveLimit
  BY <1>2, <1>3
<1> QED
  BY <1>5, <1>6, <1>7, <1>8, <1>9

LEMMA SelectionNumbered ==
  ASSUME TypeOK
  PROVE  \E n \in 0..ProactiveLimit :
           Numbered(Selection, 1, n) /\ CommunesOf(Selection) \subseteq Communes
<1>1. Candidates \subseteq Communes
  BY DEF Candidates
<1> QED
  BY <1>1, SelectionRanked

\* A commune beyond the nation's first whose department the territories do not
\* have comes after the territories, which are full and of distinct departments.
LEMMA TerritoriesFull ==
  ASSUME TypeOK, NEW c \in Candidates \ Nation, Department[c] # None,
         \A d \in Territories : Department[d] # Department[c]
  PROVE  /\ \A d \in Territories : <<d, c>> \in HigherScore
         /\ IsFiniteSet({Department[d] : d \in Territories})
         /\ Cardinality({Department[d] : d \in Territories}) = Territorial
<1> DEFINE T == Candidates \ Nation
           L == Leaders(T, HigherScore)
           same == {d \in T : Department[d] = Department[c]}
           departments == {Department[d] : d \in Territories}
           department == [d \in Territories |-> Department[d]]
<1>1. T \in SUBSET Communes /\ L \in SUBSET T /\ same \in SUBSET T
      /\ Territories \in SUBSET L
  BY Groups DEF Leaders
<1>2. \A S \in SUBSET Communes : IsFiniteSet(S) /\ Orders(HigherScore, S)
  BY CommunesOrdered
<1>3. PICK l \in same : \A d \in same : l = d \/ <<l, d>> \in HigherScore
  <2>1. IsFiniteSet(same) /\ Orders(HigherScore, same) /\ same # {}
    BY <1>1, <1>2
  <2> HIDE DEF same
  <2> QED
    BY <2>1, FirstOne
<1>4. l \in L /\ Department[l] = Department[c]
  BY <1>1, <1>3 DEF Leaders
<1>5. l = c \/ <<l, c>> \in HigherScore
  BY <1>3
<1>6. l \in L \ Territories
  BY <1>4
<1>7. /\ Cardinality(Territories) = Territorial
      /\ \A d \in Territories : <<d, l>> \in HigherScore
  <2>1. IsFiniteSet(L) /\ Orders(HigherScore, L) /\ Territories = Top(Territorial, L, HigherScore)
    BY <1>1, <1>2 DEF Territories
  <2>2. Territorial \in Nat
    BY LimitsAssumption
  <2> HIDE DEF L
  <2> QED
    BY <1>6, <2>1, <2>2, TopFull
<1>8. \A d \in Territories : <<d, c>> \in HigherScore
  <2>1. Orders(HigherScore, Communes)
    BY <1>2
  <2>2. \A d \in Territories : d \in Communes /\ l \in Communes /\ c \in Communes
    BY <1>1, <1>4
  <2> QED
    BY <1>5, <1>7, <2>1, <2>2 DEF Orders
<1>9. \A d, e \in Territories : Department[d] = Department[e] => d = e
  <2> SUFFICES ASSUME NEW d \in Territories, NEW e \in Territories,
                      Department[d] = Department[e], d # e
               PROVE  FALSE
    OBVIOUS
  <2>1. d \in T /\ e \in T
    BY <1>1
  <2>2. <<d, e>> \in HigherScore /\ <<e, d>> \in HigherScore
    BY <1>1, <2>1 DEF Leaders
  <2>3. Orders(HigherScore, T)
    BY <1>1, <1>2
  <2> QED
    BY <2>1, <2>2, <2>3 DEF Orders
<1>10. department \in Bijection(Territories, departments)
  BY <1>9 DEF Bijection, Injection, Surjection, IsInjective
<1>11. IsFiniteSet(Territories)
  <2>1. Territories \in SUBSET Communes
    BY <1>1
  <2> QED
    BY <1>2, <2>1
<1>12. IsFiniteSet(departments) /\ Cardinality(departments) = Territorial
  BY <1>7, <1>10, <1>11, FS_Bijection DEF ExistsBijection
<1> QED
  BY <1>8, <1>12

\* The quotas justify each commune that the selection leaves out.
LEMMA SelectionDiversified ==
  ASSUME TypeOK
  PROVE  Diversified
<1> DEFINE selected == CommunesOf(Selection)
<1>1. selected = {k.commune : k \in Selection}
  BY DEF CommunesOf
<1>2. /\ selected \subseteq Candidates /\ Candidates \subseteq Communes
      /\ Nation \cup Territories \cup Growing \subseteq selected
      /\ Nation \subseteq Candidates /\ Territories \subseteq Candidates \ Nation
  BY SelectionRanked, Groups
<1>3. \A S \in SUBSET Communes :
        /\ IsFiniteSet(S) /\ Cardinality(S) \in Nat
        /\ Orders(HigherScore, S) /\ Orders(FasterGrowth, S)
  BY CommunesOrdered
<1>4. /\ National \in Nat /\ Territorial \in Nat /\ Acceleration \in Nat
      /\ ProactiveLimit \in Nat
  BY LimitsAssumption
<1> SUFFICES ASSUME NEW c \in Candidates \ selected
             PROVE  LET ahead == {d \in selected : <<d, c>> \in HigherScore}
                        beyond == {d \in selected : Place(d, Candidates, HigherScore) > National}
                    IN /\ Cardinality(selected) = ProactiveLimit
                       /\ Cardinality(ahead) >= National
                       /\ \/ Department[c] = None
                          \/ \E d \in beyond : Department[d] = Department[c]
                          \/ Cardinality({Department[d] : d \in ahead \cap beyond} \ {None})
                               >= Territorial
                       /\ Cardinality({d \in selected : <<d, c>> \in FasterGrowth})
                            >= Acceleration
  BY <1>1 DEF Diversified
<1> HIDE DEF selected
<1> DEFINE ahead == {d \in selected : <<d, c>> \in HigherScore}
           beyond == {d \in selected : Place(d, Candidates, HigherScore) > National}
           faster == {d \in selected : <<d, c>> \in FasterGrowth}
           departments == {Department[d] : d \in ahead \cap beyond} \ {None}
<1>5. Cardinality(selected) = ProactiveLimit
  <2>1. Numbered(Selection, 1, ProactiveLimit)
    BY SelectionRanked DEF selected
  <2>2. Cardinality(CommunesOf(Selection)) = ProactiveLimit - 1 + 1
    BY <1>4, <2>1, CommuneCount
  <2> QED
    BY <1>4, <2>2 DEF selected
<1>6. /\ ahead \in SUBSET Communes /\ beyond \in SUBSET Communes
      /\ faster \in SUBSET Communes
  BY <1>2
<1>7. Cardinality(ahead) >= National
  <2>1. Candidates \in SUBSET Communes /\ c \in Candidates \ Top(National, Candidates, HigherScore)
    BY <1>2 DEF Nation
  <2>2. Cardinality(Nation) = National /\ \A d \in Nation : <<d, c>> \in HigherScore
    BY <1>3, <1>4, <2>1, TopFull DEF Nation
  <2>3. Nation \in SUBSET ahead
    BY <1>2, <2>2
  <2> HIDE DEF ahead
  <2>4. Cardinality(Nation) <= Cardinality(ahead)
    BY <1>3, <1>6, <2>3, FS_Subset
  <2> QED
    BY <1>3, <1>4, <1>6, <2>2, <2>4
<1>8. Territories \in SUBSET beyond
  <2>1. {Place(d, Candidates, HigherScore) : d \in Candidates} = 1..Cardinality(Candidates)
    BY <1>2, <1>3, Places
  <2>2. \A d \in Candidates : Place(d, Candidates, HigherScore) \in Nat
    BY <2>1
  <2>3. \A d \in Candidates \ Nation : Place(d, Candidates, HigherScore) > National
    BY <1>4, <2>2 DEF Nation, Top
  <2> QED
    BY <1>2, <2>3
<1>9. ASSUME Department[c] # None, \A d \in beyond : Department[d] # Department[c]
      PROVE  Cardinality(departments) >= Territorial
  <2> DEFINE leading == {Department[d] : d \in Territories}
  <2>1. c \in Candidates \ Nation /\ \A d \in Territories : Department[d] # Department[c]
    BY <1>2, <1>8, <1>9
  <2>2. /\ \A d \in Territories : <<d, c>> \in HigherScore
        /\ IsFiniteSet(leading) /\ Cardinality(leading) = Territorial
    BY <1>9, <2>1, TerritoriesFull
  <2>3. \A d \in Territories : Department[d] # None /\ d \in ahead \cap beyond
    BY <1>2, <1>8, <2>2, Groups DEF Leaders
  <2>4. leading \in SUBSET departments
    BY <2>3
  <2>5. IsFiniteSet(departments)
    <3> DEFINE both == ahead \cap beyond
               department == [d \in both |-> Department[d]]
               all == {Department[d] : d \in both}
    <3>1. IsFiniteSet(both)
      <4>1. both \in SUBSET Communes
        BY <1>6
      <4> QED
        BY <1>3, <4>1
    <3> HIDE DEF both
    <3>2. department \in Surjection(both, all)
      BY DEF Surjection
    <3>3. IsFiniteSet(all)
      BY <3>1, <3>2, FS_Surjection
    <3>4. departments \in SUBSET all
      BY DEF both
    <3> HIDE DEF all, departments
    <3> QED
      BY <3>3, <3>4, FS_Subset
  <2> HIDE DEF departments, leading
  <2>6. Cardinality(leading) <= Cardinality(departments)
    BY <2>4, <2>5, FS_Subset
  <2>7. Cardinality(departments) \in Nat
    BY <2>5, FS_CardinalityType
  <2> QED
    BY <1>4, <2>2, <2>6, <2>7
<1>10. Cardinality(faster) >= Acceleration
  <2>1. Others \in SUBSET Communes /\ c \in Others \ Growing
    BY <1>2 DEF Others
  <2>2. Cardinality(Growing) = Acceleration /\ \A d \in Growing : <<d, c>> \in FasterGrowth
    BY <1>3, <1>4, <2>1, TopFull DEF Growing
  <2>3. Growing \in SUBSET faster
    BY <1>2, <2>2
  <2> HIDE DEF faster
  <2>4. Cardinality(Growing) <= Cardinality(faster)
    BY <1>3, <1>6, <2>3, FS_Subset
  <2> QED
    BY <1>3, <1>4, <1>6, <2>2, <2>4
<1> QED
  BY <1>5, <1>7, <1>9, <1>10

\* The rows of the selection are cases.
LEMMA SelectionCases ==
  ASSUME TypeOK
  PROVE  /\ Selection \subseteq Case
         /\ \A k \in Selection : k.reason # "reactive_signal"
<1>1. \A k \in Ranking : /\ k = [commune |-> k.commune, rank |-> k.rank, reason |-> k.reason]
                          /\ k.reason \in Reasons \ {"reactive_signal"}
  BY DEF Ranking, Rows, Reasons
<1>2. PICK n \in 0..ProactiveLimit :
        Numbered(Selection, 1, n) /\ CommunesOf(Selection) \subseteq Communes
  BY SelectionNumbered
<1>3. \A k \in Selection : k.commune \in Communes /\ k.rank \in 1..DailyLimit
  BY <1>2, LimitsAssumption DEF Numbered, CommunesOf
<1>4. Selection \subseteq Ranking
  BY DEF Selection
<1> QED
  BY <1>1, <1>3, <1>4 DEF Case

\* The scores do not change, and the selection is made of nothing else.
LEMMA SelectionStays ==
  ASSUME score' = score
  PROVE  Selection' = Selection
<1>1. Candidates' = Candidates
  BY DEF Candidates
<1>2. HigherScore' = HigherScore
  BY DEF HigherScore
<1>3. FasterGrowth' = FasterGrowth
  BY <1>2 DEF FasterGrowth, Growth
<1>4. Ranking' = Ranking
  BY <1>1, <1>2, <1>3 DEF Ranking
<1> QED
  BY <1>4 DEF Selection

-----------------------------------------------------------------------------
(* The table.                                                              *)

\* Rows computed when the table had the ranks up to f, for communes without a
\* case then: they are all refused, or what they add follows the last rank.
LEMMA Inserts ==
  ASSUME NEW rows, NEW f \in Nat, NEW h \in Nat, NEW n \in Nat, f <= h, f <= n,
         Numbered(cases, 1, h), Numbered(rows, f + 1, n),
         \A k \in rows, l \in cases : l.rank <= f => k.commune # l.commune,
         DailyLimit \in Nat, Insert(rows), cases' # cases
  PROVE  /\ cases' = cases \cup {k \in rows : ~HasCase(k.commune)}
         /\ Numbered(cases', 1, n) /\ h < n /\ n <= DailyLimit
         /\ \A k \in cases' \ cases : k \in rows /\ k.rank > h
         /\ \A k \in rows : \E l \in cases' : l.commune = k.commune
<1> DEFINE new == {k \in rows : ~HasCase(k.commune)}
           late == {k \in rows : k.rank \in (h + 1)..n}
           early == {k \in rows : k.rank \in (f + 1)..h}
           since == {l \in cases : l.rank \in (f + 1)..h}
<1>1. /\ cases' = cases \cup new
      /\ \A k \in new : ~(k.rank > DailyLimit) /\ \A l \in cases : l.rank # k.rank
  BY DEF Insert
<1>2. /\ \A k \in rows : k.rank \in (f + 1)..n
      /\ \A l \in cases : l.rank \in 1..h
      /\ \A r \in 1..h : \E l \in cases : l.rank = r
  BY DEF Numbered
<1>3. \A k \in new : k.rank > h
  <2> SUFFICES ASSUME NEW k \in new, ~(k.rank > h) PROVE FALSE
    OBVIOUS
  <2>1. k.rank \in 1..h
    BY <1>2
  <2> QED
    BY <1>1, <1>2, <2>1
<1>4. h < n
  <2>1. PICK k \in new : TRUE
    BY <1>1
  <2> QED
    BY <1>2, <1>3, <2>1
<1>5. Numbered(late, h + 1, n) /\ Numbered(early, f + 1, h) /\ Numbered(since, f + 1, h)
  BY <1>4, PartNumbered
<1>6. \A k \in early : \E l \in since : l.commune = k.commune
  <2> SUFFICES ASSUME NEW k \in early PROVE \E l \in since : l.commune = k.commune
    OBVIOUS
  <2>1. HasCase(k.commune)
    BY <1>3
  <2>2. PICK l \in cases : l.commune = k.commune
    BY <2>1 DEF HasCase
  <2>3. l.rank \in (f + 1)..h
    BY <1>2, <2>2
  <2> QED
    BY <2>2, <2>3
<1>7. \A l \in since : \E k \in early : l.commune = k.commune
  <2> DEFINE taken == [k \in early |-> CHOOSE l \in since : l.commune = k.commune]
  <2>1. \A k \in early : taken[k] \in since /\ taken[k].commune = k.commune
    BY <1>6
  <2> HIDE DEF taken, early, since
  <2>2. taken \in Injection(early, since)
    <3>1. taken \in [early -> since]
      BY <2>1 DEF taken
    <3>2. \A k, l \in early : taken[k] = taken[l] => k = l
      BY <1>5, <2>1 DEF Numbered
    <3> QED
      BY <3>1, <3>2 DEF Injection, IsInjective
  <2>3. IsFiniteSet(since) /\ Cardinality(early) = Cardinality(since)
    <3>1. f + 1 \in Nat /\ f + 1 <= h + 1
      OBVIOUS
    <3>2. \A K : Numbered(K, f + 1, h)
                => IsFiniteSet(K) /\ Cardinality(K) = h - (f + 1) + 1
      BY <3>1, RankCount
    <3> QED
      BY <1>5, <3>2
  <2>4. taken \in Surjection(early, since)
    BY <2>2, <2>3, FS_Injection
  <2> QED
    BY <2>1, <2>4 DEF Surjection
<1>8. new = late
  <2>1. new \subseteq late
    BY <1>2, <1>3
  <2>2. ASSUME NEW k \in late, HasCase(k.commune) PROVE FALSE
    <3>1. PICK l \in cases : l.commune = k.commune
      BY <2>2 DEF HasCase
    <3>2. l \in since
      BY <1>2, <3>1
    <3>3. PICK e \in early : l.commune = e.commune
      BY <1>7, <3>2
    <3>4. e = k
      BY <3>1, <3>3 DEF Numbered
    <3> QED
      BY <3>4
  <2> QED
    BY <2>1, <2>2
<1>9. CommunesOf(cases) \cap CommunesOf(new) = {}
  BY DEF CommunesOf, HasCase
<1>10. Numbered(cases', 1, n)
  <2> HIDE DEF new, late
  <2> QED
    BY <1>1, <1>4, <1>5, <1>8, <1>9, Followed
<1>11. n <= DailyLimit
  <2>1. PICK k \in late : k.rank = n
    BY <1>4, <1>5 DEF Numbered
  <2> QED
    BY <1>1, <1>8, <2>1
<1>12. \A k \in rows : \E l \in cases' : l.commune = k.commune
  BY <1>1 DEF HasCase
<1> QED
  BY <1>1, <1>3, <1>4, <1>10, <1>11, <1>12

-----------------------------------------------------------------------------
(* The invariant.                                                          *)

\* What the reactive statement read is the table's first f ranks; its rows
\* follow them, are of communes that had no case, and leave the others' slots.
PlanInv ==
  plan # {} =>
    \E f \in Nat, n \in Nat :
      /\ f < n /\ Numbered(plan, f + 1, n) /\ f <= Cardinality(cases)
      /\ \A k \in plan, l \in cases : l.rank <= f => k.commune # l.commune
      /\ Cardinality(ReactiveCases) + Cardinality(plan) <= ReactiveLimit

\* The proactive cases are of one selection, all of whose communes entered.
ProactiveInv ==
  /\ \A p \in Callers : chosen[p] \in {{}, Selection}
  /\ ProactiveCases \subseteq Selection
  /\ ProactiveCases # {} => \A k \in Selection : HasCase(k.commune)

RanksInv ==
  /\ Numbered(cases, 1, Cardinality(cases))
  /\ Cardinality(cases) \in 0..DailyLimit
  /\ Cardinality(ReactiveCases) <= ReactiveLimit

SelectionInv == TypeOK /\ RanksInv /\ ProactiveInv /\ PlanInv

\* The cases are finitely many, and so are those of each kind.
LEMMA CasesCounted ==
  ASSUME RanksInv
  PROVE  /\ IsFiniteSet(cases) /\ Cardinality(cases) \in Nat
         /\ IsFiniteSet(ReactiveCases) /\ Cardinality(ReactiveCases) \in Nat
<1>1. Cardinality(cases) \in Nat /\ 1 <= Cardinality(cases) + 1
  BY LimitsAssumption DEF RanksInv
<1>2. \A K : Numbered(K, 1, Cardinality(cases)) => IsFiniteSet(K)
  BY <1>1, RankCount
<1>3. IsFiniteSet(cases)
  BY <1>2 DEF RanksInv
<1>4. IsFiniteSet(ReactiveCases)
  BY <1>3, FS_Subset DEF ReactiveCases
<1> QED
  BY <1>1, <1>3, <1>4, FS_CardinalityType

\* The invariant gives the limits of the day.
LEMMA RanksFollow ==
  SelectionInv => RanksWithinLimits
<1> SUFFICES ASSUME SelectionInv PROVE RanksWithinLimits
  OBVIOUS
<1>1. Cardinality(ProactiveCases) <= ProactiveLimit
  <2>1. PICK n \in 0..ProactiveLimit : Numbered(Selection, 1, n)
    BY SelectionNumbered DEF SelectionInv
  <2>2. n \in Nat /\ n <= ProactiveLimit /\ 1 <= n + 1
    BY LimitsAssumption
  <2>3. IsFiniteSet(Selection) /\ Cardinality(Selection) = n - 1 + 1
    BY <2>1, <2>2, RankCount
  <2>4. IsFiniteSet(ProactiveCases) /\ Cardinality(ProactiveCases) <= Cardinality(Selection)
    BY <2>3, FS_Subset DEF SelectionInv, ProactiveInv
  <2>5. Cardinality(ProactiveCases) \in Nat
    BY <2>4, FS_CardinalityType
  <2> QED
    BY <2>2, <2>3, <2>4, <2>5, LimitsAssumption
<1> QED
  BY <1>1 DEF RanksWithinLimits, SelectionInv, RanksInv, Numbered

\* Free slots are a number, and leave the reactive reviews within their limit.
LEMMA SlotsFree ==
  ASSUME RanksInv
  PROVE  Slots \in Nat /\ Slots + Cardinality(ReactiveCases) <= ReactiveLimit
<1>1. Cardinality(cases) \in Nat /\ Cardinality(ReactiveCases) \in Nat
  BY CasesCounted
<1>2. Cardinality(ReactiveCases) <= ReactiveLimit /\ ReactiveLimit \in Nat /\ DailyLimit \in Nat
  BY LimitsAssumption DEF RanksInv
<1> QED
  BY <1>1, <1>2 DEF Slots, Least

\* The highest rank is the number of cases.
LEMMA LastRank ==
  ASSUME RanksInv
  PROVE  HighestRank = Cardinality(cases)
<1> DEFINE h == Cardinality(cases)
           ranks == {k.rank : k \in cases}
<1>1. h \in Nat /\ ranks = 1..h
  BY CasesCounted DEF RanksInv, Numbered
<1>2. \A r : r \in ranks /\ (\A k \in cases : k.rank <= r)
             <=> r \in 1..h /\ \A s \in 1..h : s <= r
  BY <1>1
<1>3. CASE cases = {}
  <2>1. h = 0
    BY <1>3, FS_EmptySet
  <2> QED
    BY <1>3, <2>1 DEF HighestRank
<1>4. CASE cases # {}
  <2>1. h \in 1..h
    BY <1>1, <1>4
  <2>2. h \in ranks /\ \A k \in cases : k.rank <= h
    BY <1>1, <1>2, <2>1
  <2>3. \A r \in ranks : (\A k \in cases : k.rank <= r) => r = h
    BY <1>1, <1>2, <2>1
  <2> HIDE DEF h, ranks
  <2>4. (CHOOSE r \in ranks : \A k \in cases : k.rank <= r) = h
    BY <2>2, <2>3
  <2> QED
    BY <1>4, <2>4 DEF HighestRank, h, ranks
<1> QED
  BY <1>3, <1>4

\* Rows computed from the first f ranks, inserted: the ranks stay 1, 2, ...
\* and the day's limit holds.
LEMMA RanksGrow ==
  ASSUME TypeOK, RanksInv, NEW rows, NEW f \in Nat, NEW n \in Nat, f <= n,
         rows \subseteq [commune : Communes, rank : Nat, reason : Reasons],
         f <= Cardinality(cases), Numbered(rows, f + 1, n),
         \A k \in rows, l \in cases : l.rank <= f => k.commune # l.commune,
         Insert(rows), cases' # cases
  PROVE  /\ cases' \subseteq Case
         /\ Numbered(cases', 1, Cardinality(cases'))
         /\ Cardinality(cases') \in 0..DailyLimit
         /\ IsFiniteSet(cases')
         /\ cases \subseteq cases' /\ Cardinality(cases) <= Cardinality(cases')
         /\ \A k \in cases' \ cases : k \in rows /\ k.rank > Cardinality(cases)
         /\ \A k \in rows : \E l \in cases' : l.commune = k.commune
<1> DEFINE h == Cardinality(cases)
<1>1. h \in Nat /\ DailyLimit \in Nat /\ Numbered(cases, 1, h) /\ f <= h
  BY CasesCounted, LimitsAssumption DEF RanksInv
<1> HIDE DEF h
<1>2. /\ cases' = cases \cup {k \in rows : ~HasCase(k.commune)}
      /\ Numbered(cases', 1, n) /\ h < n /\ n <= DailyLimit
      /\ \A k \in cases' \ cases : k \in rows /\ k.rank > h
      /\ \A k \in rows : \E l \in cases' : l.commune = k.commune
  BY <1>1, Inserts
<1>3. IsFiniteSet(cases') /\ Cardinality(cases') = n
  <2>1. IsFiniteSet(cases') /\ Cardinality(cases') = n - 1 + 1
    BY <1>2, RankCount
  <2> QED
    BY <2>1
<1>4. cases' \subseteq Case
  <2>1. \A k \in cases' : k.rank \in 1..DailyLimit
    <3>1. \A k \in cases' : k.rank \in 1..n
      BY <1>2 DEF Numbered
    <3> QED
      BY <1>1, <1>2, <3>1
  <2>2. \A k \in rows : k.rank \in 1..DailyLimit => k \in Case
    BY DEF Case
  <2> QED
    BY <1>2, <2>1, <2>2 DEF TypeOK
<1> QED
  BY <1>1, <1>2, <1>3, <1>4 DEF h

\* Inserting the selection keeps every part of the invariant.
LEMMA SelectionInserted ==
  ASSUME SelectionInv, NEW p \in Callers, InsertSelection(p)
  PROVE  SelectionInv' /\ [DailySet!Select]_cases
<1>1. /\ chosen[p] = Selection /\ Selection # {} /\ Insert(Selection)
      /\ chosen' = [chosen EXCEPT ![p] = {}]
      /\ UNCHANGED <<score, signal, plan, faults>>
  BY DEF InsertSelection, SelectionInv, ProactiveInv
<1>2. Selection' = Selection
  BY <1>1, SelectionStays
<1>3. \A q \in Callers : chosen'[q] \in {{}, Selection'} /\ chosen'[q] \subseteq Case
  BY <1>1, <1>2 DEF SelectionInv, TypeOK, ProactiveInv
<1>4. chosen' \in [Callers -> SUBSET Case]
  BY <1>1, <1>3 DEF SelectionInv, TypeOK
<1>5. CASE cases' = cases
  <2>1. TypeOK'
    BY <1>1, <1>4, <1>5 DEF SelectionInv, TypeOK
  <2>2. /\ ReactiveCases' = ReactiveCases /\ ProactiveCases' = ProactiveCases
        /\ \A c : HasCase(c)' = HasCase(c)
    BY <1>5 DEF ReactiveCases, ProactiveCases, HasCase
  <2> QED
    BY <1>1, <1>2, <1>3, <1>5, <2>1, <2>2
       DEF SelectionInv, RanksInv, ProactiveInv, PlanInv, HasCase
<1>6. CASE cases' # cases
  <2>1. PICK n \in Nat : n <= ProactiveLimit /\ Numbered(Selection, 0 + 1, n)
    BY SelectionNumbered, LimitsAssumption DEF SelectionInv
  <2>2. /\ Selection \subseteq [commune : Communes, rank : Nat, reason : Reasons]
        /\ \A k \in Selection : k.reason # "reactive_signal"
    BY SelectionCases DEF SelectionInv, Case
  <2>3. 0 <= Cardinality(cases) /\ 0 <= n /\ \A l \in cases : ~(l.rank <= 0)
    BY CasesCounted DEF SelectionInv, RanksInv, TypeOK, Case
  <2>4. /\ cases' \subseteq Case
        /\ Numbered(cases', 1, Cardinality(cases'))
        /\ Cardinality(cases') \in 0..DailyLimit
        /\ cases \subseteq cases' /\ Cardinality(cases) <= Cardinality(cases')
        /\ \A k \in cases' \ cases : k \in Selection /\ k.rank > Cardinality(cases)
        /\ \A k \in Selection : \E l \in cases' : l.commune = k.commune
        /\ IsFiniteSet(cases')
    BY <1>1, <1>6, <2>1, <2>2, <2>3, RanksGrow DEF SelectionInv
  <2>5. ReactiveCases' = ReactiveCases
    BY <2>2, <2>4 DEF ReactiveCases
  <2>6. ProactiveCases' = ProactiveCases \cup (cases' \ cases)
    BY <2>2, <2>4, <2>5 DEF ReactiveCases, ProactiveCases
  <2>7. TypeOK'
    BY <1>1, <1>4, <2>4 DEF SelectionInv, TypeOK
  <2>8. RanksInv'
    BY <2>4, <2>5 DEF SelectionInv, RanksInv
  <2>9. ProactiveInv'
    BY <1>2, <1>3, <2>4, <2>6 DEF SelectionInv, ProactiveInv, HasCase
  <2>10. PlanInv'
    <3> SUFFICES ASSUME plan # {} PROVE PlanInv'
      BY <1>1 DEF PlanInv
    <3>1. PICK f \in Nat, m \in Nat :
            /\ f < m /\ Numbered(plan, f + 1, m) /\ f <= Cardinality(cases)
            /\ \A k \in plan, l \in cases : l.rank <= f => k.commune # l.commune
            /\ Cardinality(ReactiveCases) + Cardinality(plan) <= ReactiveLimit
      BY DEF SelectionInv, PlanInv
    <3>2. \A l \in cases' : l.rank <= f => l \in cases
      BY <2>4, <3>1, CasesCounted DEF SelectionInv, Case
    <3>3. f <= Cardinality(cases')
      BY <2>4, <3>1, CasesCounted, LimitsAssumption DEF SelectionInv
    <3> QED
      BY <1>1, <2>5, <3>1, <3>2, <3>3 DEF PlanInv
  <2>11. DailySet!Select
    <3>1. ProactiveCases = {}
      <4>1. PICK k \in cases' \ cases : TRUE
        BY <1>6, <2>4
      <4>2. ~HasCase(k.commune)
        BY <1>1, <1>6, <4>1 DEF Insert
      <4> QED
        BY <2>4, <4>1, <4>2 DEF SelectionInv, ProactiveInv
    <3>2. Cardinality(ProactiveCases') <= ProactiveLimit
      <4>1. RanksWithinLimits'
        BY <2>7, <2>8, <2>9, <2>10, RanksFollow, PTL DEF SelectionInv
      <4> QED
        BY <4>1 DEF RanksWithinLimits
    <3>3. \A S : DailySet!Cardinality(S) = Cardinality(S)
      BY DEF DailySet!Cardinality, Cardinality
    <3> QED
      BY <2>4, <2>5, <3>1, <3>2, <3>3
         DEF DailySet!Select, DailySet!Grow, DailySet!Reactive, DailySet!Proactive,
             DailySet!Ranked, ReactiveCases, ProactiveCases, Numbered
  <2> QED
    BY <2>7, <2>8, <2>9, <2>10, <2>11 DEF SelectionInv
<1> QED
  BY <1>5, <1>6

\* The statement reads: its rows follow the last rank, and are as many as the
\* free slots at most.
LEMMA SignalsRead ==
  ASSUME SelectionInv, ReadSignals
  PROVE  SelectionInv'
<1> DEFINE eligible == {c \in Communes : signal[c] > 0 /\ ~HasCase(c)}
           size == Least(Slots, Cardinality(eligible))
           h == Cardinality(cases)
           row(i, c) == [commune |-> c, rank |-> h + i, reason |-> "reactive_signal"]
<1>1. h \in Nat /\ HighestRank = h /\ Slots \in Nat
      /\ Slots + Cardinality(ReactiveCases) <= ReactiveLimit
      /\ Cardinality(ReactiveCases) \in Nat
  BY LastRank, SlotsFree, CasesCounted DEF SelectionInv
<1>2. Cardinality(eligible) \in Nat
  BY CommunesAssumption, FS_Subset, FS_CardinalityType
<1>3. size \in Nat /\ size <= Slots
  <2> HIDE DEF eligible
  <2> QED
    BY <1>1, <1>2 DEF Least
<1>4. PICK ranked \in [1..size -> eligible] :
        /\ \A i \in 1..size : \A j \in 1..(i - 1) : ranked[j] # ranked[i]
        /\ plan' = {row(i, ranked[i]) : i \in 1..size}
  BY <1>1 DEF ReadSignals
<1>5. plan' # {} /\ UNCHANGED <<score, signal, cases, chosen, faults>>
  BY DEF ReadSignals
<1> HIDE DEF size, h
<1>6. \A i \in 1..size : ranked[i] \in Communes /\ ~HasCase(ranked[i])
  BY <1>4
<1> HIDE DEF eligible
<1>7. \A i, j \in 1..size : ranked[i] = ranked[j] => i = j
  <2> SUFFICES ASSUME NEW i \in 1..size, NEW j \in 1..size, i < j, ranked[i] = ranked[j]
               PROVE  FALSE
    BY <1>3
  <2>1. i \in 1..(j - 1)
    BY <1>3
  <2> QED
    BY <1>4, <2>1
<1>8. Numbered(plan', h + 1, h + size)
  <2>1. \A i \in 1..size : row(i, ranked[i]).rank = h + i /\ row(i, ranked[i]).commune = ranked[i]
    OBVIOUS
  <2> HIDE DEF row
  <2>2. {k.rank : k \in plan'} = {h + i : i \in 1..size}
    BY <1>4, <2>1
  <2>3. {h + i : i \in 1..size} = (h + 1)..(h + size)
    <3>1. ASSUME NEW n \in (h + 1)..(h + size) PROVE \E i \in 1..size : n = h + i
      <4>1. n - h \in 1..size /\ n = h + (n - h)
        BY <1>1, <1>3
      <4> QED
        BY <4>1
    <3> QED
      BY <1>1, <1>3, <3>1
  <2>4. \A k, l \in plan' : k.rank = l.rank \/ k.commune = l.commune => k = l
    <3> SUFFICES ASSUME NEW k \in plan', NEW l \in plan',
                        k.rank = l.rank \/ k.commune = l.commune
                 PROVE  k = l
      OBVIOUS
    <3>1. PICK i \in 1..size : k = row(i, ranked[i])
      BY <1>4
    <3>2. PICK j \in 1..size : l = row(j, ranked[j])
      BY <1>4
    <3>3. h + i = h + j \/ ranked[i] = ranked[j]
      BY <2>1, <3>1, <3>2
    <3>4. i = j
      BY <1>1, <1>3, <1>7, <3>3
    <3> QED
      BY <3>1, <3>2, <3>4
  <2> QED
    BY <2>2, <2>3, <2>4 DEF Numbered
<1>9. size > 0
  BY <1>3, <1>4, <1>5
<1>10. Cardinality(plan') = size
  <2>1. h + 1 \in Nat /\ h + size \in Nat /\ h + 1 <= (h + size) + 1
    BY <1>1, <1>3
  <2>2. Cardinality(plan') = (h + size) - (h + 1) + 1
    BY <1>8, <2>1, RankCount
  <2> QED
    BY <1>1, <1>3, <2>2
<1>11. /\ plan' \subseteq [commune : Communes, rank : Nat, reason : {"reactive_signal"}]
       /\ \A k \in plan', l \in cases : k.commune # l.commune
  BY <1>1, <1>3, <1>4, <1>6 DEF HasCase
<1>12. TypeOK'
  BY <1>5, <1>11 DEF SelectionInv, TypeOK
<1>13. /\ ReactiveCases' = ReactiveCases /\ ProactiveCases' = ProactiveCases
       /\ Selection' = Selection /\ Cardinality(cases)' = h
  BY <1>5, SelectionStays DEF ReactiveCases, ProactiveCases, h
<1>14. RanksInv' /\ ProactiveInv'
  BY <1>5, <1>13 DEF SelectionInv, RanksInv, ProactiveInv, HasCase, h
<1>15. PlanInv'
  <2>1. h + size \in Nat /\ h < h + size /\ h <= h
        /\ Cardinality(ReactiveCases) + size <= ReactiveLimit
    BY <1>1, <1>3, <1>9, LimitsAssumption
  <2> QED
    BY <1>1, <1>5, <1>8, <1>10, <1>11, <1>13, <2>1 DEF PlanInv
<1> QED
  BY <1>12, <1>14, <1>15 DEF SelectionInv

\* The statement writes: its reactive cases stay within their limit.
LEMMA SignalsInserted ==
  ASSUME SelectionInv, InsertSignals
  PROVE  SelectionInv' /\ [DailySet!React]_cases
<1>1. plan # {} /\ Insert(plan) /\ plan' = {} /\ UNCHANGED <<score, signal, chosen, faults>>
  BY DEF InsertSignals
<1>2. Selection' = Selection
  BY <1>1, SelectionStays
<1>3. PICK f \in Nat, n \in Nat :
        /\ f < n /\ Numbered(plan, f + 1, n) /\ f <= Cardinality(cases)
        /\ \A k \in plan, l \in cases : l.rank <= f => k.commune # l.commune
        /\ Cardinality(ReactiveCases) + Cardinality(plan) <= ReactiveLimit
  BY <1>1 DEF SelectionInv, PlanInv
<1>4. PlanInv'
  BY <1>1 DEF PlanInv
<1>5. CASE cases' = cases
  <2>1. TypeOK'
    BY <1>1, <1>5 DEF SelectionInv, TypeOK
  <2>2. ReactiveCases' = ReactiveCases /\ ProactiveCases' = ProactiveCases
    BY <1>5 DEF ReactiveCases, ProactiveCases
  <2> QED
    BY <1>1, <1>2, <1>4, <1>5, <2>1, <2>2 DEF SelectionInv, RanksInv, ProactiveInv, HasCase
<1>6. CASE cases' # cases
  <2>1. /\ plan \subseteq [commune : Communes, rank : Nat, reason : Reasons]
        /\ \A k \in plan : k.reason = "reactive_signal"
    BY DEF SelectionInv, TypeOK, Reasons
  <2>2. /\ cases' \subseteq Case
        /\ Numbered(cases', 1, Cardinality(cases'))
        /\ Cardinality(cases') \in 0..DailyLimit
        /\ cases \subseteq cases'
        /\ \A k \in cases' \ cases : k \in plan
    BY <1>1, <1>3, <1>6, <2>1, RanksGrow DEF SelectionInv
  <2>3. ProactiveCases' = ProactiveCases /\ ReactiveCases' \subseteq ReactiveCases \cup plan
    BY <2>1, <2>2 DEF ReactiveCases, ProactiveCases
  <2>4. Cardinality(ReactiveCases') <= ReactiveLimit
    <3>1. IsFiniteSet(ReactiveCases) /\ Cardinality(ReactiveCases) \in Nat
      BY CasesCounted DEF SelectionInv
    <3>2. IsFiniteSet(plan)
      <4>1. f + 1 \in Nat /\ f + 1 <= n + 1
        BY <1>3
      <4> QED
        BY <1>3, <4>1, RankCount
    <3>3. Cardinality(plan) \in Nat /\ Cardinality(ReactiveCases \cap plan) \in Nat
      BY <3>1, <3>2, FS_CardinalityType, FS_Intersection
    <3>4. /\ IsFiniteSet(ReactiveCases \cup plan)
          /\ Cardinality(ReactiveCases \cup plan)
               = Cardinality(ReactiveCases) + Cardinality(plan)
                   - Cardinality(ReactiveCases \cap plan)
      BY <3>1, <3>2, FS_Union
    <3>5. /\ IsFiniteSet(ReactiveCases')
          /\ Cardinality(ReactiveCases') <= Cardinality(ReactiveCases \cup plan)
      BY <2>3, <3>4, FS_Subset
    <3>6. Cardinality(ReactiveCases') \in Nat
      BY <3>5, FS_CardinalityType
    <3> QED
      BY <1>3, <3>1, <3>3, <3>4, <3>5, <3>6, LimitsAssumption
  <2>5. TypeOK'
    BY <1>1, <2>2 DEF SelectionInv, TypeOK
  <2>6. RanksInv'
    BY <2>2, <2>4 DEF RanksInv
  <2>7. ProactiveInv'
    BY <1>1, <1>2, <2>2, <2>3 DEF SelectionInv, ProactiveInv, HasCase
  <2>8. DailySet!React
    <3>1. \A S : DailySet!Cardinality(S) = Cardinality(S)
      BY DEF DailySet!Cardinality, Cardinality
    <3> QED
      BY <2>2, <2>3, <2>4, <3>1
         DEF DailySet!React, DailySet!Grow, DailySet!Reactive, DailySet!Proactive,
             DailySet!Ranked, ReactiveCases, ProactiveCases, Numbered
  <2> QED
    BY <1>4, <2>5, <2>6, <2>7, <2>8 DEF SelectionInv
<1> QED
  BY <1>5, <1>6

-----------------------------------------------------------------------------
(* The theorems.                                                           *)

\* The first states satisfy the invariant.
LEMMA InitKeeps == Init => SelectionInv
<1> SUFFICES ASSUME Init PROVE SelectionInv
  OBVIOUS
<1>1. cases = {} /\ plan = {} /\ ReactiveCases = {} /\ ProactiveCases = {} /\ Cardinality(cases) = 0
  BY FS_EmptySet DEF Init, ReactiveCases, ProactiveCases
<1>2. TypeOK
  BY LimitsAssumption DEF Init, TypeOK
<1>3. RanksInv
  BY <1>1, FS_EmptySet, LimitsAssumption DEF RanksInv, Numbered
<1>4. ProactiveInv /\ PlanInv
  BY <1>1 DEF Init, ProactiveInv, PlanInv
<1> QED
  BY <1>2, <1>3, <1>4 DEF SelectionInv

\* Every step keeps it, and is a step of the daily set or leaves it alone.
LEMMA StepKeeps ==
  SelectionInv /\ [Next]_vars => SelectionInv' /\ [DailySet!Select \/ DailySet!React]_cases
<1> SUFFICES ASSUME SelectionInv, [Next]_vars
             PROVE  SelectionInv' /\ [DailySet!Select \/ DailySet!React]_cases
  OBVIOUS
<1> USE DEF SelectionInv
\* The steps that leave the table and the scores alone.
<1>1. ASSUME UNCHANGED <<score, cases>>, TypeOK',
             \A p \in Callers : chosen'[p] \in {{}, Selection}, plan' \in {{}, plan}
      PROVE  SelectionInv'
  <2>1. /\ ReactiveCases' = ReactiveCases /\ ProactiveCases' = ProactiveCases
        /\ Selection' = Selection /\ \A c : HasCase(c)' = HasCase(c)
    BY <1>1, SelectionStays DEF ReactiveCases, ProactiveCases, HasCase
  <2>2. RanksInv' /\ ProactiveInv'
    BY <1>1, <2>1 DEF RanksInv, ProactiveInv, HasCase
  <2>3. PlanInv'
    BY <1>1, <2>1 DEF PlanInv
  <2> QED
    BY <1>1, <2>2, <2>3
<1>2. \A p \in Callers : chosen[p] \in {{}, Selection}
  BY DEF ProactiveInv
<1>3. ASSUME NEW c \in Watched, NEW v \in 1..MaxScore, Signal(c, v)
      PROVE  SelectionInv' /\ UNCHANGED cases
  <2>1. TypeOK'
    BY <1>3, CommunesAssumption DEF Signal, TypeOK
  <2> QED
    BY <1>1, <1>2, <1>3, <2>1 DEF Signal
<1>4. ASSUME NEW p \in Callers, Choose(p) PROVE SelectionInv' /\ UNCHANGED cases
  <2>1. TypeOK'
    BY <1>4, SelectionCases DEF Choose, TypeOK
  <2>2. \A q \in Callers : chosen'[q] \in {{}, Selection}
    BY <1>2, <1>4 DEF Choose, TypeOK
  <2> QED
    BY <1>1, <1>4, <2>1, <2>2 DEF Choose
<1>5. ASSUME NEW p \in Callers, CallFails(p) PROVE SelectionInv' /\ UNCHANGED cases
  <2>1. TypeOK'
    BY <1>5, LimitsAssumption DEF CallFails, TypeOK
  <2>2. \A q \in Callers : chosen'[q] \in {{}, Selection}
    BY <1>2, <1>5 DEF CallFails, TypeOK
  <2> QED
    BY <1>1, <1>5, <2>1, <2>2 DEF CallFails
<1>6. ASSUME StatementFails PROVE SelectionInv' /\ UNCHANGED cases
  <2>1. TypeOK'
    BY <1>6, LimitsAssumption DEF StatementFails, TypeOK
  <2> QED
    BY <1>1, <1>2, <1>6, <2>1 DEF StatementFails
<1>7. CASE UNCHANGED vars
  <2>1. TypeOK'
    BY <1>7 DEF vars, TypeOK
  <2> QED
    BY <1>1, <1>2, <1>7, <2>1 DEF vars
<1>8. ReadSignals => UNCHANGED cases
  BY DEF ReadSignals
<1> QED
  BY <1>3, <1>4, <1>5, <1>6, <1>7, <1>8, SelectionInserted, SignalsRead, SignalsInserted DEF Next

\* Whatever the tasks, the races and the failed calls, the ranks of a bulletin
\* are 1, 2, ... without a gap or a tie, within the limits of each kind and of
\* the day (select_blue_evidence_candidates and the reactive statement).
THEOREM RanksHold == Spec => []RanksWithinLimits
<1>1. Spec => []SelectionInv
  BY InitKeeps, StepKeeps, PTL DEF Spec
<1> QED
  BY <1>1, RanksFollow, PTL

\* Once a bulletin has a proactive case its selection is there whole, whoever
\* raced for it, and every commune that it leaves out is one that each quota
\* justifies leaving out (select_blue_evidence_candidates and the insertion).
THEOREM SelectionSoundHolds == Spec => []SelectionSound
<1>1. Spec => []SelectionInv
  BY InitKeeps, StepKeeps, PTL DEF Spec
<1>2. SelectionInv => SelectionSound
  BY SelectionDiversified DEF SelectionInv, ProactiveInv, SelectionSound, WholeSelection
<1> QED
  BY <1>1, <1>2, PTL

\* The racing tasks implement the daily set: the proactive cases enter once and
\* together, the reactive ones in groups, and no case leaves or changes.
THEOREM DailySetImplemented == Spec => DailySetSpec
<1>1. Init => DailySet!Init
  BY DEF Init, DailySet!Init
<1> QED
  BY <1>1, InitKeeps, StepKeeps, PTL DEF Spec, DailySetSpec, DailySet!Spec
=============================================================================
