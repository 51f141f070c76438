------------------------- MODULE BattleViews_proofs -------------------------
(***************************************************************************)
(* What the page of BattleViews shows of a RESOLVED battle, proved for     *)
(* every number of users, markets, prediction rows and requests, from the  *)
(* theorems about Battles.                                                 *)
(***************************************************************************)
EXTENDS BattleViews, Battles_proofs

\* Whatever page is open, battles do what they do without it.
LEMMA ViewsKeepBattles == ViewsSpec => Spec
<1>1. ViewsInit => Init
  BY DEF ViewsInit
<1>2. [ViewsNext]_<<vars, page>> => [Next]_vars
  BY DEF ViewsNext
<1> QED
  BY <1>1, <1>2, PTL DEF ViewsSpec, Spec

----------------------------------------------------------------------------
\* Sorting.

\* In a strict total order of 1 .. n, the number of those before it is the
\* position of each: B[i] is the set of those before i.
LEMMA Positions ==
  ASSUME NEW n \in Nat, NEW B \in [1 .. n -> SUBSET (1 .. n)],
         \A i \in 1 .. n : i \notin B[i],
         \A i, j \in 1 .. n : i = j \/ i \in B[j] \/ j \in B[i],
         \A i, j \in 1 .. n : i \in B[j] => B[i] \subseteq B[j]
  PROVE  /\ \A i \in 1 .. n : Cardinality(B[i]) \in 0 .. n - 1
         /\ \A i, j \in 1 .. n : i \in B[j] <=> Cardinality(B[i]) < Cardinality(B[j])
         /\ \A i, j \in 1 .. n : Cardinality(B[i]) = Cardinality(B[j]) => i = j
         /\ \A k \in 1 .. n : \E i \in 1 .. n : Cardinality(B[i]) = k - 1
<1>1. IsFiniteSet(1 .. n) /\ Cardinality(1 .. n) = n
  BY FS_Interval
<1>2. \A i \in 1 .. n : IsFiniteSet(B[i]) /\ Cardinality(B[i]) \in Nat
  BY <1>1, FS_Subset, FS_CardinalityType
<1>3. ASSUME NEW i \in 1 .. n PROVE Cardinality(B[i]) \in 0 .. n - 1
  <2>1. B[i] \subseteq (1 .. n) \ {i}
    OBVIOUS
  <2>2. IsFiniteSet((1 .. n) \ {i}) /\ Cardinality((1 .. n) \ {i}) = n - 1
    BY <1>1, FS_RemoveElement
  <2>3. Cardinality(B[i]) <= n - 1
    BY <2>1, <2>2, FS_Subset
  <2> QED
    BY <1>2, <2>3
<1>4. ASSUME NEW i \in 1 .. n, NEW j \in 1 .. n, i \in B[j]
      PROVE  Cardinality(B[i]) < Cardinality(B[j])
  <2>1. B[i] \subseteq B[j] /\ B[i] # B[j]
    BY <1>4
  <2>2. /\ Cardinality(B[i]) <= Cardinality(B[j])
        /\ Cardinality(B[i]) # Cardinality(B[j])
    BY <1>2, <2>1, FS_Subset
  <2> QED
    BY <1>2, <2>2
<1>5. \A i, j \in 1 .. n : i \in B[j] <=> Cardinality(B[i]) < Cardinality(B[j])
  BY <1>2, <1>4
<1>6. \A i, j \in 1 .. n : Cardinality(B[i]) = Cardinality(B[j]) => i = j
  BY <1>2, <1>4
<1>7. \A k \in 1 .. n : \E i \in 1 .. n : Cardinality(B[i]) = k - 1
  <2> DEFINE T == 0 .. n - 1
             f == [i \in 1 .. n |-> Cardinality(B[i])]
  <2>1. f \in Injection(1 .. n, T)
    BY <1>3, <1>6 DEF Injection, IsInjective
  <2>2. IsFiniteSet(T) /\ Cardinality(T) = n
    <3>1. 0 \in Int /\ n - 1 \in Int
      OBVIOUS
    <3>2. IsFiniteSet(T) /\ Cardinality(T) = IF 0 > n - 1 THEN 0 ELSE n - 1 - 0 + 1
      BY <3>1, FS_Interval
    <3> QED
      BY <3>2
  <2> HIDE DEF T
  <2>3. f \in Surjection(1 .. n, T)
    BY <1>1, <2>1, <2>2, FS_Injection
  <2>4. \A t \in T : \E i \in 1 .. n : Cardinality(B[i]) = t
    BY <2>3 DEF Surjection
  <2> QED
    BY <2>4 DEF T
<1> QED
  BY <1>3, <1>5, <1>6, <1>7

\* By place, then by confidence descending, then as they come.
Lexical(place, confidence, i, j) ==
  \/ place[i] < place[j]
  \/ place[i] = place[j] /\ confidence[i] > confidence[j]
  \/ place[i] = place[j] /\ confidence[i] = confidence[j] /\ i < j

LEMMA LexicalIsStrict ==
  ASSUME NEW n \in Nat, NEW place \in [1 .. n -> Int], NEW confidence \in [1 .. n -> Int]
  PROVE  /\ \A i \in 1 .. n : ~Lexical(place, confidence, i, i)
         /\ \A i, j \in 1 .. n :
              i = j \/ Lexical(place, confidence, i, j) \/ Lexical(place, confidence, j, i)
         /\ \A i, j, k \in 1 .. n :
              Lexical(place, confidence, k, i) /\ Lexical(place, confidence, i, j)
                => Lexical(place, confidence, k, j)
<1>1. \A i \in 1 .. n : ~Lexical(place, confidence, i, i)
  BY DEF Lexical
<1>2. \A i, j \in 1 .. n :
        i = j \/ Lexical(place, confidence, i, j) \/ Lexical(place, confidence, j, i)
  BY DEF Lexical
<1>3. ASSUME NEW i \in 1 .. n, NEW j \in 1 .. n, NEW k \in 1 .. n,
             Lexical(place, confidence, k, i), Lexical(place, confidence, i, j)
      PROVE  Lexical(place, confidence, k, j)
  BY <1>3 DEF Lexical
<1> QED
  BY <1>1, <1>2, <1>3

\* The row of what was read that is shown k-th.
RowAt(row, read, k) ==
  CHOOSE i \in DOMAIN read : Cardinality(RowsBefore(row, read, i)) = k - 1

\* The comparison of sortEntries, made stable, is a strict total order, and so
\* the list has every row, each in its position.
LEMMA Sorted ==
  ASSUME NEW n \in Nat, NEW row, NEW read, DOMAIN read = 1 .. n,
         \A i \in 1 .. n : /\ read[i].placement \in Int
                           /\ call[read[i].prediction].confidence \in Int
  PROVE  /\ SortEntries(row, read) = [k \in 1 .. n |-> read[RowAt(row, read, k)]]
         /\ \A k \in 1 .. n : /\ RowAt(row, read, k) \in 1 .. n
                              /\ Cardinality(RowsBefore(row, read, RowAt(row, read, k))) = k - 1
         /\ \A i \in 1 .. n : Cardinality(RowsBefore(row, read, i)) \in 0 .. n - 1
         /\ \A i, j \in 1 .. n : i < j =>
              ShownBefore(row, read, RowAt(row, read, i), RowAt(row, read, j))
<1> DEFINE B == [i \in 1 .. n |-> RowsBefore(row, read, i)]
<1>1. B \in [1 .. n -> SUBSET (1 .. n)]
  BY DEF RowsBefore
<1> DEFINE place      == [k \in 1 .. n |-> IF row.status = "RESOLVED" THEN PlaceOrLast(read[k]) ELSE 0]
           confidence == [k \in 1 .. n |-> call[read[k].prediction].confidence]
<1>2. place \in [1 .. n -> Int] /\ confidence \in [1 .. n -> Int]
  BY DEF PlaceOrLast
<1>3. \A i, j \in 1 .. n : i \in B[j] <=> ShownBefore(row, read, i, j)
  BY DEF RowsBefore
<1>4. \A i, j \in 1 .. n : i \in B[j] <=> Lexical(place, confidence, i, j)
  BY <1>3 DEF ShownBefore, Lexical
<1> HIDE DEF B, place, confidence
<1>5. /\ \A i \in 1 .. n : i \notin B[i]
      /\ \A i, j \in 1 .. n : i = j \/ i \in B[j] \/ j \in B[i]
  BY <1>2, <1>4, LexicalIsStrict
<1>6. \A i, j, k \in 1 .. n : k \in B[i] /\ i \in B[j] => k \in B[j]
  BY <1>2, <1>4, LexicalIsStrict
<1>7. \A i, j \in 1 .. n : i \in B[j] => B[i] \subseteq B[j]
  BY <1>1, <1>6
<1>8. /\ \A i \in 1 .. n : Cardinality(B[i]) \in 0 .. n - 1
      /\ \A i, j \in 1 .. n : i \in B[j] <=> Cardinality(B[i]) < Cardinality(B[j])
      /\ \A k \in 1 .. n : \E i \in 1 .. n : Cardinality(B[i]) = k - 1
  BY <1>1, <1>5, <1>7, Positions
<1>9. \A i \in 1 .. n : B[i] = RowsBefore(row, read, i)
  BY DEF B
<1>10. \A k \in 1 .. n : /\ RowAt(row, read, k) \in 1 .. n
                         /\ Cardinality(RowsBefore(row, read, RowAt(row, read, k))) = k - 1
  BY <1>8, <1>9 DEF RowAt
<1>11. ASSUME NEW i \in 1 .. n, NEW j \in 1 .. n, i < j
       PROVE  ShownBefore(row, read, RowAt(row, read, i), RowAt(row, read, j))
  <2>1. PICK x \in 1 .. n : x = RowAt(row, read, i)
    BY <1>10
  <2>2. PICK y \in 1 .. n : y = RowAt(row, read, j)
    BY <1>10
  <2>3. Cardinality(B[x]) = i - 1 /\ Cardinality(B[y]) = j - 1
    BY <1>9, <1>10, <2>1, <2>2
  <2>4. x \in B[y]
    BY <1>8, <1>11, <2>3
  <2> QED
    BY <1>3, <2>1, <2>2, <2>4
<1>12. SortEntries(row, read) = [k \in 1 .. n |-> read[RowAt(row, read, k)]]
  BY DEF SortEntries, RowAt
<1> QED
  BY <1>8, <1>9, <1>10, <1>11, <1>12

----------------------------------------------------------------------------
\* The list of a RESOLVED battle.

\* What was read of the first n entries can be sorted.
LEMMA FirstReadIs ==
  ASSUME TypeOK, EntryInvariant, NEW m \in Markets, NEW n \in 0 .. Len(entries[m])
  PROVE  /\ DOMAIN FirstRead(m, n) = 1 .. n /\ 1 .. n \subseteq DOMAIN entries[m] /\ n \in Nat
         /\ \A i \in 1 .. n :
              /\ FirstRead(m, n)[i].prediction = entries[m][i]
              /\ FirstRead(m, n)[i].placement = placement[entries[m][i]]
              /\ FirstRead(m, n)[i].placement \in Nat
              /\ call[FirstRead(m, n)[i].prediction].confidence \in Int
<1>1. DOMAIN entries[m] = 1 .. Len(entries[m]) /\ Len(entries[m]) \in Nat
  BY DEF TypeOK
<1>2. 1 .. n \subseteq DOMAIN entries[m]
  BY <1>1
<1>3. \A i \in 1 .. n :
        /\ FirstRead(m, n)[i].prediction = entries[m][i]
        /\ FirstRead(m, n)[i].placement = placement[entries[m][i]]
  BY DEF FirstRead
<1>4. \A i \in 1 .. n : /\ placement[entries[m][i]] \in Nat
                        /\ call[entries[m][i]].confidence \in Int
  BY <1>2, Entrants DEF TypeOK
<1> QED
  BY <1>1, <1>2, <1>3, <1>4 DEF FirstRead

LEMMA FirstReadSorted ==
  ASSUME TypeOK, EntryInvariant, NEW m \in Markets, NEW n \in 0 .. Len(entries[m]), NEW row
  PROVE  LET read  == FirstRead(m, n)
             at(k) == RowAt(row, read, k)
         IN /\ SortEntries(row, read) = [k \in 1 .. n |-> read[at(k)]]
            /\ \A k \in 1 .. n : at(k) \in 1 .. n /\ Cardinality(RowsBefore(row, read, at(k))) = k - 1
            /\ \A i, j \in 1 .. n : i < j => ShownBefore(row, read, at(i), at(j))
<1>1. PICK read : read = FirstRead(m, n)
  OBVIOUS
<1>2. /\ DOMAIN read = 1 .. n /\ n \in Nat
      /\ \A i \in 1 .. n : /\ read[i].placement \in Int
                          /\ call[read[i].prediction].confidence \in Int
  BY <1>1, FirstReadIs
<1>3. /\ SortEntries(row, read) = [k \in 1 .. n |-> read[RowAt(row, read, k)]]
      /\ \A k \in 1 .. n : /\ RowAt(row, read, k) \in 1 .. n
                          /\ Cardinality(RowsBefore(row, read, RowAt(row, read, k))) = k - 1
      /\ \A i, j \in 1 .. n : i < j =>
           ShownBefore(row, read, RowAt(row, read, i), RowAt(row, read, j))
  BY <1>2, Sorted
<1> QED
  BY <1>1, <1>3

\* The placed entries are the first rows of it, each at its place: there are
\* not so many rows that one without a place, taken for the 999th, comes before.
LEMMA PlacedComeFirst ==
  ASSUME TypeOK, EntryInvariant, NEW m \in Markets, battle[m].status = "RESOLVED", RankedAt(m),
         NEW n \in 0 .. Len(entries[m]), HoldsScored(m, n), n <= 999,
         NEW k \in 1 .. n, RowAt(RowRead(m), FirstRead(m, n), k) \in PlacedAt(m)
  PROVE  /\ placement[entries[m][RowAt(RowRead(m), FirstRead(m, n), k)]] = k
         /\ \A i \in 1 .. n : i < k => RowAt(RowRead(m), FirstRead(m, n), i) \in PlacedAt(m)
<1> DEFINE P    == PlacedAt(m)
           c    == Cardinality(P)
           read == FirstRead(m, n)
           row  == RowRead(m)
           pl   == [i \in 1 .. n |-> placement[entries[m][i]]]
           x    == RowAt(row, read, k)
<1>1. P \subseteq 1 .. n /\ n \in Nat
  <2>1. DOMAIN entries[m] = 1 .. Len(entries[m]) /\ Len(entries[m]) \in Nat
    BY DEF TypeOK
  <2> QED
    BY <2>1 DEF HoldsScored, PlacedAt, ScoredAt
<1>2. IsFiniteSet(P) /\ c \in Nat /\ IsFiniteSet(1 .. n) /\ Cardinality(1 .. n) = n
  <2>1. IsFiniteSet(1 .. n) /\ Cardinality(1 .. n) = n
    BY <1>1, FS_Interval
  <2> QED
    BY <1>1, <2>1, FS_Subset, FS_CardinalityType
<1>3. \A j \in (1 .. n) \ P : c < n
  <2> SUFFICES ASSUME NEW j \in (1 .. n) \ P PROVE c < n
    OBVIOUS
  <2>1. c <= n /\ c # n
    BY <1>1, <1>2, FS_Subset
  <2> QED
    BY <1>1, <1>2, <2>1
<1>4. /\ {pl[i] : i \in P} = 1 .. c
      /\ \A i \in 1 .. n \ P : pl[i] = 0
  <2>1. \A i \in P : pl[i] = placement[entries[m][i]]
    BY <1>1
  <2>2. 1 .. n \subseteq DOMAIN entries[m]
    BY FirstReadIs
  <2>3. {pl[i] : i \in P} = {placement[entries[m][i]] : i \in P}
    BY <2>1
  <2>4. {placement[entries[m][i]] : i \in P} = 1 .. c
    BY DEF RankedAt
  <2>5. \A i \in 1 .. n \ P : pl[i] = 0
    BY <2>2 DEF RankedAt
  <2> HIDE DEF P, c, pl
  <2> QED
    BY <2>3, <2>4, <2>5
<1>5. \A i, j \in P : pl[i] = pl[j] => i = j
  <2> DEFINE f == [i \in P |-> pl[i]]
             T == 1 .. c
  <2>1. f \in Surjection(P, T)
    BY <1>4 DEF Surjection
  <2>2. Cardinality(T) = c
    BY <1>2, FS_Interval
  <2> HIDE DEF T
  <2>3. f \in Injection(P, T)
    BY <1>2, <2>1, <2>2, FS_SurjSameCardinalityImpliesInj
  <2>4. IsInjective(f)
    BY <2>3 DEF Injection
  <2> QED
    BY <2>4 DEF IsInjective
<1>6. \A i, j \in 1 .. n : ShownBefore(row, read, i, j) =>
        \/ PlaceOrLast(read[i]) < PlaceOrLast(read[j])
        \/ PlaceOrLast(read[i]) = PlaceOrLast(read[j])
             /\ call[read[i].prediction].confidence > call[read[j].prediction].confidence
        \/ PlaceOrLast(read[i]) = PlaceOrLast(read[j]) /\ i < j
  BY DEF ShownBefore, RowRead
<1>7. \A i, j \in 1 .. n :
        PlaceOrLast(read[i]) < PlaceOrLast(read[j]) => ShownBefore(row, read, i, j)
  BY DEF ShownBefore, RowRead
<1>8. \A i \in 1 .. n : /\ PlaceOrLast(read[i]) = IF pl[i] = 0 THEN 999 ELSE pl[i]
                        /\ pl[i] \in Nat
                        /\ call[read[i].prediction].confidence \in Int
  BY FirstReadIs DEF PlaceOrLast
<1>9. x \in P /\ pl[x] \in 1 .. c
  BY <1>4
<1>10. DOMAIN read = 1 .. n
  BY FirstReadIs
<1> HIDE DEF P, c, read, row, pl, x
<1>11. RowsBefore(row, read, x) = {j \in P : pl[j] < pl[x]}
  <2>1. ASSUME NEW j \in 1 .. n, ShownBefore(row, read, j, x) PROVE j \in P /\ pl[j] < pl[x]
    <3>1. x \in 1 .. n /\ pl[x] \in Nat /\ pl[x] # 0 /\ PlaceOrLast(read[x]) = pl[x]
      BY <1>1, <1>2, <1>8, <1>9
    <3>2. CASE j \notin P
      <4>1. pl[x] < 999 /\ PlaceOrLast(read[j]) = 999
        BY <1>1, <1>2, <1>3, <1>4, <1>8, <1>9, <3>2
      <4> QED
        BY <1>6, <2>1, <3>1, <4>1
    <3>3. CASE j \in P
      <4>1. pl[j] \in 1 .. c
        BY <1>4, <3>3
      <4>2. PlaceOrLast(read[j]) = pl[j] /\ pl[j] \in Nat
        BY <1>2, <1>8, <4>1
      <4>3. pl[j] = pl[x] => j = x
        BY <1>5, <1>9, <3>3
      <4>4. call[read[x].prediction].confidence \in Int
        BY <1>8, <3>1
      <4> QED
        BY <1>6, <2>1, <3>1, <3>3, <4>2, <4>3, <4>4
    <3> QED
      BY <3>2, <3>3
  <2>2. ASSUME NEW j \in P, pl[j] < pl[x] PROVE ShownBefore(row, read, j, x)
    <3>1. pl[j] \in 1 .. c /\ j \in 1 .. n /\ x \in 1 .. n
      BY <1>1, <1>4, <1>9
    <3>2. PlaceOrLast(read[j]) = pl[j] /\ PlaceOrLast(read[x]) = pl[x]
      BY <1>2, <1>8, <1>9, <3>1
    <3> QED
      BY <1>7, <2>2, <3>1, <3>2
  <2> QED
    BY <1>1, <1>10, <2>1, <2>2 DEF RowsBefore
<1>12. Cardinality({j \in P : pl[j] < pl[x]}) = pl[x] - 1
  <2> DEFINE S == {j \in P : pl[j] < pl[x]}
             T == 1 .. pl[x] - 1
             g == [j \in S |-> pl[j]]
  <2>1. IsFiniteSet(S)
    BY <1>2, FS_Subset
  <2>2. \A j \in P : pl[j] \in 1 .. c
    BY <1>4
  <2>3. \A t \in T : \E j \in S : pl[j] = t
    <3> SUFFICES ASSUME NEW t \in T PROVE \E j \in S : pl[j] = t
      OBVIOUS
    <3>1. t \in 1 .. c /\ t < pl[x]
      BY <1>2, <1>9
    <3>2. PICK j \in P : pl[j] = t
      BY <1>4, <3>1
    <3> QED
      BY <3>1, <3>2
  <2>4. g \in [S -> T]
    BY <1>2, <1>9, <2>2
  <2>5. g \in Surjection(S, T) /\ g \in Injection(S, T)
    BY <1>5, <2>3, <2>4 DEF Surjection, Injection, IsInjective
  <2>6. Cardinality(T) = pl[x] - 1
    <3>1. 1 \in Int /\ pl[x] - 1 \in Int /\ pl[x] - 1 >= 0
      BY <1>2, <1>9
    <3>2. Cardinality(T) = IF 1 > pl[x] - 1 THEN 0 ELSE pl[x] - 1 - 1 + 1
      BY <3>1, FS_Interval
    <3> QED
      BY <3>1, <3>2
  <2> HIDE DEF S, T, g
  <2>7. Cardinality(S) = Cardinality(T)
    BY <2>1, <2>5, FS_Surjection
  <2> QED
    BY <2>6, <2>7 DEF S
<1>13. pl[x] = k
  <2>1. Cardinality(RowsBefore(row, read, x)) = k - 1
    BY FirstReadSorted DEF read, row, x
  <2> QED
    BY <1>2, <1>9, <1>11, <1>12, <2>1
<1>14. ASSUME NEW i \in 1 .. n, i < k PROVE RowAt(row, read, i) \in P
  <2>1. ShownBefore(row, read, RowAt(row, read, i), x) /\ RowAt(row, read, i) \in 1 .. n
    BY <1>14, FirstReadSorted DEF read, row, x
  <2>2. RowAt(row, read, i) \in RowsBefore(row, read, x)
    BY <1>10, <2>1 DEF RowsBefore
  <2> QED
    BY <1>11, <2>2
<1> QED
  BY <1>1, <1>9, <1>13, <1>14 DEF P, pl, x, read, row

----------------------------------------------------------------------------
\* Steps.

\* A RESOLVED battle keeps its row, its entries and their places; whoever
\* enters it late is not scored.
LEMMA ResultsFinal ==
  ASSUME TypeOK, TypeOK', EntryInvariant, EntryInvariant', SettlementInvariant, ResultsInvariant,
         [Next]_vars, NEW m \in Markets, battle[m].status = "RESOLVED"
  PROVE  /\ battle'[m] = battle[m]
         /\ \A i \in DOMAIN entries[m] :
              /\ i \in DOMAIN entries'[m] /\ entries'[m][i] = entries[m][i]
              /\ call'[entries[m][i]] = call[entries[m][i]]
              /\ placement'[entries[m][i]] = placement[entries[m][i]]
         /\ \A i \in DOMAIN entries'[m] \ DOMAIN entries[m] :
              ~Settled(call[entries[m][i]].user, m)'
         /\ \A u \in Users : Settled(u, m)' <=> Settled(u, m)
<1>1. battle'[m].status = "RESOLVED"
  BY LifeCycleStep DEF StatusMoves
<1>2. CASE \A x \in Markets : ~ResolveSettle(x)
  <2>1. UNCHANGED <<placement, user, events>> /\ battle'[m] = battle[m]
    BY <1>1, <1>2, OnlySettleScores
  <2>2. EntriesOnlyGrow
    BY <1>2, OnlyConfirmAdds
  <2>3. /\ \A u \in Users : Settled(u, m)' <=> Settled(u, m)
        /\ \A i \in DOMAIN entries'[m] \ DOMAIN entries[m] :
             ~Settled(call'[entries'[m][i]].user, m)
    BY <2>1, <2>2, AddedEntries DEF ResultsInvariant
  <2>4. \A i \in DOMAIN entries'[m] : call'[entries'[m][i]].user \in Users
    <3> SUFFICES ASSUME NEW i \in DOMAIN entries'[m] PROVE call'[entries'[m][i]].user \in Users
      OBVIOUS
    <3>1. entries'[m][i] \in Predictions /\ entries'[m][i] \in EntrySet(m)'
      BY DEF TypeOK, EntrySet
    <3>2. call'[entries'[m][i]] \in Calls
      BY <3>1 DEF TypeOK, EntryInvariant, EntriesMatchPredictions, RowsHaveCalls
    <3> QED
      BY <3>2 DEF Calls
  <2>5. \A i \in DOMAIN entries'[m] \ DOMAIN entries[m] : ~Settled(call[entries[m][i]].user, m)'
    BY <2>1, <2>3 DEF Settled
  <2> QED
    BY <2>1, <2>2, <2>3, <2>5 DEF EntriesOnlyGrow
<1>3. CASE \E x \in Markets : ResolveSettle(x)
  <2>1. PICK x \in Markets : ResolveSettle(x)
    BY <1>3
  <2>2. x # m
    BY <2>1 DEF ResolveSettle, SettlementInvariant, BatchStillValid
  <2>3. /\ UNCHANGED <<entries, call>> /\ battle'[m] = battle[m]
        /\ x \in worker.todo /\ worker.pc = "resolve"
        /\ \A p \in Predictions :
             (\A i \in 1 .. worker.seen[x] : entries[x][i] # p) => placement'[p] = placement[p]
        /\ \A u \in Users : Settled(u, m)' <=> Settled(u, m)
    BY <2>1, <2>2, SettleWrites DEF ResultsInvariant
  <2>4. \A j \in 1 .. worker.seen[x] : j \in DOMAIN entries[x]
    BY <2>3, RosterIsGood DEF ResultsInvariant
  <2>5. ASSUME NEW i \in DOMAIN entries[m] PROVE placement'[entries[m][i]] = placement[entries[m][i]]
    <3>1. entries[m][i] \in Predictions /\ call[entries[m][i]].market = m
      BY Entrants
    <3>2. \A j \in 1 .. worker.seen[x] : call[entries[x][j]].market = x
      BY <2>4, Entrants
    <3> QED
      BY <2>2, <2>3, <3>1, <3>2
  <2> QED
    BY <2>3, <2>5
<1> QED
  BY <1>2, <1>3

\* What a page has read and shows of a RESOLVED battle stays true of it.
LEMMA BattlesMove ==
  ASSUME TypeOK, TypeOK', EntryInvariant, EntryInvariant', SettlementInvariant, ResultsInvariant,
         PageInvariant, [Next]_vars, UNCHANGED page
  PROVE  PageInvariant'
<1> DEFINE m == page.market
<1>1. /\ DOMAIN page' = DOMAIN NoPage
      /\ page'.market \in Markets \cup {None} /\ page'.pc \in {"idle", "entries", "answer"}
      /\ page'.market = None => page'.pc = "idle" /\ page'.shown = None
  BY DEF PageInvariant
<1>2. ASSUME page.pc # "idle", page.row.status = "RESOLVED"
      PROVE  /\ page'.row = RowRead(m)'
             /\ page.pc = "answer" => \E n \in 0 .. Len(entries'[m]) :
                  HoldsScored(m, n)' /\ page.read = FirstRead(m, n)'
  <2>1. m \in Markets /\ page.row = RowRead(m)
    BY <1>2 DEF PageInvariant
  <2>2. battle[m].status = "RESOLVED"
    BY <1>2, <2>1 DEF RowRead
  <2>3. RowRead(m)' = RowRead(m)
    BY <2>1, <2>2, ResultsFinal DEF RowRead
  <2>4. ASSUME page.pc = "answer"
        PROVE  \E n \in 0 .. Len(entries'[m]) : HoldsScored(m, n)' /\ page.read = FirstRead(m, n)'
    <3>1. PICK n \in 0 .. Len(entries[m]) : HoldsScored(m, n) /\ page.read = FirstRead(m, n)
      BY <1>2, <2>4 DEF PageInvariant
    <3>2. /\ DOMAIN entries[m] = 1 .. Len(entries[m]) /\ Len(entries[m]) \in Nat
          /\ DOMAIN entries'[m] = 1 .. Len(entries'[m]) /\ Len(entries'[m]) \in Nat
      BY <2>1 DEF TypeOK
    <3>3. n \in 0 .. Len(entries'[m]) /\ 1 .. n \subseteq DOMAIN entries[m]
      <4>1. DOMAIN entries[m] \subseteq DOMAIN entries'[m]
        BY <2>1, <2>2, ResultsFinal
      <4> QED
        BY <3>2, <4>1
    <3>4. FirstRead(m, n)' = FirstRead(m, n)
      BY <2>1, <2>2, <3>3, ResultsFinal DEF FirstRead
    <3>5. HoldsScored(m, n)'
      <4> SUFFICES ASSUME NEW i \in DOMAIN entries'[m], Settled(call[entries[m][i]].user, m)'
                   PROVE  i <= n
        BY DEF HoldsScored
      <4>1. i \in DOMAIN entries[m]
        BY <2>1, <2>2, ResultsFinal
      <4>2. call[entries[m][i]].user \in Users
        BY <2>1, <4>1, Entrants
      <4>3. entries'[m][i] = entries[m][i] /\ call'[entries'[m][i]] = call[entries[m][i]]
        BY <2>1, <2>2, <4>1, ResultsFinal
      <4>4. Settled(call[entries[m][i]].user, m)
        <5>1. PICK u \in Users : u = call[entries[m][i]].user
          BY <4>2
        <5>2. Settled(u, m)'
          BY <4>3, <5>1 DEF Settled
        <5>3. Settled(u, m)
          BY <2>1, <2>2, <5>2, ResultsFinal
        <5> QED
          BY <5>1, <5>3
      <4> QED
        BY <3>1, <4>1, <4>4 DEF HoldsScored
    <3> QED
      BY <3>1, <3>3, <3>4, <3>5
  <2> QED
    BY <2>1, <2>3, <2>4
<1>3. ASSUME page.shown # None, page.shown.row.status = "RESOLVED"
      PROVE  /\ page.shown.row = RowRead(m)'
             /\ \A k \in DOMAIN page.shown.list :
                  /\ page.shown.list[k].prediction \in EntrySet(m)'
                  /\ call'[page.shown.list[k].prediction] = call[page.shown.list[k].prediction]
                  /\ Settled(call[page.shown.list[k].prediction].user, m)'
                       => Settled(call[page.shown.list[k].prediction].user, m)
  <2>1. m \in Markets /\ page.shown.row = RowRead(m)
    BY <1>3 DEF PageInvariant
  <2>2. battle[m].status = "RESOLVED"
    BY <1>3, <2>1 DEF RowRead
  <2>3. RowRead(m)' = RowRead(m)
    BY <2>1, <2>2, ResultsFinal DEF RowRead
  <2>4. ASSUME NEW k \in DOMAIN page.shown.list
        PROVE  /\ page.shown.list[k].prediction \in EntrySet(m)'
               /\ call'[page.shown.list[k].prediction] = call[page.shown.list[k].prediction]
               /\ Settled(call[page.shown.list[k].prediction].user, m)'
                    => Settled(call[page.shown.list[k].prediction].user, m)
    <3>1. PICK i \in DOMAIN entries[m] : entries[m][i] = page.shown.list[k].prediction
      BY <1>3 DEF PageInvariant, EntrySet
    <3>2. i \in DOMAIN entries'[m] /\ entries'[m][i] = entries[m][i]
          /\ call'[entries[m][i]] = call[entries[m][i]]
      BY <2>1, <2>2, ResultsFinal
    <3>3. PICK u \in Users : u = call[entries[m][i]].user
      BY <2>1, Entrants
    <3>4. Settled(u, m)' <=> Settled(u, m)
      BY <2>1, <2>2, ResultsFinal
    <3> QED
      BY <3>1, <3>2, <3>3, <3>4 DEF EntrySet, Settled
  <2> QED
    BY <2>1, <2>3, <2>4
<1>4. (ListIsShort => ResolvedListIsRanked)'
  <2>1. ListIsShort' <=> ListIsShort
    BY DEF ListIsShort
  <2>2. ASSUME ResolvedListIsRanked PROVE ResolvedListIsRanked'
    BY <1>3, <2>2 DEF ResolvedListIsRanked, Number, IsRight, Settled
  <2> QED
    BY <2>1, <2>2 DEF PageInvariant
<1> QED
  BY <1>1, <1>2, <1>3, <1>4 DEF PageInvariant

\* The rows of the list, and that they are ranked if placement ?? 999 can do
\* no harm.
LEMMA ListIs ==
  ASSUME TypeOK, EntryInvariant, NEW m \in Markets, NEW n \in 0 .. Len(entries[m]), NEW list,
         list = SortEntries(RowRead(m), FirstRead(m, n))
  PROVE  LET at(k) == RowAt(RowRead(m), FirstRead(m, n), k)
         IN /\ DOMAIN list = 1 .. n /\ Len(list) = n
            /\ \A k \in 1 .. n :
                 /\ at(k) \in 1 .. n /\ at(k) \in DOMAIN entries[m]
                 /\ list[k].prediction = entries[m][at(k)]
                 /\ list[k].placement = placement[entries[m][at(k)]]
                 /\ list[k].prediction \in EntrySet(m)
<1> DEFINE at(k) == RowAt(RowRead(m), FirstRead(m, n), k)
<1>1. /\ list = [k \in 1 .. n |-> FirstRead(m, n)[at(k)]]
      /\ \A k \in 1 .. n : at(k) \in 1 .. n
  BY FirstReadSorted
<1>2. /\ 1 .. n \subseteq DOMAIN entries[m] /\ n \in Nat
      /\ \A i \in 1 .. n : /\ FirstRead(m, n)[i].prediction = entries[m][i]
                          /\ FirstRead(m, n)[i].placement = placement[entries[m][i]]
  BY FirstReadIs
<1>3. DOMAIN list = 1 .. n /\ Len(list) = n
  BY <1>1, <1>2
<1> HIDE DEF at
<1>4. \A k \in 1 .. n : list[k] = FirstRead(m, n)[at(k)]
  BY <1>1
<1>5. \A k \in 1 .. n : /\ at(k) \in 1 .. n /\ at(k) \in DOMAIN entries[m]
                        /\ list[k].prediction = entries[m][at(k)]
                        /\ list[k].placement = placement[entries[m][at(k)]]
  BY <1>1, <1>2, <1>4
<1>6. \A k \in 1 .. n : list[k].prediction \in EntrySet(m)
  BY <1>5 DEF EntrySet
<1> QED
  BY <1>3, <1>5, <1>6 DEF at

LEMMA ListIsRanked ==
  ASSUME TypeOK, EntryInvariant, NEW m \in Markets, battle[m].status = "RESOLVED", RankedAt(m),
         NEW n \in 0 .. Len(entries[m]), HoldsScored(m, n), n <= 999, NEW list,
         list = SortEntries(RowRead(m), FirstRead(m, n))
  PROVE  /\ \A k \in 1 .. n :
              /\ list[k].placement \in {0, k}
              /\ list[k].placement # 0 => call[list[k].prediction].direction = battle[m].outcome
              /\ /\ call[list[k].prediction].direction = battle[m].outcome
                 /\ Settled(call[list[k].prediction].user, m)
                 => list[k].placement # 0
         /\ \A i, j \in 1 .. n : i < j /\ list[j].placement # 0 =>
              /\ list[i].placement # 0
              /\ call[list[i].prediction].confidence >= call[list[j].prediction].confidence
<1> DEFINE at(k) == RowAt(RowRead(m), FirstRead(m, n), k)
<1>1. \A k \in 1 .. n :
        /\ at(k) \in 1 .. n /\ at(k) \in DOMAIN entries[m]
        /\ list[k].prediction = entries[m][at(k)]
        /\ list[k].placement = placement[entries[m][at(k)]]
        /\ list[k].prediction \in EntrySet(m)
  BY ListIs
<1>2. \A k \in 1 .. n : at(k) \in PlacedAt(m) =>
        /\ placement[entries[m][at(k)]] = k
        /\ \A i \in 1 .. n : i < k => at(i) \in PlacedAt(m)
  BY PlacedComeFirst
<1> HIDE DEF at
<1>3. \A k \in 1 .. n : IF at(k) \in PlacedAt(m) THEN list[k].placement = k
                                               ELSE list[k].placement = 0
  BY <1>1, <1>2 DEF RankedAt
<1>4. \A k \in 1 .. n : list[k].placement # 0 <=> at(k) \in PlacedAt(m)
  BY <1>3
<1>5. \A k \in 1 .. n : at(k) \in PlacedAt(m) <=>
        /\ call[list[k].prediction].direction = battle[m].outcome
        /\ Settled(call[list[k].prediction].user, m)
  BY <1>1 DEF PlacedAt, ScoredAt
<1>6. ASSUME NEW i \in 1 .. n, NEW j \in 1 .. n, i < j, list[j].placement # 0
      PROVE  /\ list[i].placement # 0
             /\ call[list[i].prediction].confidence >= call[list[j].prediction].confidence
  <2>1. at(i) \in PlacedAt(m) /\ at(j) \in PlacedAt(m)
    BY <1>2, <1>4, <1>6
  <2>2. placement[entries[m][at(i)]] < placement[entries[m][at(j)]]
    BY <1>2, <1>6, <2>1
  <2>3. /\ call[entries[m][at(i)]].confidence \in Int /\ call[entries[m][at(j)]].confidence \in Int
    BY <1>1, Entrants
  <2>4. call[entries[m][at(i)]].confidence >= call[entries[m][at(j)]].confidence
    BY <2>1, <2>2, <2>3 DEF RankedAt
  <2> QED
    BY <1>1, <1>4, <2>1, <2>4
<1>7. \A k \in 1 .. n : list[k].placement \in {0, k}
  BY <1>3
<1> QED
  BY <1>4, <1>5, <1>6, <1>7

\* Rendering the answer.
LEMMA ShowsRanked ==
  ASSUME TypeOK, EntryInvariant, ResultsInvariant, PageInvariant, PageShows, UNCHANGED vars
  PROVE  PageInvariant'
<1> DEFINE m == page.market
<1>1. page' = [page EXCEPT !.pc = "idle", !.row = None, !.read = <<>>,
                           !.shown = Leaderboard(Detail)]
  BY DEF PageShows
<1>2. /\ DOMAIN page' = DOMAIN NoPage /\ page'.market = m /\ page'.pc = "idle"
      /\ page'.shown.row = page.row
      /\ page'.shown.list = SortEntries(page.row, page.read)
  <2>1. DOMAIN page = DOMAIN NoPage
    BY DEF PageInvariant
  <2>2. DOMAIN page' = DOMAIN NoPage
    BY <1>1, <2>1
  <2>3. page'.market = m /\ page'.pc = "idle" /\ page'.shown = Leaderboard(Detail)
    BY <1>1, <2>1 DEF NoPage
  <2> QED
    BY <2>2, <2>3 DEF Leaderboard, Detail
<1>3. m \in Markets /\ page.pc = "answer"
  BY DEF PageShows, PageInvariant
<1>4. ASSUME page'.shown.row.status = "RESOLVED"
      PROVE  /\ page'.shown.row = RowRead(m)'
             /\ \A k \in DOMAIN page'.shown.list :
                  page'.shown.list[k].prediction \in EntrySet(m)'
             /\ ListIsShort' => ResolvedListIsRanked'
  <2>1. page.row.status = "RESOLVED"
    BY <1>2, <1>4
  <2>2. page.row = RowRead(m) /\ battle[m].status = "RESOLVED"
    BY <1>3, <2>1 DEF PageInvariant, RowRead
  <2>3. PICK n \in 0 .. Len(entries[m]) : HoldsScored(m, n) /\ page.read = FirstRead(m, n)
    BY <1>3, <2>1 DEF PageInvariant
  <2>4. PICK list : list = page'.shown.list
    OBVIOUS
  <2>5. list = SortEntries(RowRead(m), FirstRead(m, n))
    BY <1>2, <2>2, <2>3, <2>4
  <2>6. /\ DOMAIN list = 1 .. n /\ Len(list) = n
        /\ \A k \in 1 .. n : list[k].prediction \in EntrySet(m)
    <3>1. DOMAIN list = 1 .. n /\ Len(list) = n
      BY <1>3, <2>5, ListIs
    <3>2. \A k \in 1 .. n : list[k].prediction \in EntrySet(m)
      BY <1>3, <2>5, ListIs
    <3> QED
      BY <3>1, <3>2
  <2>7. RowRead(m)' = RowRead(m) /\ EntrySet(m)' = EntrySet(m) /\ UNCHANGED <<battle, call, events>>
    BY <1>2 DEF RowRead, EntrySet, vars, world, rows
  <2>8. ASSUME ListIsShort' PROVE ResolvedListIsRanked'
    <3>1. CASE page'.shown = None
      BY <3>1 DEF ResolvedListIsRanked
    <3>2. CASE page'.shown # None
      <4>1. n <= 999
        BY <2>4, <2>6, <2>8, <3>2 DEF ListIsShort
      <4>2. RankedAt(m)
        BY <1>3, <2>2, Ranked DEF ResultsInvariant
      <4>3. /\ \A k \in 1 .. n :
                 /\ list[k].placement \in {0, k}
                 /\ list[k].placement # 0 => call[list[k].prediction].direction = battle[m].outcome
                 /\ /\ call[list[k].prediction].direction = battle[m].outcome
                    /\ Settled(call[list[k].prediction].user, m)
                    => list[k].placement # 0
            /\ \A i, j \in 1 .. n : i < j /\ list[j].placement # 0 =>
                 /\ list[i].placement # 0
                 /\ call[list[i].prediction].confidence >= call[list[j].prediction].confidence
        BY <1>3, <2>2, <2>3, <2>5, <4>1, <4>2, ListIsRanked
      <4>4. /\ page'.shown.row.status = "RESOLVED" /\ page'.shown.row.outcome = battle[m].outcome
        BY <1>2, <2>1, <2>2 DEF RowRead
      <4>5. page'.shown.list = list /\ page'.market = m
        BY <1>2, <2>4
      <4>6. \A k \in 1 .. n : Number(page.shown, k)' = k
        BY <4>3, <4>4, <4>5 DEF Number
      <4>7. \A k \in 1 .. n :
              IsRight(page.shown, k)' <=> call[list[k].prediction].direction = battle[m].outcome
        BY <2>7, <4>4, <4>5 DEF IsRight
      <4>8. \A k \in 1 .. n : Settled(call[list[k].prediction].user, m)
              <=> Settled(call[page.shown.list[k].prediction].user, page.market)'
        BY <2>7, <4>5 DEF Settled
      <4> QED
        BY <2>6, <2>7, <4>3, <4>5, <4>6, <4>7, <4>8 DEF ResolvedListIsRanked
    <3> QED
      BY <3>1, <3>2
  <2> QED
    BY <1>2, <2>2, <2>4, <2>6, <2>7, <2>8
<1>5. page'.shown.row.status # "RESOLVED" => ResolvedListIsRanked'
  BY DEF ResolvedListIsRanked
<1> QED
  BY <1>2, <1>3, <1>4, <1>5 DEF PageInvariant

\* Whatever was shown before stays as it was.
LEMMA ShownStays ==
  ASSUME PageInvariant, UNCHANGED vars, page'.market = page.market, page'.shown = page.shown
  PROVE  /\ page'.market = None => page'.shown = None
         /\ page'.shown # None /\ page'.shown.row.status = "RESOLVED" =>
              /\ page'.shown.row = RowRead(page.market)'
              /\ \A k \in DOMAIN page'.shown.list :
                   page'.shown.list[k].prediction \in EntrySet(page.market)'
         /\ ListIsShort' => ResolvedListIsRanked'
<1>1. UNCHANGED <<battle, entries, placement, call, events>>
  BY DEF vars, world, rows
<1>2. /\ page.market = None => page.shown = None
      /\ page.shown # None /\ page.shown.row.status = "RESOLVED" =>
           /\ page.shown.row = RowRead(page.market)
           /\ \A k \in DOMAIN page.shown.list :
                page.shown.list[k].prediction \in EntrySet(page.market)
  BY DEF PageInvariant
<1>3. RowRead(page.market)' = RowRead(page.market) /\ EntrySet(page.market)' = EntrySet(page.market)
  BY <1>1 DEF RowRead, EntrySet
<1>4. (ListIsShort' <=> ListIsShort) /\ (ResolvedListIsRanked => ResolvedListIsRanked')
  <2>1. ListIsShort' <=> ListIsShort
    BY DEF ListIsShort
  <2>2. ResolvedListIsRanked => ResolvedListIsRanked'
    <3>1. \A k : /\ Number(page.shown, k)' = Number(page.shown, k)
                 /\ IsRight(page.shown, k)' <=> IsRight(page.shown, k)
      BY <1>1 DEF Number, IsRight
    <3>2. \A u : Settled(u, page.market)' <=> Settled(u, page.market)
      BY <1>1 DEF Settled
    <3> QED
      BY <1>1, <3>1, <3>2, Zenon DEF ResolvedListIsRanked
  <2> QED
    BY <2>1, <2>2
<1>5. ListIsShort => ResolvedListIsRanked
  BY DEF PageInvariant
<1> QED
  BY <1>2, <1>3, <1>4, <1>5

\* Reading the row of the battle.
LEMMA ReadsBattle ==
  ASSUME TypeOK, PageInvariant, PageReadBattle, UNCHANGED vars
  PROVE  PageInvariant'
<1>1. page' = [page EXCEPT !.pc = "entries", !.row = RowRead(page.market)]
      /\ DOMAIN page = DOMAIN NoPage /\ page.market \in Markets
  BY DEF PageReadBattle, PageInvariant
<1>2. /\ DOMAIN page' = DOMAIN NoPage /\ page'.market = page.market /\ page'.pc = "entries"
      /\ page'.shown = page.shown /\ page'.row = RowRead(page.market)
  <2>1. DOMAIN page' = DOMAIN NoPage
    BY <1>1
  <2>2. /\ page'.market = page.market /\ page'.pc = "entries"
        /\ page'.shown = page.shown /\ page'.row = RowRead(page.market)
    BY <1>1 DEF NoPage
  <2> QED
    BY <2>1, <2>2
<1>3. RowRead(page.market)' = RowRead(page.market)
  BY <1>2 DEF RowRead, vars, world, rows
<1>4. page'.market # None
  BY <1>1, <1>2, NoneAssumption
<1> QED
  BY <1>1, <1>2, <1>3, <1>4, ShownStays DEF PageInvariant

\* Reading its entries: of a battle that was RESOLVED before, all who were
\* scored in it.
LEMMA ReadsEntries ==
  ASSUME TypeOK, PageInvariant, PageReadEntries, UNCHANGED vars
  PROVE  PageInvariant'
<1> DEFINE m == page.market
<1>1. page' = [page EXCEPT !.pc = "answer", !.read = EntriesRead(m)]
      /\ DOMAIN page = DOMAIN NoPage /\ m \in Markets /\ page.pc = "entries"
  BY DEF PageReadEntries, PageInvariant
<1>2. /\ DOMAIN page' = DOMAIN NoPage /\ page'.market = m /\ page'.pc = "answer"
      /\ page'.shown = page.shown /\ page'.row = page.row /\ page'.read = EntriesRead(m)
  <2>1. DOMAIN page' = DOMAIN NoPage
    BY <1>1
  <2>2. /\ page'.market = m /\ page'.pc = "answer"
        /\ page'.shown = page.shown /\ page'.row = page.row /\ page'.read = EntriesRead(m)
    BY <1>1 DEF NoPage
  <2> QED
    BY <2>1, <2>2
<1>3. page'.market # None
  BY <1>1, <1>2, NoneAssumption
<1>4. ASSUME page'.row.status = "RESOLVED"
      PROVE  /\ page'.row = RowRead(m)'
             /\ \E n \in 0 .. Len(entries'[m]) : HoldsScored(m, n)' /\ page'.read = FirstRead(m, n)'
  <2>1. page'.row = RowRead(m)'
    <3>1. page.row = RowRead(m)
      BY <1>1, <1>2, <1>4 DEF PageInvariant
    <3>2. RowRead(m)' = RowRead(m)
      BY <1>2 DEF RowRead, vars, world, rows
    <3> QED
      BY <1>2, <3>1, <3>2
  <2>2. DOMAIN entries[m] = 1 .. Len(entries[m]) /\ Len(entries[m]) \in Nat
    BY <1>1 DEF TypeOK
  <2>3. PICK n \in 0 .. Len(entries[m]) : n = Len(entries[m])
    BY <2>2
  <2>4. UNCHANGED <<entries, placement, m>>
    BY <1>2 DEF vars, rows
  <2>5. n \in 0 .. Len(entries'[m])
    BY <2>4
  <2>6. HoldsScored(m, n)'
    BY <2>2, <2>3, <2>4 DEF HoldsScored
  <2>7. EntriesRead(m) = FirstRead(m, n)
    BY <2>2, <2>3 DEF EntriesRead, FirstRead
  <2>8. FirstRead(m, n)' = FirstRead(m, n)
    BY <2>4 DEF FirstRead
  <2> QED
    BY <1>2, <2>1, <2>5, <2>6, <2>7, <2>8
<1> QED
  BY <1>1, <1>2, <1>3, <1>4, ShownStays DEF PageInvariant

LEMMA PageMoves ==
  ASSUME TypeOK, EntryInvariant, ResultsInvariant, PageInvariant, PageNext, UNCHANGED vars
  PROVE  PageInvariant'
<1>1. CASE PageReadBattle
  BY <1>1, ReadsBattle
<1>2. CASE PageReadEntries
  BY <1>2, ReadsEntries
<1>3. CASE PageShows
  BY <1>3, ShowsRanked
<1>4. CASE PageFails
  <2>1. page' = [page EXCEPT !.pc = "idle", !.row = None, !.read = <<>>]
        /\ DOMAIN page = DOMAIN NoPage /\ page.market \in Markets \cup {None}
    BY <1>4 DEF PageFails, PageInvariant
  <2>2. DOMAIN page' = DOMAIN NoPage
    BY <2>1
  <2>3. page'.market = page.market /\ page'.pc = "idle" /\ page'.shown = page.shown
    BY <2>1 DEF NoPage
  <2> QED
    BY <2>1, <2>2, <2>3, ShownStays DEF PageInvariant
<1> QED
  BY <1>1, <1>2, <1>3, <1>4 DEF PageNext

LEMMA PageInit ==
  ASSUME ViewsInit PROVE PageInvariant
<1>1. page \in {NoPage} \cup {PageOn(x) : x \in Markets}
  BY DEF ViewsInit
<1>2. /\ DOMAIN page = DOMAIN NoPage /\ page.market \in Markets \cup {None}
      /\ page.pc = "idle" /\ page.shown = None
  <2>1. CASE page = NoPage
    BY <2>1 DEF NoPage
  <2>2. CASE \E x \in Markets : page = PageOn(x)
    BY <2>2 DEF PageOn, NoPage
  <2> QED
    BY <1>1, <2>1, <2>2
<1> QED
  BY <1>2 DEF PageInvariant, ResolvedListIsRanked

LEMMA PageCorrect == ViewsSpec => []PageInvariant
<1>1. ViewsInit => PageInvariant
  BY PageInit
<1>2. TypeOK /\ TypeOK' /\ EntryInvariant /\ EntryInvariant' /\ SettlementInvariant
        /\ ResultsInvariant /\ PageInvariant /\ [ViewsNext]_<<vars, page>> => PageInvariant'
  <2>1. CASE [Next]_vars /\ UNCHANGED page
    BY <2>1, BattlesMove
  <2>2. CASE PageNext /\ UNCHANGED vars
    BY <2>2, PageMoves
  <2> QED
    BY <2>1, <2>2 DEF ViewsNext
<1>3. ViewsSpec => [](TypeOK /\ EntryInvariant /\ SettlementInvariant /\ ResultsInvariant)
  BY ViewsKeepBattles, TypeCorrect, EntryCorrect, SettlementCorrect, ResultsCorrect, PTL
<1> QED
  BY <1>1, <1>2, <1>3, PTL DEF ViewsSpec

\* However a page's two readings of a battle fall between the requests and the
\* ticks, what it shows of a RESOLVED battle is the final ranking, as long as
\* no row without a place, sorted by placement ?? 999, can come before a
\* placed one.
THEOREM ResolvedListCorrect == ViewsSpec => [](ListIsShort => ResolvedListIsRanked)
<1>1. PageInvariant => (ListIsShort => ResolvedListIsRanked)
  BY DEF PageInvariant
<1> QED
  BY <1>1, PageCorrect, PTL
=============================================================================
