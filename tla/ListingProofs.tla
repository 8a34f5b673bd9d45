--------------------------- MODULE ListingProofs ---------------------------
(***************************************************************************)
(* For any number of rows, lists, limits and changes, and whatever the      *)
(* conditions select: what the pages of a list have in common with the      *)
(* rows that stay in it, and how many there are.  At the end, for every     *)
(* row, that tables of both kinds agree on the conditions of the leases.    *)
(*                                                                         *)
(* What a table in memory promises rests on the number of matching rows     *)
(* before a row, its rank.  A page has the ranks from its key on.  A change *)
(* moves the rank of a row down by no more than the rows it takes out of    *)
(* the list, and does not move it up unless it brings a row in.  The rows   *)
(* of an SQL table have no order, and no ranks: what holds of its lists     *)
(* rests on how many rows match.                                            *)
(***************************************************************************)
EXTENDS ListingProps, MatchingProps, FiniteSetTheorems, SequenceTheorems, WellFoundedInduction, TLAPS

------------------------------------------------------------------------------
(* Ranks in a set of numbers *)

\* A set of natural numbers that is not empty has a least member.
LEMMA LeastMember ==
  ASSUME NEW S, S \subseteq Nat, S # {}
  PROVE  \E x \in S : \A y \in S : x <= y
<1>1. PICK x \in S : \A y \in S : ~(<< y, x >> \in OpToRel(<, Nat))
  BY NatLessThanWellFounded, WFMin, Zenon
<1>2. \A y \in S : ~(y < x)
  BY <1>1 DEF OpToRel
<1> QED
  BY <1>2

Below(S, i) == { j \in S : j < i }
Rank(S, i) == Cardinality(Below(S, i))

LEMMA RankInRange ==
  ASSUME NEW S, IsFiniteSet(S), S \subseteq Nat, NEW i \in Nat
  PROVE  /\ IsFiniteSet(Below(S, i)) /\ Rank(S, i) \in Nat /\ Cardinality(S) \in Nat
         /\ Rank(S, i) <= Cardinality(S)
         /\ i \in S => Rank(S, i) < Cardinality(S)
<1>1. Below(S, i) \in SUBSET S
  BY DEF Below
<1>2. IsFiniteSet(Below(S, i)) /\ Cardinality(Below(S, i)) <= Cardinality(S)
  BY <1>1, FS_Subset
<1>3. Cardinality(S) = Cardinality(Below(S, i)) => S = Below(S, i)
  BY <1>1, FS_Subset
<1>4. Cardinality(S) \in Nat /\ Cardinality(Below(S, i)) \in Nat
  BY <1>2, FS_CardinalityType
<1>5. i \notin Below(S, i)
  BY DEF Below
<1> QED
  BY <1>2, <1>3, <1>4, <1>5 DEF Rank

\* What is next to a member ranks next to it.
LEMMA NextRank ==
  ASSUME NEW S, IsFiniteSet(S), S \subseteq Nat, NEW i \in S, NEW k \in S, i < k,
         \A j \in S : j > i => j >= k
  PROVE  Rank(S, k) = Rank(S, i) + 1
<1>0. \A j \in S : j \in Nat
  OBVIOUS
<1>1. Below(S, k) = Below(S, i) \cup {i} /\ i \notin Below(S, i)
  <2>1. (\A j \in S : j < k <=> j < i \/ j = i) /\ ~(i < i)
    BY <1>0
  <2> QED
    BY <2>1, Zenon DEF Below
<1>2. IsFiniteSet(Below(S, i))
  BY RankInRange
<1> QED
  BY <1>1, <1>2, FS_AddElement DEF Rank

LEMMA RankOrder ==
  ASSUME NEW S, IsFiniteSet(S), S \subseteq Nat, NEW i \in S, NEW k \in S, i < k
  PROVE  Rank(S, i) < Rank(S, k)
<1>0. \A j \in S : j \in Nat
  OBVIOUS
<1>1. Below(S, i) \cup {i} \in SUBSET Below(S, k) /\ i \notin Below(S, i)
  <2>1. (\A j \in S : j < i \/ j = i => j < k) /\ ~(i < i)
    BY <1>0
  <2> QED
    BY <2>1, Zenon DEF Below
<1>2. /\ IsFiniteSet(Below(S, i)) /\ IsFiniteSet(Below(S, k))
      /\ Rank(S, i) \in Nat /\ Rank(S, k) \in Nat
  BY RankInRange
<1>3. Cardinality(Below(S, i) \cup {i}) = Rank(S, i) + 1
  BY <1>1, <1>2, FS_AddElement DEF Rank
<1>4. Cardinality(Below(S, i) \cup {i}) <= Rank(S, k)
  BY <1>1, <1>2, FS_Subset DEF Rank
<1> QED
  BY <1>2, <1>3, <1>4

\* Every number below the size of a set is the rank of one of its members.
LEMMA RankExists ==
  ASSUME NEW S, IsFiniteSet(S), S \subseteq Nat, NEW n \in Nat, n < Cardinality(S)
  PROVE  \E i \in S : Rank(S, i) = n
<1> DEFINE missing == { m \in Nat : m < Cardinality(S) /\ ~\E i \in S : Rank(S, i) = m }
<1>0. \A j \in S : j \in Nat
  OBVIOUS
<1>1. Cardinality(S) \in Nat
  BY FS_CardinalityType
<1>2. ASSUME missing # {} PROVE FALSE
  <2>1. PICK m \in missing : \A y \in missing : m <= y
    BY <1>2, LeastMember
  <2>2. m \in Nat /\ m < Cardinality(S) /\ ~\E i \in S : Rank(S, i) = m
    BY <2>1
  <2>3. CASE m = 0
    <3>1. S # {}
      BY <1>1, <2>2, <2>3, FS_EmptySet
    <3>2. PICK i \in S : \A y \in S : i <= y
      BY <3>1, LeastMember
    <3>3. Below(S, i) = {}
      <4>1. \A j \in S : ~(j < i)
        BY <1>0, <3>2
      <4> QED
        BY <4>1, Zenon DEF Below
    <3>4. Rank(S, i) = 0
      BY <3>3, FS_EmptySet DEF Rank
    <3> QED
      BY <2>2, <2>3, <3>4
  <2>4. CASE m # 0
    <3>1. m - 1 \in Nat /\ m - 1 < Cardinality(S) /\ m - 1 \notin missing
      BY <1>1, <2>1, <2>2, <2>4
    <3>2. PICK i \in S : Rank(S, i) = m - 1
      BY <3>1
    <3> DEFINE upper == { j \in S : j > i }
    <3>3. upper # {}
      <4> SUFFICES ASSUME upper = {} PROVE FALSE
        OBVIOUS
      <4>0. (\A j \in S : j < i \/ j = i) /\ ~(i < i)
        BY <1>0
      <4>1. S = Below(S, i) \cup {i} /\ i \notin Below(S, i)
        BY <4>0, Zenon DEF Below
      <4>2. IsFiniteSet(Below(S, i))
        BY RankInRange
      <4>3. Cardinality(S) = Rank(S, i) + 1
        BY <4>1, <4>2, FS_AddElement DEF Rank
      <4> QED
        BY <2>2, <3>2, <4>3
    <3>4. upper \subseteq Nat
      OBVIOUS
    <3>5. PICK k \in upper : \A y \in upper : k <= y
      BY <3>3, <3>4, LeastMember
    <3>6. Rank(S, k) = Rank(S, i) + 1
      <4>1. k \in S /\ i < k /\ \A j \in S : j > i => j >= k
        BY <3>5
      <4> QED
        BY <4>1, NextRank
    <3> QED
      BY <2>2, <3>2, <3>5, <3>6
  <2> QED
    BY <2>3, <2>4
<1> QED
  BY <1>2

------------------------------------------------------------------------------
(* Changes to a sequence *)

LEMMA RemovedRow ==
  ASSUME NEW S, NEW s \in Seq(S), NEW i \in 1..Len(s)
  PROVE  /\ RemoveAt(s, i) \in Seq(S) /\ Len(RemoveAt(s, i)) = Len(s) - 1
         /\ \A j \in 1..(Len(s) - 1) : RemoveAt(s, i)[j] = IF j < i THEN s[j] ELSE s[j + 1]
<1> DEFINE front == SubSeq(s, 1, i - 1)   back == SubSeq(s, i + 1, Len(s))
<1>1. Len(s) \in Nat /\ i \in Int /\ \A j \in 1..Len(s) : s[j] \in S
  OBVIOUS
<1>2. /\ front \in Seq(S) /\ Len(front) = i - 1
      /\ \A j \in 1..(i - 1) : front[j] = s[j]
  <2>1. \A j \in 1..(i - 1) : s[j] \in S
    BY <1>1
  <2>2. /\ SubSeq(s, 1, i - 1) \in Seq(S)
        /\ Len(SubSeq(s, 1, i - 1)) = IF 1 <= i - 1 THEN (i - 1) - 1 + 1 ELSE 0
        /\ \A j \in 1..((i - 1) - 1 + 1) : SubSeq(s, 1, i - 1)[j] = s[1 + j - 1]
    BY <1>1, <2>1, SubSeqProperties
  <2> QED
    BY <1>1, <2>2
<1>3. /\ back \in Seq(S) /\ Len(back) = Len(s) - i
      /\ \A j \in 1..(Len(s) - i) : back[j] = s[i + j]
  <2>1. \A j \in (i + 1)..Len(s) : s[j] \in S
    BY <1>1
  <2>2. /\ SubSeq(s, i + 1, Len(s)) \in Seq(S)
        /\ Len(SubSeq(s, i + 1, Len(s))) = IF i + 1 <= Len(s) THEN Len(s) - (i + 1) + 1 ELSE 0
        /\ \A j \in 1..(Len(s) - (i + 1) + 1) : SubSeq(s, i + 1, Len(s))[j] = s[(i + 1) + j - 1]
    BY <1>1, <2>1, SubSeqProperties
  <2> QED
    BY <1>1, <2>2
<1>4. RemoveAt(s, i) = front \o back
  BY DEF RemoveAt
<1> HIDE DEF front, back
<1>5. /\ front \o back \in Seq(S) /\ Len(front \o back) = Len(front) + Len(back)
      /\ \A j \in 1..(Len(front) + Len(back)) :
           (front \o back)[j] = IF j <= Len(front) THEN front[j] ELSE back[j - Len(front)]
  BY <1>2, <1>3, ConcatProperties
<1>6. Len(front) + Len(back) = Len(s) - 1
  BY <1>1, <1>2, <1>3
<1>7. ASSUME NEW j \in 1..(Len(s) - 1)
      PROVE  (front \o back)[j] = IF j < i THEN s[j] ELSE s[j + 1]
  <2>1. (front \o back)[j] = IF j <= Len(front) THEN front[j] ELSE back[j - Len(front)]
    BY <1>5, <1>6, Zenon
  <2>2. CASE j < i
    <3>1. j \in 1..(i - 1) /\ j <= Len(front)
      BY <1>1, <1>2, <2>2
    <3> QED
      BY <1>2, <2>1, <2>2, <3>1, Zenon
  <2>3. CASE ~(j < i)
    <3>1. /\ ~(j <= Len(front)) /\ j - Len(front) \in 1..(Len(s) - i)
          /\ i + (j - Len(front)) = j + 1
      BY <1>1, <1>2, <2>3
    <3>2. back[j - Len(front)] = s[j + 1]
      BY <1>3, <3>1
    <3> QED
      BY <2>1, <2>3, <3>1, <3>2, Zenon
  <2> QED
    BY <2>2, <2>3
<1> QED
  BY <1>4, <1>5, <1>6, <1>7, Zenon

------------------------------------------------------------------------------
(* Rows *)

LEMMA RowTyped ==
  ASSUME NEW content \in Contents, NEW pk \in Pks
  PROVE  /\ [content EXCEPT !.pk = pk] \in Rows
         /\ [content EXCEPT !.pk = pk].pk = pk
<1>1. "pk" \in DOMAIN content
  BY ListingAssumption
<1> QED
  BY <1>1 DEF Rows

LEMMA RowKey == ASSUME NEW row \in Rows PROVE row.pk \in Pks
<1>1. PICK content \in Contents, pk \in Pks : row = [content EXCEPT !.pk = pk]
  BY DEF Rows
<1> QED
  BY <1>1, RowTyped

LEMMA MatchesAreFinite ==
  ASSUME NEW rows \in Seq(Rows), NEW cnd
  PROVE  /\ Matches(rows, cnd) \subseteq DOMAIN rows /\ DOMAIN rows = 1..Len(rows)
         /\ Len(rows) \in Nat
         /\ IsFiniteSet(Matches(rows, cnd)) /\ Matches(rows, cnd) \subseteq Nat
<1>1. DOMAIN rows = 1..Len(rows) /\ Len(rows) \in Nat /\ 1..Len(rows) \subseteq Nat
  OBVIOUS
<1>2. Matches(rows, cnd) \in SUBSET (1..Len(rows))
  BY <1>1 DEF Matches
<1>3. IsFiniteSet(1..Len(rows))
  BY <1>1, FS_Interval
<1> QED
  BY <1>1, <1>2, <1>3, FS_Subset

\* The primary keys of the matching rows before a row.
Ahead(rows, cnd, i) == { rows[j].pk : j \in Below(Matches(rows, cnd), i) }

LEMMA KeysOfIndexes ==
  ASSUME NEW rows \in Seq(Rows), UniqueKey(rows), NEW J, J \subseteq DOMAIN rows, IsFiniteSet(J)
  PROVE  /\ IsFiniteSet({ rows[j].pk : j \in J })
         /\ Cardinality({ rows[j].pk : j \in J }) = Cardinality(J)
<1> DEFINE T == { rows[j].pk : j \in J }
           f == [j \in J |-> rows[j].pk]
<1>1. f \in [J -> T] /\ \A t \in T : \E j \in J : f[j] = t
  OBVIOUS
<1>2. \A i, j \in J : f[i] = f[j] => i = j
  BY DEF UniqueKey
<1> HIDE DEF f, T
<1>3. f \in Bijection(J, T)
  BY <1>1, <1>2 DEF Bijection, Injection, Surjection, IsInjective
<1>4. ExistsBijection(J, T)
  BY <1>3 DEF ExistsBijection
<1> QED
  BY <1>4, FS_Bijection DEF T

LEMMA RankCountsAhead ==
  ASSUME NEW rows \in Seq(Rows), UniqueKey(rows), NEW cnd, NEW i \in DOMAIN rows
  PROVE  /\ IsFiniteSet(Ahead(rows, cnd, i))
         /\ Cardinality(Ahead(rows, cnd, i)) = Rank(Matches(rows, cnd), i)
         /\ Rank(Matches(rows, cnd), i) \in Nat
<1> DEFINE matches == Matches(rows, cnd)
<1>1. matches \subseteq DOMAIN rows /\ IsFiniteSet(matches) /\ matches \subseteq Nat /\ i \in Nat
  BY MatchesAreFinite
<1>2. IsFiniteSet(Below(matches, i)) /\ Rank(matches, i) \in Nat
  BY <1>1, RankInRange
<1>3. Below(matches, i) \subseteq DOMAIN rows
  BY <1>1 DEF Below
<1> QED
  BY <1>2, <1>3, KeysOfIndexes DEF Ahead, Rank

LEMMA MatchingPksAreFinite ==
  ASSUME NEW rows \in Seq(Rows), UniqueKey(rows), NEW cnd
  PROVE  IsFiniteSet(MatchingPks(rows, cnd)) /\ MatchingPks(rows, cnd) \subseteq Pks
<1>1. IsFiniteSet(MatchingPks(rows, cnd))
  BY MatchesAreFinite, KeysOfIndexes DEF MatchingPks
<1>2. \A i \in DOMAIN rows : rows[i] \in Rows
  OBVIOUS
<1> QED
  BY <1>1, <1>2, MatchesAreFinite, RowKey DEF MatchingPks

\* The rows that both tables have are in the same order.
Kept(old, new) ==
  \A i, j \in DOMAIN old, k, m \in DOMAIN new :
    old[i].pk = new[k].pk /\ old[j].pk = new[m].pk /\ i < j => k < m

\* Of two tables with the same order, a row loses no more of its rank than rows left
\* the list, and gains nothing if no row came into it.
LEMMA RankAfterChange ==
  ASSUME NEW old \in Seq(Rows), UniqueKey(old), NEW new \in Seq(Rows), UniqueKey(new),
         Kept(old, new), NEW cnd,
         NEW i \in Matches(old, cnd), NEW k \in Matches(new, cnd), old[i].pk = new[k].pk
  PROVE  LET gone == MatchingPks(old, cnd) \ MatchingPks(new, cnd)
         IN /\ Cardinality(gone) \in Nat
            /\ Rank(Matches(old, cnd), i) <= Rank(Matches(new, cnd), k) + Cardinality(gone)
            /\ MatchingPks(new, cnd) \subseteq MatchingPks(old, cnd) =>
                 Rank(Matches(new, cnd), k) <= Rank(Matches(old, cnd), i)
<1> DEFINE gone   == MatchingPks(old, cnd) \ MatchingPks(new, cnd)
           before == Ahead(old, cnd, i)
           after  == Ahead(new, cnd, k)
<1>1. /\ Matches(old, cnd) \subseteq DOMAIN old /\ Matches(new, cnd) \subseteq DOMAIN new
      /\ Matches(old, cnd) \subseteq Nat /\ Matches(new, cnd) \subseteq Nat
  BY MatchesAreFinite
<1>2. /\ IsFiniteSet(before) /\ Cardinality(before) = Rank(Matches(old, cnd), i)
      /\ IsFiniteSet(after) /\ Cardinality(after) = Rank(Matches(new, cnd), k)
      /\ Cardinality(before) \in Nat /\ Cardinality(after) \in Nat
  BY <1>1, RankCountsAhead
<1>3. IsFiniteSet(gone) /\ Cardinality(gone) \in Nat
  BY MatchingPksAreFinite, FS_Difference, FS_CardinalityType
<1>4. before \ gone \subseteq after
  <2> SUFFICES ASSUME NEW pk \in before, pk \notin gone PROVE pk \in after
    OBVIOUS
  <2>1. PICK j \in Matches(old, cnd) : j < i /\ pk = old[j].pk
    BY DEF Ahead, Below
  <2>2. pk \in MatchingPks(new, cnd)
    BY <2>1 DEF MatchingPks
  <2>3. PICK m \in Matches(new, cnd) : pk = new[m].pk
    BY <2>2 DEF MatchingPks
  <2>4. m < k
    BY <1>1, <2>1, <2>3 DEF Kept
  <2> QED
    BY <2>3, <2>4 DEF Ahead, Below
<1>5. ASSUME MatchingPks(new, cnd) \subseteq MatchingPks(old, cnd) PROVE after \subseteq before
  <2> SUFFICES ASSUME NEW pk \in after PROVE pk \in before
    OBVIOUS
  <2>1. PICK m \in Matches(new, cnd) : m < k /\ pk = new[m].pk
    BY DEF Ahead, Below
  <2>2. PICK j \in Matches(old, cnd) : pk = old[j].pk
    BY <1>5, <2>1 DEF MatchingPks
  <2>3. ~(i < j)
    <3>1. i < j => k < m
      BY <1>1, <2>1, <2>2 DEF Kept
    <3> QED
      BY <1>1, <2>1, <3>1
  <2>4. i # j
    <3>1. i = j => m = k
      BY <1>1, <2>1, <2>2 DEF UniqueKey
    <3> QED
      BY <1>1, <2>1, <3>1
  <2>5. j < i
    BY <1>1, <2>3, <2>4
  <2> QED
    BY <2>2, <2>5 DEF Ahead, Below
<1>6. Cardinality(before) <= Cardinality(after) + Cardinality(gone)
  <2>1. before \in SUBSET (after \cup gone)
    BY <1>4
  <2>2. /\ IsFiniteSet(after \cup gone)
        /\ Cardinality(after \cup gone) =
             Cardinality(after) + Cardinality(gone) - Cardinality(after \cap gone)
    BY <1>2, <1>3, FS_Union
  <2>3. Cardinality(after \cap gone) \in Nat
    BY <1>2, FS_Intersection, FS_CardinalityType
  <2>4. Cardinality(before) <= Cardinality(after \cup gone)
    BY <2>1, <2>2, FS_Subset
  <2> HIDE DEF before, after, gone
  <2> QED
    BY <1>2, <1>3, <2>2, <2>3, <2>4
<1>7. MatchingPks(new, cnd) \subseteq MatchingPks(old, cnd) =>
        Cardinality(after) <= Cardinality(before)
  BY <1>2, <1>5, FS_Subset
<1> HIDE DEF before, after
<1> QED
  BY <1>2, <1>3, <1>6, <1>7

------------------------------------------------------------------------------
(* A page *)

LEMMA NthMatchRank ==
  ASSUME table \in Seq(Rows)
  PROVE  LET matches == Matches(table, wanted)
         IN /\ Cardinality(matches) \in Nat
            /\ \A i \in matches : Rank(matches, i) \in 0..(Cardinality(matches) - 1)
            /\ \A n \in 0..(Cardinality(matches) - 1) :
                 \A i \in matches : Rank(matches, i) = n <=> i = NthMatch(n)
            /\ \A n \in 0..(Cardinality(matches) - 1) : NthMatch(n) \in matches
<1> DEFINE matches == Matches(table, wanted)
<1>1. IsFiniteSet(matches) /\ matches \subseteq Nat
  BY MatchesAreFinite
<1> HIDE DEF matches
<1>2. Cardinality(matches) \in Nat
  BY <1>1, FS_CardinalityType
<1>3. \A i \in matches : Rank(matches, i) \in 0..(Cardinality(matches) - 1)
  <2> SUFFICES ASSUME NEW i \in matches PROVE Rank(matches, i) \in 0..(Cardinality(matches) - 1)
    OBVIOUS
  <2>1. i \in Nat
    BY <1>1
  <2>2. Rank(matches, i) \in Nat /\ Rank(matches, i) < Cardinality(matches)
    BY <1>1, <2>1, RankInRange
  <2> QED
    BY <1>2, <2>2
<1>4. ASSUME NEW n \in 0..(Cardinality(matches) - 1)
      PROVE  /\ NthMatch(n) \in matches
             /\ \A i \in matches : Rank(matches, i) = n <=> i = NthMatch(n)
  <2>1. n \in Nat /\ n < Cardinality(matches)
    BY <1>2
  <2>2. \E i \in matches : Rank(matches, i) = n
    BY <1>1, <2>1, RankExists
  <2>3. NthMatch(n) = CHOOSE i \in matches : Rank(matches, i) = n
    BY DEF NthMatch, Rank, Below, matches
  <2>4. NthMatch(n) \in matches /\ Rank(matches, NthMatch(n)) = n
    BY <2>2, <2>3, Zenon
  <2>5. ASSUME NEW i \in matches, NEW k \in matches, Rank(matches, i) = Rank(matches, k)
        PROVE  i = k
    <3>1. i \in Nat /\ k \in Nat /\ Rank(matches, i) \in Nat /\ Rank(matches, k) \in Nat
      BY <1>1, <1>2, <1>3
    <3>2. i < k => Rank(matches, i) < Rank(matches, k)
      BY <1>1, RankOrder
    <3>3. k < i => Rank(matches, k) < Rank(matches, i)
      BY <1>1, RankOrder
    <3> QED
      BY <2>5, <3>1, <3>2, <3>3
  <2> QED
    BY <2>4, <2>5, Zenon
<1> QED
  BY <1>2, <1>3, <1>4 DEF matches

\* A page holds rows of the table, and one beyond the limit only if more rows match than
\* the key and the limit make up: of both kinds of tables.
LEMMA PageOfRows ==
  ASSUME table \in Seq(Rows), pageKey \in Nat, limit \in Nat \ {0},
         NEW rows \in find(pageKey, limit + 1)
  PROVE  /\ rows \in Seq(Rows) /\ Len(rows) \in 0..(limit + 1)
         /\ Len(rows) > limit => pageKey + limit < Cardinality(Matches(table, wanted))
<1> DEFINE matches == Matches(table, wanted)
           size    == Cardinality(matches)
           count   == IF size - pageKey < limit + 1 THEN size - pageKey ELSE limit + 1
           len     == IF count < 0 THEN 0 ELSE count
<1>1. size \in Nat /\ \A n \in 0..(size - 1) : NthMatch(n) \in matches
  BY NthMatchRank
<1>2. matches \subseteq DOMAIN table /\ \A i \in DOMAIN table : table[i] \in Rows
  BY MatchesAreFinite
<1>3. rows \in Answers(pageKey, count)
  BY DEF find
<1> HIDE DEF matches, size
<1>4. 1..count = 1..len /\ len \in Nat /\ len <= limit + 1
  BY <1>1
<1>5. \A n \in 1..count : pageKey + n - 1 \in 0..(size - 1)
  BY <1>1
<1>6. len > limit => pageKey + limit < size
  BY <1>1
<1> HIDE DEF count, len
<1>7. PICK row \in [1..count -> matches] : rows = [n \in 1..count |-> table[row[n]]]
  <2>1. CASE StoreKind = "memory"
    <3> DEFINE row == [n \in 1..count |-> NthMatch(pageKey + n - 1)]
    <3>1. row \in [1..count -> matches]
      BY <1>1, <1>5
    <3>2. rows = [n \in 1..count |-> table[row[n]]]
      BY <1>3, <2>1 DEF Answers
    <3> HIDE DEF row
    <3> QED
      BY <3>1, <3>2
  <2>2. CASE StoreKind # "memory"
    <3>1. PICK row \in Injection(1..count, matches) : rows = [n \in 1..count |-> table[row[n]]]
      BY <1>3, <2>2 DEF Answers, matches
    <3>2. row \in [1..count -> matches]
      BY DEF Injection
    <3> QED
      BY <3>1, <3>2
  <2> QED
    BY <2>1, <2>2
<1>8. rows = [n \in 1..len |-> rows[n]] /\ \A n \in 1..len : rows[n] \in Rows
  BY <1>2, <1>4, <1>7
<1>9. rows \in Seq(Rows) /\ Len(rows) = len
  BY <1>4, <1>8
<1> QED
  BY <1>4, <1>6, <1>9 DEF size, matches

\* A page of a table in memory holds the matching rows with the limit + 1 ranks from its
\* key on.
LEMMA PageOfRanks ==
  ASSUME StoreKind = "memory", table \in Seq(Rows), pageKey \in Nat, limit \in Nat \ {0},
         NEW rows \in find(pageKey, limit + 1)
  PROVE  LET matches == Matches(table, wanted)
         IN /\ rows \in Seq(Rows) /\ Len(rows) \in 0..(limit + 1)
            /\ \A n \in 1..Len(rows) :
                 \E i \in matches : rows[n] = table[i] /\ Rank(matches, i) = pageKey + n - 1
            /\ \A i \in matches :
                 /\ Rank(matches, i) \in Nat
                 /\ pageKey <= Rank(matches, i) =>
                      IF Rank(matches, i) > pageKey + limit
                      THEN Len(rows) > limit
                      ELSE /\ Rank(matches, i) - pageKey + 1 \in 1..Len(rows)
                           /\ rows[Rank(matches, i) - pageKey + 1] = table[i]
<1> DEFINE matches == Matches(table, wanted)
           size    == Cardinality(matches)
           count   == IF size - pageKey < limit + 1 THEN size - pageKey ELSE limit + 1
           len     == IF count < 0 THEN 0 ELSE count
<1>1. /\ size \in Nat
      /\ \A i \in matches : Rank(matches, i) \in 0..(size - 1)
      /\ \A n \in 0..(size - 1) : \A i \in matches : Rank(matches, i) = n <=> i = NthMatch(n)
      /\ \A n \in 0..(size - 1) : NthMatch(n) \in matches
  BY NthMatchRank
<1>2. rows = [n \in 1..count |-> table[NthMatch(pageKey + n - 1)]]
  BY DEF find, Answers
<1>3. matches \subseteq DOMAIN table /\ \A i \in DOMAIN table : table[i] \in Rows
  BY MatchesAreFinite
<1> HIDE DEF matches, size
<1>5. \A n \in 1..len : pageKey + n - 1 \in 0..(size - 1) /\ pageKey + n - 1 \in Int
  BY <1>1
<1>6. 1..count = 1..len
  BY <1>1
<1>7. len \in Nat /\ len <= limit + 1
  BY <1>1
<1> HIDE DEF count
<1>8. rows = [n \in 1..len |-> table[NthMatch(pageKey + n - 1)]]
  BY <1>2, <1>6
<1>9. ASSUME NEW i \in matches, pageKey <= Rank(matches, i)
      PROVE  /\ Rank(matches, i) > pageKey + limit => len > limit
             /\ ~(Rank(matches, i) > pageKey + limit) => Rank(matches, i) - pageKey + 1 \in 1..len
  BY <1>1, <1>9 DEF count
<1> HIDE DEF len
<1>10. \A n \in 1..len : table[NthMatch(pageKey + n - 1)] \in Rows
  BY <1>1, <1>3, <1>5
<1>11. rows \in Seq(Rows) /\ Len(rows) = len
  BY <1>7, <1>8, <1>10
<1>12. ASSUME NEW n \in 1..len
       PROVE  \E i \in matches : rows[n] = table[i] /\ Rank(matches, i) = pageKey + n - 1
  <2> DEFINE i == NthMatch(pageKey + n - 1)
  <2>1. i \in matches /\ Rank(matches, i) = pageKey + n - 1
    BY <1>1, <1>5, Zenon
  <2> QED
    BY <1>8, <2>1
<1>13. ASSUME NEW i \in matches, Rank(matches, i) - pageKey + 1 \in 1..len
       PROVE  rows[Rank(matches, i) - pageKey + 1] = table[i]
  <2>1. /\ Rank(matches, i) \in 0..(size - 1)
        /\ pageKey + (Rank(matches, i) - pageKey + 1) - 1 = Rank(matches, i)
    BY <1>1
  <2>2. i = NthMatch(Rank(matches, i))
    BY <1>1, <2>1, Zenon
  <2> QED
    BY <1>8, <1>13, <2>1, <2>2
<1>14. \A i \in matches : Rank(matches, i) \in Nat
  BY <1>1
<1> QED
  BY <1>7, <1>9, <1>11, <1>12, <1>13, <1>14 DEF matches

------------------------------------------------------------------------------
(* Types *)

\* What a change by others leaves to the reader.
LEMMA ChangeKeepsOrder ==
  ASSUME ListingTypeOK, create \/ conditionalUpdate \/ remove
  PROVE  table' \in Seq(Rows) /\ UniqueKey(table') /\ Kept(table, table') /\ Observe
<1>1. /\ table \in Seq(Rows) /\ UniqueKey(table)
      /\ Len(table) \in Nat /\ DOMAIN table = 1..Len(table)
      /\ \A i \in 1..Len(table) : table[i] \in Rows
  BY DEF ListingTypeOK
<1>2. Observe
  BY DEF create, conditionalUpdate, remove
<1>3. CASE create
  <2>1. PICK pk \in Pks, content \in Contents : Add([content EXCEPT !.pk = pk])
    BY <1>3 DEF create
  <2> DEFINE row == [content EXCEPT !.pk = pk]
             new == Len(table) + 1
  <2>2. row \in Rows
    BY RowTyped
  <2> HIDE DEF row
  <2>3. table' = Append(table, row) /\ \A j \in 1..Len(table) : row.pk # table[j].pk
    BY <1>1, <2>1 DEF Add, PksOf, row
  <2>4. /\ table' \in Seq(Rows) /\ DOMAIN table' = 1..new /\ table'[new] = row
        /\ \A j \in 1..Len(table) : table'[j] = table[j]
    BY <1>1, <2>2, <2>3
  <2>5. ASSUME NEW j \in DOMAIN table, NEW k \in DOMAIN table', table[j].pk = table'[k].pk
        PROVE  j = k
    <3>1. k \in 1..Len(table)
      BY <1>1, <2>3, <2>4, <2>5
    <3> QED
      BY <1>1, <2>4, <2>5, <3>1 DEF UniqueKey
  <2>6. UniqueKey(table')
    <3> SUFFICES ASSUME NEW j \in DOMAIN table', NEW k \in DOMAIN table',
                        table'[j].pk = table'[k].pk
                 PROVE  j = k
      BY DEF UniqueKey
    <3>1. CASE j = new
      BY <1>1, <2>3, <2>4, <3>1
    <3>2. CASE j # new
      BY <1>1, <2>4, <2>5, <3>2
    <3> QED
      BY <3>1, <3>2
  <2>7. Kept(table, table')
    BY <2>5 DEF Kept
  <2> QED
    BY <1>2, <2>4, <2>6, <2>7
<1>4. CASE conditionalUpdate
  <2>1. PICK i \in DOMAIN table, content \in Contents :
          table' = [table EXCEPT ![i] = [content EXCEPT !.pk = table[i].pk]]
    BY <1>4 DEF conditionalUpdate
  <2> DEFINE row == [content EXCEPT !.pk = table[i].pk]
  <2>2. row \in Rows /\ row.pk = table[i].pk
    BY <1>1, RowKey, RowTyped
  <2> HIDE DEF row
  <2>3. table' = [table EXCEPT ![i] = row]
    BY <2>1 DEF row
  <2>4. /\ table' \in Seq(Rows) /\ DOMAIN table' = DOMAIN table
        /\ \A j \in DOMAIN table : table'[j].pk = table[j].pk
    BY <1>1, <2>2, <2>3
  <2>5. UniqueKey(table')
    BY <1>1, <2>4, Zenon DEF UniqueKey
  <2>6. Kept(table, table')
    <3> SUFFICES ASSUME NEW a \in DOMAIN table, NEW b \in DOMAIN table,
                        NEW k \in DOMAIN table', NEW m \in DOMAIN table',
                        table[a].pk = table'[k].pk, table[b].pk = table'[m].pk, a < b
                 PROVE  k < m
      BY DEF Kept
    <3>1. a = k /\ b = m
      BY <1>1, <2>4 DEF UniqueKey
    <3> QED
      BY <3>1
  <2> QED
    BY <1>2, <2>4, <2>5, <2>6
<1>5. CASE remove
  <2>1. PICK i \in DOMAIN table : table' = RemoveAt(table, i)
    BY <1>5 DEF remove
  <2>2. /\ table' \in Seq(Rows) /\ Len(table') = Len(table) - 1
        /\ \A j \in 1..(Len(table) - 1) : table'[j] = IF j < i THEN table[j] ELSE table[j + 1]
    BY <1>1, <2>1, RemovedRow
  <2>3. DOMAIN table' = 1..(Len(table) - 1)
    BY <2>2
  <2> DEFINE old(j) == IF j < i THEN j ELSE j + 1
  <2>4. ASSUME NEW j \in DOMAIN table'
        PROVE  old(j) \in DOMAIN table /\ table'[j] = table[old(j)]
    <3>1. old(j) \in 1..Len(table)
      BY <1>1, <2>3
    <3>2. table'[j] = table[old(j)]
      BY <2>2, <2>3
    <3> QED
      BY <1>1, <3>1, <3>2
  <2>5. UniqueKey(table')
    <3> SUFFICES ASSUME NEW j \in DOMAIN table', NEW n \in DOMAIN table',
                        table'[j].pk = table'[n].pk
                 PROVE  j = n
      BY DEF UniqueKey
    <3>1. old(j) = old(n)
      BY <1>1, <2>4 DEF UniqueKey
    <3> QED
      BY <1>1, <2>3, <3>1
  <2>6. Kept(table, table')
    <3> SUFFICES ASSUME NEW a \in DOMAIN table, NEW b \in DOMAIN table,
                        NEW k \in DOMAIN table', NEW m \in DOMAIN table',
                        table[a].pk = table'[k].pk, table[b].pk = table'[m].pk, a < b
                 PROVE  k < m
      BY DEF Kept
    <3>1. a = old(k) /\ b = old(m)
      BY <1>1, <2>4 DEF UniqueKey
    <3> QED
      BY <1>1, <2>3, <3>1
  <2> QED
    BY <1>2, <2>2, <2>5, <2>6
<1> QED
  BY <1>3, <1>4, <1>5

\* What the next page does to the reader.
LEMMA PageTurned ==
  ASSUME ListingTypeOK, NextPage
  PROVE  \E rows \in find(pageKey, limit + 1) :
           LET page == [i \in 1..Len(rows) |-> rows[i].pk]
           IN /\ pageKey \in Nat
              /\ rows \in Seq(Rows) /\ Len(rows) \in 0..(limit + 1)
              /\ page \in Seq(Pks) /\ DOMAIN page = 1..Len(rows)
              /\ pages' = Append(pages, page)
              /\ pageKey' = IF Len(rows) > limit THEN pageKey + limit ELSE None
              /\ estimatedCount' = pageKey + Len(rows)
              /\ left' = [left EXCEPT !.now = 0]
              /\ UNCHANGED << table, wanted, limit, changes, steady, grown >>
<1>1. pageKey \in Nat /\ limit \in Nat \ {0} /\ table \in Seq(Rows)
  BY ListingAssumption DEF ListingTypeOK, NextPage
<1>2. PICK rows \in find(pageKey, limit + 1) :
        /\ pages' = Append(pages, [i \in DOMAIN rows |-> rows[i].pk])
        /\ pageResults(rows)
        /\ left' = [left EXCEPT !.now = 0]
        /\ UNCHANGED << table, wanted, limit, changes, steady, grown >>
  BY DEF NextPage
<1>3. rows \in Seq(Rows) /\ Len(rows) \in 0..(limit + 1)
  BY <1>1, PageOfRows
<1> DEFINE page == [i \in 1..Len(rows) |-> rows[i].pk]
<1>4. DOMAIN rows = 1..Len(rows) /\ Len(rows) \in Nat /\ \A i \in 1..Len(rows) : rows[i] \in Rows
  BY <1>3
<1>5. \A i \in 1..Len(rows) : rows[i].pk \in Pks
  BY <1>4, RowKey
<1>6. page \in Seq(Pks) /\ DOMAIN page = 1..Len(rows)
  BY <1>4, <1>5
<1> QED
  BY <1>1, <1>2, <1>3, <1>4, <1>6 DEF pageResults

LEMMA InitListingTypeOK == Init => ListingTypeOK
<1> SUFFICES ASSUME Init PROVE ListingTypeOK
  OBVIOUS
<1>1. table \in Seq(Rows) /\ UniqueKey(table)
  BY ListingAssumption DEF Init
<1>2. steady \subseteq Pks
  BY <1>1, MatchingPksAreFinite DEF Init
<1>3. /\ wanted \in Lists /\ limit \in Limits /\ pageKey = 0 /\ pages = << >>
      /\ estimatedCount = None /\ changes = 0 /\ grown = FALSE
      /\ left = [ now |-> 0, most |-> 0 ]
  BY DEF Init
<1>4. pages \in Seq(Seq(Pks)) /\ changes \in 0..MaxChanges /\ left \in [ now : Nat, most : Nat ]
  BY <1>3, ListingAssumption
<1> QED
  BY <1>1, <1>2, <1>3, <1>4 DEF ListingTypeOK

\* The history of a change.
LEMMA Observed ==
  ASSUME ListingTypeOK, Observe, table' \in Seq(Rows), UniqueKey(table')
  PROVE  LET before == MatchingPks(table, wanted)
             after  == MatchingPks(table', wanted)
             gone   == Cardinality(before \ after)
         IN /\ gone \in Nat
            /\ changes' \in 0..MaxChanges
            /\ steady' = steady \cap after /\ steady' \subseteq Pks
            /\ grown' \in BOOLEAN
            /\ ~grown' => ~grown /\ after \subseteq before
            /\ left' \in [ now : Nat, most : Nat ]
            /\ left'.now = left.now + gone
            /\ left'.now <= left'.most /\ left.most <= left'.most
            /\ UNCHANGED << wanted, limit, pageKey, pages, estimatedCount >>
<1> DEFINE before == MatchingPks(table, wanted)
           after  == MatchingPks(table', wanted)
           gone   == Cardinality(before \ after)
<1>1. IsFiniteSet(before) /\ after \subseteq Pks
  BY MatchingPksAreFinite DEF ListingTypeOK
<1> HIDE DEF before, after
<1>2. gone \in Nat
  BY <1>1, FS_Difference, FS_CardinalityType
<1>3. /\ changes < MaxChanges /\ changes' = changes + 1
      /\ steady' = steady \cap after
      /\ grown' = (grown \/ after \ before # {})
      /\ left' = [ now |-> left.now + gone,
                   most |-> IF left.now + gone > left.most THEN left.now + gone ELSE left.most ]
      /\ UNCHANGED << wanted, limit, pageKey, pages, estimatedCount >>
  BY Zenon DEF Observe, readerVars, before, after
<1> HIDE DEF gone
<1>4. left.now \in Nat /\ left.most \in Nat /\ changes \in 0..MaxChanges /\ MaxChanges \in Nat
  BY ListingAssumption DEF ListingTypeOK
<1>5. changes' \in 0..MaxChanges
  BY <1>3, <1>4
<1>6. /\ left' \in [ now : Nat, most : Nat ] /\ left'.now = left.now + gone
      /\ left'.now <= left'.most /\ left.most <= left'.most
  BY <1>2, <1>3, <1>4
<1>7. grown' \in BOOLEAN /\ (~grown' => ~grown /\ after \subseteq before)
  BY <1>3
<1>8. steady' \subseteq Pks
  BY <1>1, <1>3
<1> QED
  BY <1>2, <1>3, <1>5, <1>6, <1>7, <1>8 DEF before, after, gone

LEMMA NextListingTypeOK == ListingTypeOK /\ [Next]_vars => ListingTypeOK'
<1> SUFFICES ASSUME ListingTypeOK, [Next]_vars PROVE ListingTypeOK'
  OBVIOUS
<1>1. CASE NextPage
  <2>1. PICK rows \in find(pageKey, limit + 1) :
          LET page == [i \in 1..Len(rows) |-> rows[i].pk]
          IN /\ pageKey \in Nat /\ Len(rows) \in 0..(limit + 1) /\ page \in Seq(Pks)
             /\ pages' = Append(pages, page)
             /\ pageKey' = IF Len(rows) > limit THEN pageKey + limit ELSE None
             /\ estimatedCount' = pageKey + Len(rows)
             /\ left' = [left EXCEPT !.now = 0]
             /\ UNCHANGED << table, wanted, limit, changes, steady, grown >>
    BY <1>1, PageTurned
  <2>2. limit \in Nat
    BY ListingAssumption DEF ListingTypeOK
  <2>3. pages' \in Seq(Seq(Pks)) /\ pageKey' \in Nat \cup {None} /\ estimatedCount' \in Nat \cup {None}
    BY <2>1, <2>2 DEF ListingTypeOK
  <2> QED
    BY <2>1, <2>3 DEF ListingTypeOK, UniqueKey
<1>2. CASE create \/ conditionalUpdate \/ remove
  <2>1. table' \in Seq(Rows) /\ UniqueKey(table') /\ Observe
    BY <1>2, ChangeKeepsOrder
  <2>2. /\ changes' \in 0..MaxChanges
        /\ steady' \subseteq Pks /\ grown' \in BOOLEAN
        /\ left' \in [ now : Nat, most : Nat ]
        /\ UNCHANGED << wanted, limit, pageKey, pages, estimatedCount >>
    BY <2>1, Observed
  <2> QED
    BY <2>1, <2>2 DEF ListingTypeOK, UniqueKey
<1>3. CASE UNCHANGED vars
  BY <1>3 DEF vars, ListingTypeOK, UniqueKey
<1> QED
  BY <1>1, <1>2, <1>3 DEF Next

\* In every reachable state the primary keys of the table are unique, and the client
\* holds pages of primary keys, whatever others create, update and remove meanwhile
\* (memory.ts:128-138, db-impl.ts:561-577).
THEOREM ListingTypeCorrect == Spec => []ListingTypeOK
  BY InitListingTypeOK, NextListingTypeOK, PTL DEF Spec

------------------------------------------------------------------------------
(* No row is skipped *)

\* A row that stays and is on no page yet has a rank past the key, but for the rows that
\* left since the last page, of which there is at most one.
SkipInv ==
  /\ left.now <= left.most
  /\ steady \subseteq MatchingPks(table, wanted)
  /\ pages = << >> => pageKey = 0
  /\ left.most <= 1 =>
       \A i \in Matches(table, wanted) :
         table[i].pk \in steady \ Listed =>
           /\ pageKey # None
           /\ pages # << >> => pageKey < Rank(Matches(table, wanted), i) + left.now

LEMMA SkipInvSuffices == SkipInv => NoneSkipped
  BY DEF SkipInv, NoneSkipped, MatchingPks

LEMMA InitSkipInv == Init => SkipInv
<1> SUFFICES ASSUME Init PROVE SkipInv
  OBVIOUS
<1>1. /\ pageKey = 0 /\ pages = << >> /\ left = [ now |-> 0, most |-> 0 ]
      /\ steady = MatchingPks(table, wanted)
  BY DEF Init
<1>2. left.now <= left.most /\ pageKey # None
  BY <1>1, ListingAssumption
<1> QED
  BY <1>1, <1>2 DEF SkipInv

\* A page stays listed, and its rows are.
LEMMA PageIsListed ==
  ASSUME ListingTypeOK, NEW page, pages' = Append(pages, page)
  PROVE  Listed \subseteq Listed' /\ \A i \in DOMAIN page : page[i] \in Listed'
<1>1. /\ DOMAIN pages' = 1..(Len(pages) + 1) /\ DOMAIN pages = 1..Len(pages)
      /\ \A k \in DOMAIN pages : pages'[k] = pages[k] /\ k \in DOMAIN pages'
      /\ pages'[Len(pages) + 1] = page /\ Len(pages) + 1 \in DOMAIN pages'
  BY DEF ListingTypeOK
<1>2. Listed \subseteq Listed'
  BY <1>1 DEF Listed
<1>3. \A i \in DOMAIN page : page[i] \in Range(page)
  BY DEF Range
<1> QED
  BY <1>1, <1>2, <1>3, Zenon DEF Listed

LEMMA NextSkipInv ==
  ASSUME StoreKind = "memory", ListingTypeOK, SkipInv, [Next]_vars
  PROVE  SkipInv'
<1>1. CASE NextPage
  <2>0. PICK rows \in find(pageKey, limit + 1) :
          LET page == [i \in 1..Len(rows) |-> rows[i].pk]
          IN /\ pageKey \in Nat /\ Len(rows) \in 0..(limit + 1) /\ DOMAIN page = 1..Len(rows)
             /\ pages' = Append(pages, page)
             /\ pageKey' = IF Len(rows) > limit THEN pageKey + limit ELSE None
             /\ left' = [left EXCEPT !.now = 0]
             /\ UNCHANGED << table, wanted, limit, changes, steady, grown >>
    BY <1>1, PageTurned
  <2> DEFINE page == [i \in 1..Len(rows) |-> rows[i].pk]
             matches == Matches(table, wanted)
  <2>1. /\ pageKey \in Nat /\ Len(rows) \in 0..(limit + 1) /\ DOMAIN page = 1..Len(rows)
        /\ pages' = Append(pages, page)
        /\ pageKey' = IF Len(rows) > limit THEN pageKey + limit ELSE None
        /\ left' = [left EXCEPT !.now = 0]
        /\ UNCHANGED << table, wanted, limit, changes, steady, grown >>
    BY <2>0
  <2>2. /\ table \in Seq(Rows) /\ limit \in Nat \ {0} /\ None \notin Nat
        /\ left.now \in Nat /\ left.most \in Nat
    BY ListingAssumption DEF ListingTypeOK
  <2>3. \A i \in matches :
          /\ Rank(matches, i) \in Nat
          /\ pageKey <= Rank(matches, i) =>
               IF Rank(matches, i) > pageKey + limit
               THEN Len(rows) > limit
               ELSE /\ Rank(matches, i) - pageKey + 1 \in 1..Len(rows)
                    /\ rows[Rank(matches, i) - pageKey + 1] = table[i]
    BY <2>1, <2>2, PageOfRanks
  <2>4. matches' = matches
    BY <2>1
  <2>5. Listed \subseteq Listed' /\ \A i \in DOMAIN page : page[i] \in Listed'
    BY <2>1, PageIsListed
  <2>6. \A i \in 1..Len(rows) : page[i] = rows[i].pk
    OBVIOUS
  <2>7. pages' # << >>
    BY <2>1 DEF ListingTypeOK
  <2>8. left'.now = 0 /\ left'.most = left.most
    BY <2>1 DEF ListingTypeOK
  <2> HIDE DEF page, matches
  <2>9. ASSUME left.most <= 1, NEW i \in matches, table[i].pk \in steady, table[i].pk \notin Listed'
        PROVE  pageKey' # None /\ pageKey' < Rank(matches, i) + 0
    <3>1. pages # << >> => pageKey < Rank(matches, i) + left.now
      BY <2>5, <2>9 DEF SkipInv, matches
    <3>2. pageKey <= Rank(matches, i) /\ Rank(matches, i) \in Nat
      BY <2>1, <2>2, <2>3, <2>9, <3>1 DEF SkipInv
    <3>3. Rank(matches, i) > pageKey + limit
      <4> SUFFICES ASSUME ~(Rank(matches, i) > pageKey + limit) PROVE FALSE
        OBVIOUS
      <4> DEFINE n == Rank(matches, i) - pageKey + 1
      <4>1. n \in 1..Len(rows) /\ rows[n] = table[i]
        BY <2>3, <3>2
      <4> HIDE DEF n
      <4>2. table[i].pk \in Listed'
        BY <2>1, <2>5, <2>6, <4>1, Zenon
      <4> QED
        BY <2>9, <4>2
    <3>4. pageKey' = pageKey + limit
      BY <2>1, <2>3, <3>2, <3>3
    <3> QED
      BY <2>1, <2>2, <3>2, <3>3, <3>4
  <2>10. (left.most <= 1)' =>
           \A i \in matches : table[i].pk \in steady \ Listed' =>
             pageKey' # None /\ (pages' # << >> => pageKey' < Rank(matches, i) + left'.now)
    BY <2>8, <2>9
  <2> QED
    BY <2>1, <2>2, <2>4, <2>7, <2>8, <2>10 DEF SkipInv, matches
<1>2. CASE create \/ conditionalUpdate \/ remove
  <2> DEFINE before == MatchingPks(table, wanted)
             after  == MatchingPks(table', wanted)
             gone   == Cardinality(before \ after)
             matches == Matches(table, wanted)
             matches2 == Matches(table', wanted)
  <2>1. table' \in Seq(Rows) /\ UniqueKey(table') /\ Kept(table, table') /\ Observe
    BY <1>2, ChangeKeepsOrder
  <2>2. /\ gone \in Nat
        /\ steady' = steady \cap after
        /\ left'.now = left.now + gone
        /\ left'.now <= left'.most /\ left.most <= left'.most
        /\ left' \in [ now : Nat, most : Nat ]
        /\ UNCHANGED << wanted, limit, pageKey, pages, estimatedCount >>
    BY <2>1, Observed
  <2>3. /\ table \in Seq(Rows) /\ UniqueKey(table)
        /\ left.now \in Nat /\ left.most \in Nat /\ pageKey \in Nat \cup {None}
    BY DEF ListingTypeOK
  <2>4. ASSUME left'.most <= 1, NEW k \in matches2, table'[k].pk \in steady' \ Listed
        PROVE  pageKey # None /\ (pages # << >> => pageKey < Rank(matches2, k) + left'.now)
    <3>1. PICK i \in matches : table[i].pk = table'[k].pk
      BY <2>2, <2>4 DEF SkipInv, MatchingPks
    <3>2. left.most <= 1
      BY <2>2, <2>3, <2>4
    <3>3. pageKey # None /\ (pages # << >> => pageKey < Rank(matches, i) + left.now)
      BY <2>2, <2>4, <3>1, <3>2 DEF SkipInv
    <3>4. Rank(matches, i) <= Rank(matches2, k) + gone
      BY <2>1, <2>3, <3>1, RankAfterChange
    <3>5. Rank(matches, i) \in Nat /\ Rank(matches2, k) \in Nat
      BY <2>1, <2>3, MatchesAreFinite, RankCountsAhead
    <3> HIDE DEF before, after, gone, matches, matches2
    <3> QED
      BY <2>2, <2>3, <3>3, <3>4, <3>5
  <2>5. Listed' = Listed /\ matches' = matches2
    BY <2>2 DEF Listed
  <2>6. steady' \subseteq after
    BY <2>2
  <2> HIDE DEF gone, matches2
  <2> QED
    BY <2>2, <2>4, <2>5, <2>6 DEF SkipInv
<1>3. CASE UNCHANGED vars
  BY <1>3 DEF vars, SkipInv, Listed, Matches, MatchingPks
<1> QED
  BY <1>1, <1>2, <1>3 DEF Next

\* In a table in memory, a row that was in the list all the time is on one of its pages
\* when the list ends, as long as no two rows leave the list from one page to the next
\* (db-impl.ts:561-577): for any number of rows and changes, and whatever the list
\* selects.  The order of creation, which memory.ts keeps, is what makes it so: an SQL
\* table asks for no order (datastore-sql index.ts:99-105) and may skip a row.
THEOREM NoRowSkipped ==
  ASSUME StoreKind = "memory"
  PROVE  Spec => []NoneSkipped
<1>1. ListingTypeOK /\ SkipInv /\ [Next]_vars => SkipInv'
  BY NextSkipInv
<1> QED
  BY <1>1, InitListingTypeOK, NextListingTypeOK, InitSkipInv, SkipInvSuffices, PTL DEF Spec

------------------------------------------------------------------------------
(* A row is shown again only at the edge of two pages *)

\* A row of a page that is still in the list has a rank below the key, but for the one
\* that the last page has beyond its limit.
EdgeInv ==
  ~grown =>
    /\ ShownAgainAtTheEdge
    /\ pageKey # None =>
         \A r \in Matches(table, wanted), k \in DOMAIN pages :
           \A i \in DOMAIN pages[k] :
             table[r].pk = pages[k][i] =>
               \/ Rank(Matches(table, wanted), r) < pageKey
               \/ /\ Rank(Matches(table, wanted), r) = pageKey
                  /\ k = Len(pages) /\ i = limit + 1

LEMMA InitEdgeInv == Init => EdgeInv
<1> SUFFICES ASSUME Init PROVE EdgeInv
  OBVIOUS
<1>1. DOMAIN pages = {}
  BY DEF Init
<1> QED
  BY <1>1 DEF EdgeInv, ShownAgainAtTheEdge

LEMMA NextEdgeInv ==
  ASSUME StoreKind = "memory", ListingTypeOK, EdgeInv, [Next]_vars
  PROVE  EdgeInv'
<1> SUFFICES ASSUME ~grown' PROVE EdgeInv'
  BY DEF EdgeInv
<1>1. CASE NextPage
  <2>0. PICK rows \in find(pageKey, limit + 1) :
          LET page == [i \in 1..Len(rows) |-> rows[i].pk]
          IN /\ pageKey \in Nat /\ Len(rows) \in 0..(limit + 1) /\ DOMAIN page = 1..Len(rows)
             /\ pages' = Append(pages, page)
             /\ pageKey' = IF Len(rows) > limit THEN pageKey + limit ELSE None
             /\ UNCHANGED << table, wanted, limit, changes, steady, grown >>
    BY <1>1, PageTurned
  <2> DEFINE page == [i \in 1..Len(rows) |-> rows[i].pk]
             matches == Matches(table, wanted)
             last == Len(pages)
  <2>1. /\ pageKey \in Nat /\ Len(rows) \in 0..(limit + 1) /\ DOMAIN page = 1..Len(rows)
        /\ pages' = Append(pages, page)
        /\ pageKey' = IF Len(rows) > limit THEN pageKey + limit ELSE None
        /\ UNCHANGED << table, wanted, limit, changes, steady, grown >>
    BY <2>0
  <2>2. /\ table \in Seq(Rows) /\ UniqueKey(table) /\ limit \in Nat \ {0} /\ None \notin Nat
    BY ListingAssumption DEF ListingTypeOK
  <2>3. /\ \A n \in 1..Len(rows) :
             \E i \in matches : rows[n] = table[i] /\ Rank(matches, i) = pageKey + n - 1
        /\ \A i \in matches : Rank(matches, i) \in Nat
    BY <2>1, <2>2, PageOfRanks
  <2>4. matches' = matches /\ matches \subseteq DOMAIN table
    BY <2>1, <2>2, MatchesAreFinite
  <2>5. /\ last \in Nat /\ DOMAIN pages = 1..last /\ DOMAIN pages' = 1..(last + 1)
        /\ Len(pages') = last + 1 /\ pages'[last + 1] = page
        /\ \A k \in 1..last : pages'[k] = pages[k]
    BY <2>1 DEF ListingTypeOK
  <2>6. \A i \in 1..Len(rows) : page[i] = rows[i].pk
    OBVIOUS
  <2>7. ~grown /\ pageKey # None
    BY <2>1, <2>2
  <2> HIDE DEF page, last
  <2>8. ASSUME NEW n \in 1..Len(rows)
        PROVE  \E r \in matches : page[n] = table[r].pk /\ Rank(matches, r) = pageKey + n - 1
    BY <2>3, <2>6, Zenon
  <2> HIDE DEF matches
  <2>9. \A r \in matches, k \in 1..last : \A i \in DOMAIN pages[k] :
          table[r].pk = pages[k][i] =>
            \/ Rank(matches, r) < pageKey
            \/ Rank(matches, r) = pageKey /\ k = last /\ i = limit + 1
    <3>1. \A r \in matches, k \in DOMAIN pages : \A i \in DOMAIN pages[k] :
            table[r].pk = pages[k][i] =>
              \/ Rank(matches, r) < pageKey
              \/ Rank(matches, r) = pageKey /\ k = Len(pages) /\ i = limit + 1
      BY <2>7, Zenon DEF EdgeInv, matches
    <3> QED
      BY <2>5, <3>1, Zenon DEF last
  <2>10. ASSUME NEW k \in 1..(last + 1), NEW m \in 1..(last + 1), k < m,
                NEW i \in DOMAIN pages'[k], NEW j \in DOMAIN pages'[m],
                pages'[k][i] = pages'[m][j]
         PROVE  m = k + 1 /\ i = limit + 1 /\ j = 1
    <3>1. k \in 1..last /\ pages'[k] = pages[k]
      BY <2>5, <2>10
    <3>2. CASE m \in 1..last
      <4>1. pages'[m] = pages[m]
        BY <2>5, <3>2
      <4> QED
        BY <2>5, <2>7, <2>10, <3>1, <3>2, <4>1 DEF EdgeInv, ShownAgainAtTheEdge
    <3>3. CASE m = last + 1
      <4>1. j \in 1..Len(rows) /\ pages[k][i] = page[j]
        BY <2>1, <2>5, <2>10, <3>1, <3>3
      <4>2. PICK r \in matches : page[j] = table[r].pk /\ Rank(matches, r) = pageKey + j - 1
        BY <2>8, <4>1
      <4>3. \/ Rank(matches, r) < pageKey
            \/ Rank(matches, r) = pageKey /\ k = last /\ i = limit + 1
        BY <2>9, <2>10, <3>1, <4>1, <4>2
      <4>4. j \in Int /\ j >= 1
        BY <2>1, <4>1
      <4> QED
        BY <2>1, <3>3, <4>2, <4>3, <4>4
    <3> QED
      BY <2>5, <3>2, <3>3
  <2>11. ASSUME pageKey' # None, NEW r \in matches, NEW k \in 1..(last + 1),
                NEW i \in DOMAIN pages'[k], table[r].pk = pages'[k][i]
         PROVE  \/ Rank(matches, r) < pageKey'
                \/ Rank(matches, r) = pageKey' /\ k = last + 1 /\ i = limit + 1
    <3>1. pageKey' = pageKey + limit /\ Rank(matches, r) \in Nat
      BY <2>1, <2>3, <2>11 DEF matches
    <3>2. CASE k \in 1..last
      <4>1. Rank(matches, r) <= pageKey
        BY <2>1, <2>5, <2>9, <2>11, <3>1, <3>2
      <4> QED
        BY <2>1, <2>2, <3>1, <4>1
    <3>3. CASE k = last + 1
      <4>1. i \in 1..Len(rows) /\ table[r].pk = page[i]
        BY <2>1, <2>5, <2>11, <3>3
      <4>2. PICK q \in matches : page[i] = table[q].pk /\ Rank(matches, q) = pageKey + i - 1
        BY <2>8, <4>1
      <4>3. q = r
        BY <2>2, <2>4, <4>1, <4>2 DEF UniqueKey
      <4>4. i \in Int /\ i <= limit + 1
        BY <2>1, <2>2, <4>1
      <4> QED
        BY <2>1, <2>2, <3>1, <3>3, <4>2, <4>3, <4>4
    <3> QED
      BY <2>5, <3>2, <3>3
  <2>12. limit' = limit /\ table' = table
    BY <2>1
  <2>13. ShownAgainAtTheEdge'
    BY <2>5, <2>10, <2>12 DEF ShownAgainAtTheEdge
  <2>14. \A r \in matches', k \in DOMAIN pages' : \A i \in DOMAIN pages'[k] :
           pageKey' # None /\ table'[r].pk = pages'[k][i] =>
             \/ Rank(matches', r) < pageKey'
             \/ Rank(matches', r) = pageKey' /\ k = Len(pages') /\ i = limit' + 1
    BY <2>4, <2>5, <2>11, <2>12
  <2> QED
    BY <2>13, <2>14 DEF EdgeInv, matches
<1>2. CASE create \/ conditionalUpdate \/ remove
  <2> DEFINE matches == Matches(table, wanted)
             matches2 == Matches(table', wanted)
  <2>1. table' \in Seq(Rows) /\ UniqueKey(table') /\ Kept(table, table') /\ Observe
    BY <1>2, ChangeKeepsOrder
  <2>2. /\ ~grown /\ MatchingPks(table', wanted) \subseteq MatchingPks(table, wanted)
        /\ UNCHANGED << wanted, limit, pageKey, pages, estimatedCount >>
    BY <2>1, Observed
  <2>3. table \in Seq(Rows) /\ UniqueKey(table) /\ pageKey \in Nat \cup {None}
    BY DEF ListingTypeOK
  <2>4. ASSUME NEW r \in matches2, NEW k \in DOMAIN pages, NEW i \in DOMAIN pages[k],
               table'[r].pk = pages[k][i], pageKey # None
        PROVE  \/ Rank(matches2, r) < pageKey
               \/ Rank(matches2, r) = pageKey /\ k = Len(pages) /\ i = limit + 1
    <3>1. PICK q \in matches : table[q].pk = table'[r].pk
      BY <2>2 DEF MatchingPks
    <3>2. \/ Rank(matches, q) < pageKey
          \/ Rank(matches, q) = pageKey /\ k = Len(pages) /\ i = limit + 1
      BY <2>2, <2>4, <3>1 DEF EdgeInv
    <3>3. Rank(matches2, r) <= Rank(matches, q)
      BY <2>1, <2>2, <2>3, <3>1, RankAfterChange
    <3>4. Rank(matches, q) \in Nat /\ Rank(matches2, r) \in Nat /\ pageKey \in Nat
      BY <2>1, <2>3, <2>4, MatchesAreFinite, RankCountsAhead
    <3> HIDE DEF matches, matches2
    <3> QED
      BY <3>2, <3>3, <3>4
  <2>5. ShownAgainAtTheEdge'
    BY <2>2 DEF EdgeInv, ShownAgainAtTheEdge
  <2>6. matches' = matches2
    BY <2>2
  <2> HIDE DEF matches2
  <2> QED
    BY <2>2, <2>4, <2>5, <2>6 DEF EdgeInv
<1>3. CASE UNCHANGED vars
  BY <1>3 DEF vars, EdgeInv, ShownAgainAtTheEdge, Matches
<1> QED
  BY <1>1, <1>2, <1>3 DEF Next

\* In a table in memory, a list that no row came into shows a row again only as the first
\* of the page after the one that it ended (the row that db-impl.ts:561-577 reads beyond
\* the limit and leaves in the page): for any number of rows and changes, and whatever the
\* list selects.
THEOREM RepeatsAtTheEdge ==
  ASSUME StoreKind = "memory"
  PROVE  Spec => []ShownAgainAtTheEdge
<1>1. ListingTypeOK /\ EdgeInv /\ [Next]_vars => EdgeInv'
  BY NextEdgeInv
<1>2. EdgeInv => ShownAgainAtTheEdge
  BY DEF EdgeInv, ShownAgainAtTheEdge
<1> QED
  BY <1>1, <1>2, InitListingTypeOK, NextListingTypeOK, InitEdgeInv, PTL DEF Spec

------------------------------------------------------------------------------
(* The pages of a list are bounded *)

\* Unique primary keys bound the rows of a table.
LEMMA MatchesBounded ==
  ASSUME IsFiniteSet(Pks), NEW rows \in Seq(Rows), UniqueKey(rows), NEW cnd
  PROVE  /\ Cardinality(Matches(rows, cnd)) \in Nat /\ Cardinality(Pks) \in Nat
         /\ Cardinality(Matches(rows, cnd)) <= Cardinality(Pks)
<1>1. /\ IsFiniteSet(Matches(rows, cnd)) /\ Matches(rows, cnd) \subseteq DOMAIN rows
  BY MatchesAreFinite
<1>2. /\ Cardinality(MatchingPks(rows, cnd)) = Cardinality(Matches(rows, cnd))
  BY <1>1, KeysOfIndexes DEF MatchingPks
<1>3. MatchingPks(rows, cnd) \in SUBSET Pks
  BY MatchingPksAreFinite
<1>4. Cardinality(MatchingPks(rows, cnd)) <= Cardinality(Pks)
  BY <1>3, FS_Subset
<1> QED
  BY <1>1, <1>2, <1>4, FS_CardinalityType

\* The key counts the rows of the pages before it, and behind a first page more rows than
\* it counts matched when the last page was read.
BoundInv ==
  /\ PagesAreBounded
  /\ pageKey # None =>
       /\ pageKey = limit * Len(pages)
       /\ pages # << >> => pageKey < Cardinality(Pks)

LEMMA InitBoundInv == Init => BoundInv
<1> SUFFICES ASSUME Init PROVE BoundInv
  OBVIOUS
<1>1. pageKey = 0 /\ pages = << >> /\ limit \in Nat
  BY ListingAssumption DEF Init
<1>2. Len(pages) = 0
  BY <1>1
<1> QED
  BY <1>1, <1>2 DEF BoundInv, PagesAreBounded

LEMMA NextBoundInv ==
  ASSUME IsFiniteSet(Pks), ListingTypeOK, BoundInv, [Next]_vars
  PROVE  BoundInv'
<1>1. CASE NextPage
  <2>1. PICK rows \in find(pageKey, limit + 1) :
          LET page == [i \in 1..Len(rows) |-> rows[i].pk]
          IN /\ pageKey \in Nat /\ Len(rows) \in 0..(limit + 1)
             /\ pages' = Append(pages, page)
             /\ pageKey' = IF Len(rows) > limit THEN pageKey + limit ELSE None
             /\ limit' = limit
    BY <1>1, PageTurned
  <2> DEFINE matches == Matches(table, wanted)
  <2>2. /\ table \in Seq(Rows) /\ UniqueKey(table) /\ limit \in Nat \ {0} /\ None \notin Nat
    BY ListingAssumption DEF ListingTypeOK
  <2>3. Len(rows) > limit => pageKey + limit < Cardinality(matches)
    BY <2>1, <2>2, PageOfRows
  <2>4. /\ Cardinality(matches) \in Nat /\ Cardinality(Pks) \in Nat
        /\ Cardinality(matches) <= Cardinality(Pks)
    BY <2>2, MatchesBounded
  <2>5. Len(pages') = Len(pages) + 1 /\ Len(pages) \in Nat /\ (Len(pages) > 0 => pages # << >>)
    BY <2>1 DEF ListingTypeOK
  <2> HIDE DEF matches
  <2>6. pageKey = limit * Len(pages) /\ (pages # << >> => pageKey < Cardinality(Pks))
    BY <2>1, <2>2 DEF BoundInv
  <2>7. Len(rows) > limit => pageKey + limit < Cardinality(Pks)
    BY <2>1, <2>2, <2>3, <2>4
  <2>8. limit * (Len(pages) + 1) = pageKey + limit /\ (Len(pages') - 1) * limit = pageKey
    BY <2>2, <2>5, <2>6
  <2>9. PagesAreBounded'
    BY <2>1, <2>5, <2>6, <2>8 DEF PagesAreBounded
  <2>10. pageKey' # None => pageKey' = limit' * Len(pages') /\ pageKey' < Cardinality(Pks)
    BY <2>1, <2>5, <2>7, <2>8
  <2> QED
    BY <2>9, <2>10 DEF BoundInv
<1>2. CASE create \/ conditionalUpdate \/ remove
  <2>1. table' \in Seq(Rows) /\ UniqueKey(table') /\ Observe
    BY <1>2, ChangeKeepsOrder
  <2>2. UNCHANGED << limit, pageKey, pages >>
    BY <2>1, Observed
  <2> QED
    BY <2>2 DEF BoundInv, PagesAreBounded
<1>3. CASE UNCHANGED vars
  BY <1>3 DEF vars, BoundInv, PagesAreBounded
<1> QED
  BY <1>1, <1>2, <1>3 DEF Next

\* A list has no more pages than one row for each primary key fills, for any changes while
\* it is read and whatever the list selects (db-impl.ts:561-577), in a table of either
\* kind.
THEOREM ListsAreBounded ==
  ASSUME IsFiniteSet(Pks)
  PROVE  Spec => []PagesAreBounded
<1>1. ListingTypeOK /\ BoundInv /\ [Next]_vars => BoundInv'
  BY NextBoundInv
<1>2. BoundInv => PagesAreBounded
  BY DEF BoundInv
<1> QED
  BY <1>1, <1>2, InitListingTypeOK, NextListingTypeOK, InitBoundInv, PTL DEF Spec

------------------------------------------------------------------------------
(* Conditions in both kinds of tables *)

\* What an and or an or is made of.
Parts(cnd) == IF cnd.type \in {"and", "or"} THEN cnd.conditionals ELSE {cnd}

\* Comparisons that look at no date and for no null among values.
Plain(c) == c.type \in {"eq", "notnull", "is-null"} \/ (c.type = "in" /\ None \notin c.values)

LEMMA PlainComparisonsAgree ==
  ASSUME NEW record, NEW c, Plain(c)
  PROVE  comparisonMatches(record, c) <=> comparisonLink(record, c)
<1>1. CASE c.type \in {"eq", "notnull", "is-null"}
  BY <1>1 DEF comparisonMatches, comparisonLink
<1>2. CASE c.type = "in" /\ None \notin c.values
  BY <1>2 DEF comparisonMatches, comparisonLink
<1> QED
  BY <1>1, <1>2 DEF Plain

LEMMA PlainPartsAgree ==
  ASSUME NEW record, NEW part, \A c \in Parts(part) : Plain(c)
  PROVE  partMatches(record, part) <=> partLink(record, part)
<1>1. CASE part.type \in {"and", "or"}
  BY <1>1, PlainComparisonsAgree DEF Parts, partMatches, partLink, Satisfies
<1>2. CASE part.type \notin {"and", "or"}
  BY <1>2, PlainComparisonsAgree DEF Parts, partMatches, partLink, Satisfies
<1> QED
  BY <1>1, <1>2

\* A table in memory and an SQL table select the same rows for any and or or of ands, ors
\* and comparisons, as long as no date is compared and no null is among the values that a
\* column is looked for in (memory.ts conditionalMatchesRecord, datastore-sql
\* conditionalLink): where the two differ, it is on one of these.
THEOREM TablesAgree ==
  ASSUME NEW record, NEW cnd, \A part \in Parts(cnd) : \A c \in Parts(part) : Plain(c)
  PROVE  conditionalMatchesRecord(record, cnd) <=> conditionalLink(record, cnd)
<1>1. CASE cnd.type \in {"and", "or"}
  BY <1>1, PlainPartsAgree DEF Parts, conditionalMatchesRecord, conditionalLink, Satisfies
<1>2. CASE cnd.type \notin {"and", "or"}
  BY <1>2, PlainPartsAgree DEF Parts, conditionalMatchesRecord, conditionalLink, Satisfies
<1> QED
  BY <1>1, <1>2

\* What the lists and the conditions of the leases are made of.
LEMMA ListsArePlain ==
  ASSUME NEW cnd \in JobLists \cup TaskLists
  PROVE  \A part \in Parts(cnd) : \A c \in Parts(part) : Plain(c)
<1>1. /\ Plain(Leaseable) /\ Parts(Leaseable) = {Leaseable}
      /\ Plain(ActiveScheduledJobs) /\ Parts(ActiveScheduledJobs) = {ActiveScheduledJobs}
      /\ Plain(DisabledScheduledJobs) /\ Parts(DisabledScheduledJobs) = {DisabledScheduledJobs}
  BY DEF Plain, Parts, Leaseable, ActiveScheduledJobs, DisabledScheduledJobs, IsNull, Equals
<1>2. Parts(Or({ Leaseable, DisabledScheduledJobs })) = { Leaseable, DisabledScheduledJobs }
  BY DEF Parts, Or
<1>3. /\ Plain(ExecutingTasks) /\ Parts(ExecutingTasks) = {ExecutingTasks}
      /\ Plain(PendingTasks) /\ Parts(PendingTasks) = {PendingTasks}
      /\ Plain(CompletedTasks) /\ Parts(CompletedTasks) = {CompletedTasks}
  BY DEF Plain, Parts, ExecutingTasks, PendingTasks, CompletedTasks, Equals
<1>4. None \notin FailedTasks.values /\ None \notin FinishedTasks.values
  BY ListingAssumption DEF FailedTasks, FinishedTasks, OneOf, TaskStateType
<1>5. /\ Plain(FailedTasks) /\ Parts(FailedTasks) = {FailedTasks}
      /\ Plain(FinishedTasks) /\ Parts(FinishedTasks) = {FinishedTasks}
  BY <1>4 DEF Plain, Parts, FailedTasks, FinishedTasks, OneOf
<1> QED
  BY <1>1, <1>2, <1>3, <1>5, Zenon DEF JobLists, TaskLists

\* A comparison with null, in a table of either kind.
LEMMA SelectedByNull ==
  ASSUME NEW row, NEW key
  PROVE  /\ conditionalLink(row, IsNull(key)) <=> row[key] = None
         /\ conditionalMatchesRecord(row, IsNull(key)) <=> row[key] = None
         /\ comparisonMatches(row, NotNull(key)) <=> row[key] # None
         /\ comparisonLink(row, NotNull(key)) <=> row[key] # None
<1>1. /\ IsNull(key).type = "is-null" /\ IsNull(key).key = key
      /\ NotNull(key).type = "notnull" /\ NotNull(key).key = key
  BY DEF IsNull, NotNull
<1> QED
  BY <1>1 DEF conditionalMatchesRecord, conditionalLink, partMatches, partLink,
              Satisfies, comparisonMatches, comparisonLink

\* An and of comparisons selects what they all select.
LEMMA SelectedByAnd ==
  ASSUME NEW row, NEW c1, NEW c2,
         c1.type \in {"eq", "<date", "notnull"}, c2.type \in {"eq", "<date", "notnull"}
  PROVE  Means(row, And({ c1, c2 }),
               comparisonLink(row, c1) /\ comparisonLink(row, c2),
               comparisonMatches(row, c1) /\ comparisonMatches(row, c2))
<1>1. And({ c1, c2 }).type = "and" /\ And({ c1, c2 }).conditionals = { c1, c2 }
  BY DEF And
<1>2. \A c \in { c1, c2 } : /\ partLink(row, c) <=> comparisonLink(row, c)
                            /\ partMatches(row, c) <=> comparisonMatches(row, c)
  BY DEF partLink, partMatches, Satisfies
<1>3. /\ conditionalLink(row, And({ c1, c2 })) <=> \A c \in { c1, c2 } : partLink(row, c)
      /\ conditionalMatchesRecord(row, And({ c1, c2 })) <=> \A c \in { c1, c2 } : partMatches(row, c)
  BY <1>1 DEF conditionalLink, conditionalMatchesRecord, Satisfies
<1> QED
  BY <1>2, <1>3 DEF Means

\* The conditions that the leases rest on (db-impl.ts:132-136, 226-231, 269-272, 305-308)
\* select the rows that DataStore says, in a table of each kind, and the lists of jobs and
\* of tasks (db-impl.ts:90-107, 358-409) the same rows in both: for any rows, whatever else
\* they hold.
THEOREM LeaseConditionsAgree == Spec => []ConditionsAgree
<1>1. ConditionsAgree
  <2> SUFFICES ASSUME NEW i \in DOMAIN table, NEW row, row = table[i]
      PROVE  /\ Means(row, Leaseable, SqlLeases!CanLease(row), MemoryLeases!CanLease(row))
             /\ \A id \in Owners(row) :
                  Means(row, OwnedBy(id), SqlLeases!OwnsLease(row, id), MemoryLeases!OwnsLease(row, id))
             /\ \A date \in {-1, 0, 1} :
                  Means(row, Expired(date), SqlLeases!CanSteal(row, date), MemoryLeases!CanSteal(row, date))
             /\ \A cnd \in JobLists \cup TaskLists : SelectedAlike(row, cnd)
    BY DEF ConditionsAgree
  <2>1. Means(row, Leaseable, SqlLeases!CanLease(row), MemoryLeases!CanLease(row))
    BY SelectedByNull DEF Means, Leaseable, SqlLeases!CanLease, MemoryLeases!CanLease
  <2>2. ASSUME NEW id \in Owners(row)
        PROVE  Means(row, OwnedBy(id), SqlLeases!OwnsLease(row, id), MemoryLeases!OwnsLease(row, id))
    <3>1. /\ Equals("leaseOwner", id).type = "eq" /\ Equals("leaseOwner", id).key = "leaseOwner"
          /\ Equals("leaseOwner", id).value = id /\ NotNull("updateState").type = "notnull"
      BY DEF Equals, NotNull
    <3>2. /\ comparisonLink(row, Equals("leaseOwner", id)) <=> row.leaseOwner = id
          /\ comparisonMatches(row, Equals("leaseOwner", id)) <=> row.leaseOwner = id
      BY <3>1 DEF comparisonLink, comparisonMatches
    <3> QED
      BY <3>1, <3>2, SelectedByAnd, SelectedByNull
      DEF OwnedBy, Means, SqlLeases!OwnsLease, MemoryLeases!OwnsLease
  <2>3. ASSUME NEW date \in {-1, 0, 1}
        PROVE  Means(row, Expired(date), SqlLeases!CanSteal(row, date), MemoryLeases!CanSteal(row, date))
    <3> DEFINE before == Before("leaseExpires", date)
    <3>1. /\ before.type = "<date" /\ before.key = "leaseExpires" /\ before.before = date
          /\ NotNull("updateState").type = "notnull"
      BY DEF Before, NotNull
    <3>2. /\ comparisonLink(row, before) <=> SqlLeases!Before(row.leaseExpires, date)
          /\ comparisonMatches(row, before) <=> MemoryLeases!Before(row.leaseExpires, date)
      BY <3>1 DEF comparisonLink, comparisonMatches, SqlLeases!Before, MemoryLeases!Before
    <3>3. Means(row, Expired(date),
                comparisonLink(row, NotNull("updateState")) /\ comparisonLink(row, before),
                comparisonMatches(row, NotNull("updateState")) /\ comparisonMatches(row, before))
      BY <3>1, SelectedByAnd DEF Expired
    <3> HIDE DEF before
    <3> QED
      BY <3>2, <3>3, SelectedByNull DEF Means, SqlLeases!CanSteal, MemoryLeases!CanSteal
  <2>4. ASSUME NEW cnd \in JobLists \cup TaskLists PROVE SelectedAlike(row, cnd)
    BY ListsArePlain, TablesAgree, Zenon DEF SelectedAlike
  <2> QED
    BY <2>1, <2>2, <2>3, <2>4, Zenon
<1> QED
  BY <1>1, PTL

=============================================================================
