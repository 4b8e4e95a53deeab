--------------------------- MODULE EnvConfigProofs ---------------------------
(***************************************************************************)
(* Proofs about EnvConfig, for every configuration, every host and strings *)
(* of any length: the adapter reads where the virtualizer wrote, searches  *)
(* what is sorted, shows nothing of the host's that is kept from the       *)
(* guest, and returns exactly what the configuration promises.             *)
(*                                                                         *)
(* IInv is about where each string is and how far the adapter has read;    *)
(* Exact, on top of it, about what has been gathered of the host's fields. *)
(***************************************************************************)
EXTENDS EnvConfig, FiniteSetTheorems, SequenceTheorems, WellFoundedInduction, TLAPS

-----------------------------------------------------------------------------
(***************************************************************************)
(* Sorting.  The rank of a position is the number of positions that are    *)
(* not after it in the order of their keys, ties broken by the position.   *)
(***************************************************************************)
Keyed(keys, n) ==
  Len(keys) = n /\ n \in Nat /\ \A i \in 1..n : keys[i] \in Int

NotAfter(keys, i) ==
  {j \in 1..Len(keys) : keys[j] < keys[i] \/ (keys[j] = keys[i] /\ j <= i)}

LEMMA RankBounds ==
  ASSUME NEW keys, NEW n, Keyed(keys, n), NEW i \in 1..n
  PROVE  /\ Rank(keys, i) = Cardinality(NotAfter(keys, i))
         /\ IsFiniteSet(NotAfter(keys, i)) /\ Rank(keys, i) \in 1..n
<1>1. IsFiniteSet(1..n) /\ Cardinality(1..n) = n
  BY FS_Interval DEF Keyed
<1>2. NotAfter(keys, i) \in SUBSET (1..n) /\ i \in NotAfter(keys, i)
  BY DEF NotAfter, Keyed
<1>3. IsFiniteSet(NotAfter(keys, i)) /\ Cardinality(NotAfter(keys, i)) <= n
  BY <1>1, <1>2, FS_Subset
<1>4. Cardinality(NotAfter(keys, i)) \in Nat /\ Cardinality(NotAfter(keys, i)) # 0
  BY <1>2, <1>3, FS_CardinalityType, FS_EmptySet
<1>5. Rank(keys, i) = Cardinality(NotAfter(keys, i))
  BY DEF Rank, NotAfter
<1>6. n \in Nat
  BY DEF Keyed
<1> QED
  BY <1>3, <1>4, <1>5, <1>6

LEMMA RankOrders ==
  ASSUME NEW keys, NEW n, Keyed(keys, n), NEW i \in 1..n, NEW j \in 1..n,
         keys[i] < keys[j] \/ (keys[i] = keys[j] /\ i < j)
  PROVE  Rank(keys, i) < Rank(keys, j)
<1> DEFINE S == NotAfter(keys, i)
           T == NotAfter(keys, j)
<1>1. S \subseteq T /\ j \in T /\ j \notin S
  BY DEF NotAfter, Keyed
<1>2. IsFiniteSet(T) /\ Rank(keys, i) = Cardinality(S) /\ Rank(keys, j) = Cardinality(T)
  BY RankBounds
<1>3. IsFiniteSet(T \ {j}) /\ Cardinality(T \ {j}) = Cardinality(T) - 1
  BY <1>1, <1>2, FS_RemoveElement
<1>4. S \in SUBSET (T \ {j})
  BY <1>1
<1>5. Cardinality(S) <= Cardinality(T \ {j})
  BY <1>3, <1>4, FS_Subset
<1>6. Cardinality(S) \in Nat /\ Cardinality(T) \in Nat
  BY <1>2, RankBounds
<1> HIDE DEF S, T
<1> QED
  BY <1>2, <1>3, <1>5, <1>6

LEMMA RanksDiffer ==
  ASSUME NEW keys, NEW n, Keyed(keys, n), NEW i \in 1..n, NEW j \in 1..n,
         Rank(keys, i) = Rank(keys, j)
  PROVE  i = j
<1>1. Rank(keys, i) \in Int
  BY RankBounds
<1>2. ~(Rank(keys, i) < Rank(keys, j)) /\ ~(Rank(keys, j) < Rank(keys, i))
  BY <1>1
<1>3. keys[i] \in Int /\ keys[j] \in Int
  BY DEF Keyed
<1> QED
  BY <1>2, <1>3, RankOrders

\* Every rank is that of one position.
LEMMA RankReached ==
  ASSUME NEW keys, NEW n, Keyed(keys, n), NEW r \in 1..n
  PROVE  \E i \in 1..n : Rank(keys, i) = r
<1> DEFINE f == [i \in 1..n |-> Rank(keys, i)]
<1>1. f \in [1..n -> 1..n]
  BY RankBounds
<1>2. \A i, j \in 1..n : f[i] = f[j] => i = j
  BY RanksDiffer
<1>3. f \in Injection(1..n, 1..n)
  BY <1>1, <1>2 DEF Injection, IsInjective
<1>4. IsFiniteSet(1..n)
  BY FS_Interval DEF Keyed
<1>5. f \in Surjection(1..n, 1..n)
  BY <1>3, <1>4, FS_Injection
<1>6. \E i \in 1..n : f[i] = r
  BY <1>5 DEF Surjection
<1> QED
  BY <1>6

Sorts(s, keys, n, sorted) ==
  /\ sorted = [r \in 1..n |-> sorted[r]]
  /\ \A r \in 1..n : \E i \in 1..n : sorted[r] = s[i] /\ Rank(keys, i) = r
  /\ \A i \in 1..n : Rank(keys, i) \in 1..n /\ sorted[Rank(keys, i)] = s[i]

\* What is sorted has the same elements, in the order of the keys.
LEMMA SortedSound ==
  ASSUME NEW s, NEW keys, NEW n, Len(s) = n, Keyed(keys, n)
  PROVE  Sorts(s, keys, n, Sorted(s, keys))
<1> DEFINE at(r) == CHOOSE i \in 1..n : Rank(keys, i) = r
           sorted == Sorted(s, keys)
<1>1. sorted = [r \in 1..n |-> s[at(r)]]
  BY DEF Sorted
<1>2. \A r \in 1..n : at(r) \in 1..n /\ Rank(keys, at(r)) = r
  <2>1. \A r \in 1..n : \E i \in 1..n : Rank(keys, i) = r
    BY RankReached
  <2> QED
    BY <2>1
<1>3. \A r \in 1..n : sorted[r] = s[at(r)]
  BY <1>1
<1>4. ASSUME NEW i \in 1..n
      PROVE  Rank(keys, i) \in 1..n /\ sorted[Rank(keys, i)] = s[i]
  <2>1. Rank(keys, i) \in 1..n
    BY RankBounds
  <2>2. at(Rank(keys, i)) = i
    BY <1>2, <2>1, RanksDiffer
  <2> QED
    BY <1>3, <2>1, <2>2
<1> HIDE DEF at
<1> QED
  BY <1>1, <1>2, <1>3, <1>4 DEF Sorts

LEMMA SortedOrders ==
  ASSUME NEW keys, NEW n, Keyed(keys, n), NEW i \in 1..n, NEW j \in 1..n,
         Rank(keys, i) < Rank(keys, j)
  PROVE  keys[i] <= keys[j]
<1>1. Rank(keys, i) \in Int /\ Rank(keys, j) \in Int /\ keys[i] \in Int /\ keys[j] \in Int
  <2>1. Rank(keys, i) \in 1..n /\ Rank(keys, j) \in 1..n
    BY RankBounds
  <2> QED
    BY <2>1 DEF Keyed
<1>2. ~(Rank(keys, j) < Rank(keys, i))
  BY <1>1
<1>3. ~(keys[j] < keys[i])
  BY <1>2, RankOrders
<1> QED
  BY <1>1, <1>3

-----------------------------------------------------------------------------
(***************************************************************************)
(* The strings of a configuration, in the order they are written.          *)
(***************************************************************************)
ConfOK(c) ==
  /\ c.overrides \in Fields
  /\ c.host \in {"none", "all", "allow", "deny"}
  /\ c.list \in Seq(Keys)
  /\ c.host \notin {"allow", "deny"} => c.list = <<>>

ListOf(c) == IF c.host \in {"allow", "deny"} THEN SortedList(c.list) ELSE <<>>

LEMMA SortedFields ==
  ASSUME NEW o \in Fields
  PROVE  LET so == SortedOverrides(o)
         IN  /\ so \in Fields /\ Len(so) = Len(o)
             /\ \A r \in 1..Len(o) : \E i \in 1..Len(o) : so[r] = o[i]
             /\ \A i \in 1..Len(o) : \E r \in 1..Len(o) : so[r] = o[i]
             /\ \A q, r \in 1..Len(o) : q < r => so[q][1] <= so[r][1]
<1> DEFINE n == Len(o)
           keys == Names(o)
           so == SortedOverrides(o)
<1>1. n \in Nat /\ \A i \in 1..n : o[i] \in Keys \X Values
  BY DEF Fields
<1>2. Len(keys) = n /\ \A i \in 1..n : keys[i] = o[i][1]
  BY <1>1 DEF Names
<1>3. Keyed(keys, n)
  BY <1>1, <1>2, StringsAssumption DEF Keyed, Strings
<1>4. /\ so = [r \in 1..n |-> so[r]]
      /\ \A r \in 1..n : \E i \in 1..n : so[r] = o[i] /\ Rank(keys, i) = r
      /\ \A i \in 1..n : Rank(keys, i) \in 1..n /\ so[Rank(keys, i)] = o[i]
  <2> HIDE DEF keys
  <2>1. Len(o) = n
    OBVIOUS
  <2> HIDE DEF n
  <2>2. so = Sorted(o, keys)
    BY DEF SortedOverrides, keys
  <2> HIDE DEF so
  <2>3. Sorts(o, keys, n, Sorted(o, keys))
    BY <1>3, <2>1, SortedSound
  <2> QED
    BY <2>2, <2>3 DEF Sorts
<1> HIDE DEF so
<1>5. so \in Fields /\ Len(so) = n
  <2>1. \A r \in 1..n : so[r] \in Keys \X Values
    BY <1>1, <1>4
  <2>2. so \in [1..n -> Keys \X Values]
    BY <1>4, <2>1
  <2>3. so \in Seq(Keys \X Values) /\ Len(so) = n
    <3> DEFINE S == Keys \X Values
    <3> HIDE DEF n, S
    <3>1. n \in Nat /\ so \in [1..n -> S]
      BY <1>1, <2>2 DEF S
    <3>2. so \in Seq(S) /\ Len(so) = n
      BY <3>1
    <3> QED
      BY <3>2 DEF S
  <2> QED
    BY <2>3 DEF Fields
<1>6. ASSUME NEW q \in 1..n, NEW r \in 1..n, q < r
      PROVE  so[q][1] <= so[r][1]
  <2>1. PICK i \in 1..n : so[q] = o[i] /\ Rank(keys, i) = q
    BY <1>4
  <2>2. PICK j \in 1..n : so[r] = o[j] /\ Rank(keys, j) = r
    BY <1>4
  <2>3. keys[i] <= keys[j]
    BY <1>3, <1>6, <2>1, <2>2, SortedOrders
  <2> QED
    BY <1>2, <2>1, <2>2, <2>3
<1> QED
  BY <1>4, <1>5, <1>6 DEF so

LEMMA SortedKeys ==
  ASSUME NEW s \in Seq(Keys)
  PROVE  LET l == SortedList(s)
         IN  /\ l \in Seq(Keys) /\ Len(l) = Len(s)
             /\ \A r \in 1..Len(s) : \E i \in 1..Len(s) : l[r] = s[i]
             /\ \A i \in 1..Len(s) : \E r \in 1..Len(s) : l[r] = s[i]
             /\ \A q, r \in 1..Len(s) : q < r => l[q] <= l[r]
<1> DEFINE n == Len(s)
           l == SortedList(s)
<1>1. n \in Nat /\ \A i \in 1..n : s[i] \in Keys
  OBVIOUS
<1>2. Keyed(s, n)
  BY <1>1, StringsAssumption DEF Keyed, Strings
<1>3. /\ l = [r \in 1..n |-> l[r]]
      /\ \A r \in 1..n : \E i \in 1..n : l[r] = s[i] /\ Rank(s, i) = r
      /\ \A i \in 1..n : Rank(s, i) \in 1..n /\ l[Rank(s, i)] = s[i]
  <2>1. Len(s) = n
    OBVIOUS
  <2> HIDE DEF n
  <2>2. l = Sorted(s, s)
    BY DEF SortedList
  <2> HIDE DEF l
  <2>3. Sorts(s, s, n, Sorted(s, s))
    BY <1>2, <2>1, SortedSound
  <2> QED
    BY <2>2, <2>3 DEF Sorts
<1> HIDE DEF l
<1>4. l \in Seq(Keys) /\ Len(l) = n
  <2>1. \A r \in 1..n : l[r] \in Keys
    BY <1>1, <1>3
  <2>2. l \in [1..n -> Keys]
    BY <1>3, <2>1
  <2> QED
    BY <1>1, <2>2
<1>5. ASSUME NEW q \in 1..n, NEW r \in 1..n, q < r
      PROVE  l[q] <= l[r]
  <2>1. PICK i \in 1..n : l[q] = s[i] /\ Rank(s, i) = q
    BY <1>3
  <2>2. PICK j \in 1..n : l[r] = s[j] /\ Rank(s, j) = r
    BY <1>3
  <2>3. s[i] <= s[j]
    BY <1>2, <1>5, <2>1, <2>2, SortedOrders
  <2> QED
    BY <2>1, <2>2, <2>3
<1> QED
  BY <1>3, <1>4, <1>5 DEF l

LEMMA DataIs ==
  ASSUME NEW c, ConfOK(c)
  PROVE  LET D == FieldData(c)
             so == SortedOverrides(c.overrides)
             l == ListOf(c)
             n == Len(c.overrides)
         IN  /\ D \in Seq(Strings) /\ n \in Nat /\ Len(l) \in Nat /\ l \in Seq(Keys)
             /\ Len(l) = Words(c).host_allow_or_deny_cnt
             /\ Len(D) = 2 * n + Len(l)
             /\ \A i \in 1..n : D[2 * i - 1] = so[i][1] /\ D[2 * i] = so[i][2]
             /\ \A j \in 1..Len(l) : D[2 * n + j] = l[j]
<1> DEFINE so == SortedOverrides(c.overrides)
           n == Len(c.overrides)
           l == ListOf(c)
           pairs == [i \in 1..(2 * n) |-> so[(i + 1) \div 2][IF i % 2 = 1 THEN 1 ELSE 2]]
<1>1. so \in Fields /\ Len(so) = n /\ n \in Nat
  <2>1. c.overrides \in Fields
    BY DEF ConfOK
  <2>2. so \in Fields /\ Len(so) = n
    BY <2>1, SortedFields
  <2> QED
    BY <2>1, <2>2 DEF Fields
<1>2. l \in Seq(Keys) /\ Len(l) \in Nat /\ Len(l) = Words(c).host_allow_or_deny_cnt
  <2>1. c.list \in Seq(Keys)
    BY DEF ConfOK
  <2>2. SortedList(c.list) \in Seq(Keys) /\ Len(SortedList(c.list)) = Len(c.list)
    BY <2>1, SortedKeys
  <2>3. Words(c).host_allow_or_deny_cnt =
          IF c.host \in {"allow", "deny"} THEN Len(c.list) ELSE 0
    BY DEF Words
  <2>4. CASE c.host \in {"allow", "deny"}
    BY <2>2, <2>3, <2>4 DEF ListOf
  <2>5. CASE c.host \notin {"allow", "deny"}
    <3>1. l = <<>>
      BY <2>5 DEF ListOf
    <3> QED
      BY <2>3, <2>5, <3>1
  <2> QED
    BY <2>4, <2>5
<1>3. FieldData(c) = pairs \o l
  BY <1>1 DEF FieldData, ListOf
<1> HIDE DEF so, n, l
<1>4. \A i \in 1..n : so[i] \in Keys \X Values
  BY <1>1 DEF Fields
<1>5. \A i \in 1..(2 * n) : (i + 1) \div 2 \in 1..n
  BY <1>1
<1>6. \A i \in 1..(2 * n) : pairs[i] \in Strings
  <2> SUFFICES ASSUME NEW i \in 1..(2 * n)
               PROVE  pairs[i] \in Strings
    OBVIOUS
  <2>1. so[(i + 1) \div 2] \in Keys \X Values
    BY <1>4, <1>5
  <2>2. pairs[i] = so[(i + 1) \div 2][1] \/ pairs[i] = so[(i + 1) \div 2][2]
    OBVIOUS
  <2> QED
    BY <2>1, <2>2 DEF Strings
<1>7. pairs \in Seq(Strings) /\ Len(pairs) = 2 * n
  <2>1. pairs \in [1..(2 * n) -> Strings] /\ 2 * n \in Nat
    BY <1>1, <1>6
  <2> QED
    BY <2>1
<1>8. l \in Seq(Strings)
  BY <1>2 DEF Strings
<1>9. ASSUME NEW i \in 1..n
      PROVE  pairs[2 * i - 1] = so[i][1] /\ pairs[2 * i] = so[i][2]
  <2>1. /\ 2 * i - 1 \in 1..(2 * n) /\ 2 * i \in 1..(2 * n)
        /\ ((2 * i - 1) + 1) \div 2 = i /\ (2 * i + 1) \div 2 = i
        /\ (2 * i - 1) % 2 = 1 /\ (2 * i) % 2 = 0
    BY <1>1
  <2> QED
    BY <2>1
<1> HIDE DEF pairs
<1>10. /\ pairs \o l \in Seq(Strings) /\ Len(pairs \o l) = 2 * n + Len(l)
       /\ \A i \in 1..(2 * n) : (pairs \o l)[i] = pairs[i]
       /\ \A j \in 1..Len(l) : (pairs \o l)[2 * n + j] = l[j]
  <2>1. /\ pairs \o l \in Seq(Strings) /\ Len(pairs \o l) = Len(pairs) + Len(l)
        /\ \A i \in 1..(Len(pairs) + Len(l)) :
             (pairs \o l)[i] = IF i <= Len(pairs) THEN pairs[i] ELSE l[i - Len(pairs)]
    BY <1>7, <1>8, ConcatProperties
  <2>2. \A i \in 1..(2 * n) : i \in 1..(2 * n + Len(l)) /\ i <= 2 * n
    BY <1>1, <1>2
  <2>3. \A j \in 1..Len(l) : /\ 2 * n + j \in 1..(2 * n + Len(l)) /\ ~(2 * n + j <= 2 * n)
                             /\ (2 * n + j) - 2 * n = j
    BY <1>1, <1>2
  <2> QED
    BY <1>7, <2>1, <2>2, <2>3
<1>11. \A i \in 1..n : 2 * i - 1 \in 1..(2 * n) /\ 2 * i \in 1..(2 * n)
  BY <1>1
<1> QED
  BY <1>1, <1>2, <1>3, <1>9, <1>10, <1>11 DEF so, n, l

-----------------------------------------------------------------------------
(***************************************************************************)
(* The invariant.  off[i] is where the virtualizer puts the string after   *)
(* the first i; it is as far as the strings written go, and what the       *)
(* adapter has read is told by how much it has gathered.                   *)
(***************************************************************************)
Data == FieldData(conf)
Ordering == SortedOverrides(conf.overrides)
List == ListOf(conf)
Count == Len(conf.overrides)

Entry(s) == 4 + StrLen[s] + Padding(StrLen[s])

Laid(off, k) ==
  /\ k \in Nat /\ k <= Len(Data)
  /\ off[0] = 0
  /\ \A i \in 0..k : off[i] \in Nat /\ off[i] % 4 = 0
  /\ \A i \in 1..k : off[i] = off[i - 1] + Entry(Data[i])
  /\ \A i, j \in 0..k : i < j => off[i] + 4 + StrLen[Data[i + 1]] <= off[j]

Holds(off, k) ==
  /\ block = [len |-> block.len, at |-> block.at]
  /\ DOMAIN block.at = {off[i] : i \in 0..(k - 1)}
  /\ \A i \in 0..(k - 1) : block.at[off[i]] = Data[i + 1]

WriterInv(off, k) ==
  /\ ConfOK(conf)
  /\ Laid(off, k)
  /\ Holds(off, k)
  /\ unwritten \in Seq(Strings) /\ Len(unwritten) = Len(Data) - k
  /\ \A i \in 1..Len(unwritten) : unwritten[i] = Data[k + i]
  /\ \/ words = NoWords /\ block.len = off[k] /\ call = NoCall
     \/ words = Words(conf) /\ k = Len(Data) /\ block.len \in Nat /\ block.len >= off[k]

Asked ==
  /\ call = [op |-> call.op, key |-> call.key, host |-> call.host, next |-> call.next]
  /\ call.op \in {"get-all", "get"}
  /\ call.host \in Fields
  /\ call.next \in Nat \ {0}

Gathered(off) ==
  /\ found \in Fields /\ listed \in Seq(Keys)
  /\ \A i \in 1..Len(found) : i <= Count => found[i] = Ordering[i]
  /\ \A i \in 1..Len(listed) : listed[i] = List[i]
  /\ Len(found) < Count => listed = <<>> /\ offset = off[2 * Len(found)]
  /\ Len(found) >= Count => Len(listed) <= Len(List) /\ offset = off[2 * Count + Len(listed)]
  /\ Len(found) > Count => Len(listed) = Len(List)

ReaderInv(off) ==
  /\ call = NoCall => found = <<>> /\ listed = <<>> /\ offset = 0
  /\ call # NoCall =>
       /\ words = Words(conf)
       /\ Asked /\ Gathered(off)
       /\ \A i \in 1..Len(found) : i > Count => Permitted(conf, found[i])

IInv == \E off, k : WriterInv(off, k) /\ ReaderInv(off)

-----------------------------------------------------------------------------
(***************************************************************************)
(* The arithmetic of the block.                                            *)
(***************************************************************************)
LEMMA PaddingIs ==
  ASSUME NEW n \in Nat
  PROVE  Padding(n) \in 0..3 /\ (n + Padding(n)) % 4 = 0
BY DEF Padding

LEMMA PaddingWhole == \A n \in Nat : (n + Padding(n)) % 4 = 0
BY PaddingIs

LEMMA PaddingBounds == \A n \in Nat : Padding(n) \in Nat
BY PaddingIs

LEMMA PaddingShifts ==
  ASSUME NEW o \in Nat, o % 4 = 0, NEW n \in Nat
  PROVE  Padding(o + 4 + n) = Padding(n)
<1>1. (o + 4 + n) % 4 = n % 4
  OBVIOUS
<1> QED
  BY <1>1 DEF Padding

LEMMA AddedWords ==
  ASSUME NEW a \in Nat, NEW b \in Nat, a % 4 = 0, b % 4 = 0
  PROVE  (a + 4 + b) % 4 = 0
OBVIOUS

LEMMA LenOf ==
  ASSUME NEW s \in Strings
  PROVE  StrLen[s] \in Nat /\ Entry(s) \in Nat /\ Entry(s) >= 4 + StrLen[s]
<1>1. StrLen[s] \in Nat
  BY StringsAssumption
<1> QED
  BY <1>1, PaddingBounds DEF Entry

LEMMA WordsAre ==
  ASSUME ConfOK(conf)
  PROVE  /\ Words(conf).written = TRUE
         /\ Words(conf).host_field_cnt = Count
         /\ Words(conf).host_allow_or_deny_cnt = Len(List)
         /\ Words(conf).host_fallback = (conf.host # "none")
         /\ Words(conf).host_fallback_allow = (conf.host = "allow")
         /\ NoWords.written = FALSE
         /\ Words(conf) # NoWords
<1>1. Words(conf).written = TRUE /\ NoWords.written = FALSE
  BY DEF Words, NoWords
<1>2. Words(conf).host_allow_or_deny_cnt = Len(List)
  BY DataIs DEF List
<1> QED
  BY <1>1, <1>2 DEF Words, Count

LEMMA DataFacts ==
  ASSUME ConfOK(conf)
  PROVE  /\ Data \in Seq(Strings) /\ Count \in Nat /\ Len(List) \in Nat /\ List \in Seq(Keys)
         /\ Len(Data) = 2 * Count + Len(List)
         /\ \A i \in 1..Count : Data[2 * i - 1] = Ordering[i][1] /\ Data[2 * i] = Ordering[i][2]
         /\ \A j \in 1..Len(List) : Data[2 * Count + j] = List[j]
BY DataIs DEF Data, Count, List, Ordering

\* Where the string after one in the block is.
LEMMA AfterIs ==
  ASSUME ConfOK(conf), NEW off, NEW k, Laid(off, k), Holds(off, k), NEW i \in 0..(k - 1)
  PROVE  /\ off[i] \in DOMAIN block.at /\ block.at[off[i]] = Data[i + 1]
         /\ After(off[i]) = off[i + 1]
<1>1. off[i] \in DOMAIN block.at /\ block.at[off[i]] = Data[i + 1]
  BY DEF Holds
<1>2. i \in 0..k /\ i + 1 \in 1..k /\ (i + 1) - 1 = i
  BY DEF Laid
<1>3. off[i] \in Nat /\ off[i] % 4 = 0 /\ off[i + 1] = off[i] + Entry(Data[i + 1])
  BY <1>2 DEF Laid
<1>4. Data[i + 1] \in Strings
  <2>1. Data \in Seq(Strings) /\ i + 1 \in 1..Len(Data)
    BY <1>2, DataFacts DEF Laid
  <2> QED
    BY <2>1
<1> DEFINE n == StrLen[Data[i + 1]]
<1>5. n \in Nat
  BY <1>4, LenOf
<1>6. After(off[i]) = (off[i] + 4 + n) + Padding(off[i] + 4 + n)
  BY <1>1 DEF After
<1>7. Entry(Data[i + 1]) = 4 + n + Padding(n)
  BY DEF Entry
<1>8. Padding(n) \in Nat
  BY <1>5, PaddingBounds
<1> HIDE DEF n
<1>9. After(off[i]) = (off[i] + 4 + n) + Padding(n)
  BY <1>3, <1>5, <1>6, PaddingShifts
<1> QED
  BY <1>1, <1>3, <1>5, <1>7, <1>8, <1>9

-----------------------------------------------------------------------------
(***************************************************************************)
(* The virtualizer keeps the invariant.                                    *)
(***************************************************************************)
LEMMA InitIInv == Init => IInv
<1> SUFFICES ASSUME Init PROVE IInv
  OBVIOUS
<1> DEFINE off == [i \in 0..0 |-> 0]
<1>1. ConfOK(conf)
  <2>1. \/ conf \in [overrides : Overrides, host : {"none", "all"}, list : {<<>>}]
        \/ conf \in [overrides : Overrides, host : {"allow", "deny"}, list : Lists]
    BY DEF Init
  <2>2. conf.overrides \in Fields
    BY <2>1, FieldsAssumption
  <2>3. conf.list \in Seq(Keys)
    <3>1. conf.list = <<>> \/ conf.list \in Lists
      BY <2>1
    <3>2. <<>> \in Seq(Keys)
      BY EmptySeq
    <3> QED
      BY <3>1, <3>2, FieldsAssumption
  <2> QED
    BY <2>1, <2>2, <2>3 DEF ConfOK
<1>2. Laid(off, 0)
  <2>1. Len(Data) \in Nat
    BY <1>1, DataFacts
  <2> QED
    BY <2>1 DEF Laid
<1>3. Holds(off, 0)
  BY DEF Init, Holds
<1>4. unwritten = Data /\ block.len = 0 /\ words = NoWords /\ call = NoCall
  BY DEF Init, Data
<1>5. WriterInv(off, 0)
  <2>1. Data \in Seq(Strings) /\ Len(Data) \in Nat
    BY <1>1, DataFacts
  <2> HIDE DEF off
  <2>2. off[0] = 0
    BY DEF off
  <2> QED
    BY <1>1, <1>2, <1>3, <1>4, <2>1, <2>2 DEF WriterInv
<1>6. ReaderInv(off)
  BY DEF Init, ReaderInv
<1> QED
  BY <1>5, <1>6 DEF IInv

LEMMA WriteFieldStep ==
  ASSUME NEW off, NEW k, WriterInv(off, k), ReaderInv(off), WriteField
  PROVE  IInv'
<1> DEFINE s == Head(unwritten)
<1>1. /\ unwritten # <<>> /\ unwritten' = Tail(unwritten)
      /\ UNCHANGED <<conf, words, reader, result>>
      /\ block' = [len |-> block.len + 4 + StrLen[s] + Padding(StrLen[s]),
                   at |-> [o \in DOMAIN block.at \cup {block.len} |->
                             IF o = block.len THEN s ELSE block.at[o]]]
  BY DEF WriteField
<1>2. /\ ConfOK(conf) /\ Laid(off, k) /\ Holds(off, k)
      /\ unwritten \in Seq(Strings) /\ Len(unwritten) = Len(Data) - k
      /\ \A i \in 1..Len(unwritten) : unwritten[i] = Data[k + i]
  BY DEF WriterInv
<1>3. Data \in Seq(Strings) /\ Len(Data) \in Nat /\ k \in Nat /\ Data' = Data
  BY <1>1, <1>2, DataFacts DEF Laid, Data
<1>4. k < Len(Data) /\ k + 1 \in 1..Len(Data) /\ 1 \in 1..Len(unwritten)
  <2>1. Len(unwritten) # 0
    BY <1>1, <1>2, EmptySeq
  <2> QED
    BY <1>2, <1>3, <2>1
<1>5. words = NoWords /\ block.len = off[k] /\ call = NoCall
  <2>1. ~(k = Len(Data))
    BY <1>3, <1>4
  <2> QED
    BY <2>1 DEF WriterInv
<1>6. s = Data[k + 1] /\ s \in Strings
  <2>1. s = unwritten[1]
    BY <1>1, <1>2
  <2> HIDE DEF s
  <2> QED
    BY <1>2, <1>3, <1>4, <2>1
<1>7. /\ off[0] = 0
      /\ \A i \in 0..k : off[i] \in Nat /\ off[i] % 4 = 0
      /\ \A i \in 1..k : off[i] = off[i - 1] + Entry(Data[i])
      /\ \A i, j \in 0..k : i < j => off[i] + 4 + StrLen[Data[i + 1]] <= off[j]
  BY <1>2 DEF Laid
<1>8. StrLen[s] \in Nat /\ Entry(s) \in Nat /\ Entry(s) >= 4 + StrLen[s]
  BY <1>6, LenOf
<1> HIDE DEF s
<1>9. PICK new : /\ new[k + 1] = off[k] + Entry(s)
                 /\ \A i \in 0..k : new[i] = off[i]
  <2> DEFINE f == [i \in 0..(k + 1) |-> IF i = k + 1 THEN off[k] + Entry(s) ELSE off[i]]
  <2>1. f[k + 1] = off[k] + Entry(s) /\ \A i \in 0..k : f[i] = off[i]
    BY <1>3
  <2> HIDE DEF f
  <2> QED
    BY <2>1
<1>10. off[k] \in Nat /\ off[k] % 4 = 0 /\ new[k + 1] \in Nat /\ new[k + 1] % 4 = 0
  <2>1. off[k] \in Nat /\ off[k] % 4 = 0
    BY <1>3, <1>7
  <2>2. Entry(s) = 4 + (StrLen[s] + Padding(StrLen[s]))
    BY <1>8, PaddingBounds DEF Entry
  <2>3. StrLen[s] + Padding(StrLen[s]) \in Nat /\ (StrLen[s] + Padding(StrLen[s])) % 4 = 0
    <3> DEFINE n == StrLen[s]
    <3>1. n \in Nat
      BY <1>8
    <3> HIDE DEF n
    <3>2. Padding(n) \in Nat /\ (n + Padding(n)) % 4 = 0
      BY <3>1, PaddingIs, PaddingBounds
    <3>3. n + Padding(n) \in Nat
      BY <3>1, <3>2
    <3> QED
      BY <3>2, <3>3 DEF n
  <2> DEFINE b == StrLen[s] + Padding(StrLen[s])
  <2>4. new[k + 1] = off[k] + 4 + b
    <3> HIDE DEF b
    <3>1. Entry(s) = 4 + b /\ b \in Nat
      BY <2>2, <2>3 DEF b
    <3> QED
      BY <1>9, <2>1, <3>1
  <2> HIDE DEF b
  <2>5. b \in Nat /\ b % 4 = 0
    BY <2>3 DEF b
  <2> QED
    BY <2>1, <2>4, <2>5, AddedWords
<1>11. Laid(new, k + 1)
  <2>1. \A i \in 0..(k + 1) : new[i] \in Nat /\ new[i] % 4 = 0
    <3>1. \A i \in 0..(k + 1) : i \in 0..k \/ i = k + 1
      BY <1>3
    <3> QED
      BY <1>7, <1>9, <1>10, <3>1
  <2>2. ASSUME NEW i \in 1..(k + 1)
        PROVE  new[i] = new[i - 1] + Entry(Data[i])
    <3>1. CASE i = k + 1
      <4>1. i - 1 = k /\ k \in 0..k
        BY <1>3, <3>1
      <4> QED
        BY <1>6, <1>9, <3>1, <4>1
    <3>2. CASE i \in 1..k
      <4>1. i \in 0..k /\ i - 1 \in 0..k
        BY <1>3, <3>2
      <4> QED
        BY <1>7, <1>9, <3>2, <4>1
    <3> QED
      BY <1>3, <3>1, <3>2
  <2>3. ASSUME NEW i \in 0..(k + 1), NEW j \in 0..(k + 1), i < j
        PROVE  new[i] + 4 + StrLen[Data[i + 1]] <= new[j]
    <3>1. i \in 0..k /\ new[i] = off[i]
      BY <1>3, <1>9, <2>3
    <3>2. CASE j \in 0..k
      BY <1>7, <1>9, <2>3, <3>1, <3>2
    <3>3. CASE j = k + 1 /\ i = k
      <4>1. new[i] = off[k] /\ new[j] = off[k] + Entry(s) /\ StrLen[Data[i + 1]] = StrLen[s]
        BY <1>6, <1>9, <3>1, <3>3
      <4> QED
        BY <1>8, <1>10, <4>1
    <3>4. CASE j = k + 1 /\ i < k
      <4>1. k \in 0..k
        BY <1>3
      <4>2. off[i] + 4 + StrLen[Data[i + 1]] <= off[k]
        BY <1>7, <3>1, <3>4, <4>1
      <4>3. StrLen[Data[i + 1]] \in Nat /\ off[i] \in Nat
        <5>1. i + 1 \in 1..Len(Data)
          BY <1>3, <1>4, <3>1
        <5>2. Data[i + 1] \in Strings
          BY <1>3, <5>1
        <5> QED
          BY <1>7, <3>1, <5>2, LenOf
      <4>4. new[i] = off[i] /\ new[j] = off[k] + Entry(s)
        BY <1>9, <3>1, <3>4
      <4> QED
        BY <1>8, <1>10, <4>2, <4>3, <4>4
    <3> QED
      BY <1>3, <3>1, <3>2, <3>3, <3>4
  <2>4. k + 1 \in Nat /\ k + 1 <= Len(Data) /\ new[0] = 0
    BY <1>3, <1>4, <1>7, <1>9
  <2> QED
    BY <2>1, <2>2, <2>3, <2>4 DEF Laid
<1>12. Laid(new, k + 1)'
  BY <1>3, <1>11 DEF Laid
<1>13. Holds(new, k + 1)'
  <2>1. /\ DOMAIN block.at = {off[i] : i \in 0..(k - 1)}
        /\ \A i \in 0..(k - 1) : block.at[off[i]] = Data[i + 1]
    BY <1>2 DEF Holds
  <2>2. /\ block'.at = [o \in DOMAIN block.at \cup {off[k]} |->
                          IF o = off[k] THEN s ELSE block.at[o]]
        /\ block' = [len |-> block'.len, at |-> block'.at]
    BY <1>1, <1>5 DEF s
  <2>3. DOMAIN block'.at = {off[i] : i \in 0..(k - 1)} \cup {off[k]}
    BY <2>1, <2>2
  <2>4. \A i \in 0..(k - 1) : i \in 0..k /\ off[i] # off[k]
    <3> SUFFICES ASSUME NEW i \in 0..(k - 1)
                 PROVE  i \in 0..k /\ off[i] # off[k]
      OBVIOUS
    <3>1. i \in 0..k /\ k \in 0..k /\ i < k /\ i + 1 \in 1..Len(Data)
      BY <1>3, <1>4
    <3>2. off[i] + 4 + StrLen[Data[i + 1]] <= off[k] /\ off[i] \in Nat
      BY <1>7, <3>1
    <3>3. StrLen[Data[i + 1]] \in Nat
      BY <1>3, <3>1, LenOf
    <3> QED
      BY <1>10, <3>1, <3>2, <3>3
  <2>5. \A i \in 0..k : i \in 0..(k - 1) \/ i = k
    BY <1>3
  <2>6. DOMAIN block'.at = {new[i] : i \in 0..k}
    BY <1>3, <1>9, <2>3, <2>4, <2>5
  <2>7. \A i \in 0..k : block'.at[new[i]] = Data[i + 1]
    BY <1>6, <1>9, <2>1, <2>2, <2>4, <2>5
  <2>8. (k + 1) - 1 = k
    BY <1>3
  <2> QED
    BY <1>3, <2>2, <2>6, <2>7, <2>8 DEF Holds
<1>14. /\ unwritten' \in Seq(Strings) /\ Len(unwritten') = Len(Data) - (k + 1)
       /\ \A i \in 1..Len(unwritten') : unwritten'[i] = Data[(k + 1) + i]
  <2>1. /\ unwritten' \in Seq(Strings) /\ Len(unwritten') = Len(unwritten) - 1
        /\ \A i \in 1..Len(unwritten') : unwritten'[i] = unwritten[i + 1]
    BY <1>1, <1>2, HeadTailProperties
  <2>2. \A i \in 1..(Len(unwritten) - 1) : i + 1 \in 1..Len(unwritten) /\ k + (i + 1) = (k + 1) + i
    BY <1>2, <1>3
  <2> QED
    BY <1>2, <1>3, <2>1, <2>2
<1>15. words' = NoWords /\ block'.len = new[k + 1] /\ call' = NoCall
  <2>1. block'.len = off[k] + 4 + StrLen[s] + Padding(StrLen[s])
    BY <1>1, <1>5 DEF s
  <2>2. Entry(s) = 4 + StrLen[s] + Padding(StrLen[s]) /\ Padding(StrLen[s]) \in Nat
    BY <1>8, PaddingBounds DEF Entry
  <2>3. block'.len = off[k] + Entry(s)
    BY <1>8, <1>10, <2>1, <2>2
  <2> QED
    BY <1>1, <1>5, <1>9, <2>3 DEF reader
<1>16. WriterInv(new, k + 1)'
  BY <1>1, <1>2, <1>3, <1>12, <1>13, <1>14, <1>15 DEF WriterInv, ConfOK
<1>17. ReaderInv(new)'
  BY <1>1, <1>5 DEF ReaderInv, reader
<1> QED
  BY <1>16, <1>17 DEF IInv

LEMMA WriteWordsStep ==
  ASSUME NEW off, NEW k, WriterInv(off, k), ReaderInv(off), WriteWords
  PROVE  IInv'
<1>1. /\ unwritten = <<>> /\ words.written = FALSE
      /\ block' = [block EXCEPT !.len = BlockSize]
      /\ words' = Words(conf)
      /\ UNCHANGED <<conf, unwritten, reader, result>>
  <2>1. ~words.written /\ (words = NoWords \/ words = Words(conf)) /\ ConfOK(conf)
    BY DEF WriteWords, WriterInv
  <2>2. words.written = FALSE
    BY <2>1, WordsAre
  <2> QED
    BY <2>2 DEF WriteWords
<1>2. /\ ConfOK(conf) /\ Laid(off, k) /\ Holds(off, k) /\ Len(unwritten) = Len(Data) - k
  BY DEF WriterInv
<1>3. words = NoWords /\ block.len = off[k] /\ call = NoCall
  BY <1>1, <1>2, WordsAre DEF WriterInv
<1>4. k \in Nat /\ Len(Data) \in Nat /\ k = Len(Data) /\ off[k] \in Nat /\ Data' = Data
  <2>1. k \in Nat /\ Len(Data) \in Nat /\ off[k] \in Nat /\ Data' = Data
    BY <1>1, <1>2, DataFacts DEF Laid, Data
  <2>2. Len(unwritten) = 0
    BY <1>1
  <2> QED
    BY <1>2, <2>1, <2>2
<1>5. block'.len = BlockSize /\ block'.at = block.at /\ block' = [len |-> BlockSize, at |-> block.at]
  BY <1>1, <1>2 DEF Holds
<1>6. BlockSize \in Nat /\ BlockSize >= off[k]
  <2> DEFINE more == IF block.len % 8 # 0 THEN 4 ELSE 0
  <2>1. BlockSize = off[k] + more /\ more \in Nat
    BY <1>3 DEF BlockSize
  <2> HIDE DEF more
  <2> QED
    BY <1>4, <2>1
<1>7. Holds(off, k)'
  BY <1>2, <1>4, <1>5 DEF Holds
<1>8. Laid(off, k)'
  BY <1>2, <1>4 DEF Laid
<1>9. WriterInv(off, k)'
  <2>1. UNCHANGED <<conf, unwritten>> /\ Words(conf)' = Words(conf)
    BY <1>1 DEF Words
  <2>2. unwritten' \in Seq(Strings) /\ Len(unwritten') = Len(Data') - k
        /\ \A i \in 1..Len(unwritten') : unwritten'[i] = Data'[k + i]
    BY <1>1, <1>4 DEF WriterInv
  <2>3. words' = Words(conf)' /\ k = Len(Data') /\ block'.len \in Nat /\ block'.len >= off[k]
    BY <1>1, <1>4, <1>5, <1>6, <2>1
  <2>4. ConfOK(conf)'
    BY <1>2, <2>1 DEF ConfOK
  <2> QED
    BY <1>7, <1>8, <2>2, <2>3, <2>4 DEF WriterInv
<1>10. ReaderInv(off)'
  BY <1>1, <1>3 DEF ReaderInv, reader
<1> QED
  BY <1>9, <1>10 DEF IInv

-----------------------------------------------------------------------------
(***************************************************************************)
(* The adapter keeps the invariant.                                        *)
(***************************************************************************)
LEMMA WriterStays ==
  ASSUME NEW off, NEW k, WriterInv(off, k), words = Words(conf), UNCHANGED <<conf, writer>>
  PROVE  WriterInv(off, k)'
<1>1. /\ UNCHANGED <<conf, unwritten, block, words>>
      /\ Words(conf)' = Words(conf) /\ Data' = Data
  BY DEF writer, Words, Data
<1>2. /\ ConfOK(conf) /\ k = Len(Data) /\ block.len \in Nat /\ block.len >= off[k]
  <2>1. ConfOK(conf)
    BY DEF WriterInv
  <2> QED
    BY <2>1, WordsAre DEF WriterInv
<1>3. Holds(off, k)' /\ Laid(off, k)'
  BY <1>1 DEF WriterInv, Holds, Laid
<1> QED
  BY <1>1, <1>2, <1>3 DEF WriterInv, ConfOK

\* While a call runs everything has been written.
LEMMA Running ==
  ASSUME NEW off, NEW k, WriterInv(off, k), ReaderInv(off), call # NoCall
  PROVE  /\ ConfOK(conf) /\ words = Words(conf) /\ k = Len(Data)
         /\ Laid(off, k) /\ Holds(off, k)
         /\ Asked /\ Gathered(off)
         /\ words.host_field_cnt = Count /\ words.host_allow_or_deny_cnt = Len(List)
         /\ Count \in Nat /\ Len(List) \in Nat /\ k = 2 * Count + Len(List)
         /\ Len(found) \in Nat /\ Len(listed) \in Nat
<1>1. ConfOK(conf) /\ words = Words(conf) /\ Laid(off, k) /\ Holds(off, k)
  BY DEF WriterInv, ReaderInv
<1>2. k = Len(Data)
  BY <1>1, WordsAre DEF WriterInv
<1>3. Asked /\ Gathered(off)
  BY DEF ReaderInv
<1> QED
  BY <1>1, <1>2, <1>3, WordsAre, DataFacts DEF Gathered, Fields

LEMMA CallStep ==
  ASSUME NEW off, NEW k, WriterInv(off, k), ReaderInv(off),
         NEW op \in {"get-all", "get"}, NEW key, NEW host \in HostFields, Call(op, key, host)
  PROVE  IInv'
<1>1. /\ words.written /\ call = NoCall
      /\ call' = [op |-> op, key |-> key, host |-> host, next |-> 1]
      /\ UNCHANGED <<conf, writer, offset, found, listed>>
  BY DEF Call
<1>2. ConfOK(conf) /\ words = Words(conf)
  <2>1. ConfOK(conf) /\ (words = NoWords \/ words = Words(conf))
    BY DEF WriterInv
  <2> QED
    BY <1>1, <2>1, WordsAre
<1>3. WriterInv(off, k)'
  BY <1>1, <1>2, WriterStays
<1>4. found' = <<>> /\ listed' = <<>> /\ offset' = 0
  BY <1>1 DEF ReaderInv
<1>5. Words(conf)' = Words(conf) /\ words' = words /\ Count' = Count /\ List' = List
  BY <1>1 DEF writer, Words, Count, List
<1>6. call'.op = op /\ call'.host = host /\ call'.next = 1 /\ call'.key = key
  BY <1>1
<1>7. call' # NoCall
  BY <1>6 DEF NoCall
<1>8. Asked'
  BY <1>1, <1>6, FieldsAssumption DEF Asked
<1>9. Gathered(off)'
  <2>1. Count \in Nat /\ Len(List) \in Nat /\ off[0] = 0
    BY <1>2, DataFacts DEF WriterInv, Laid
  <2>2. Len(found') = 0 /\ Len(listed') = 0 /\ found' \in Fields /\ listed' \in Seq(Keys)
    BY <1>4 DEF Fields
  <2>3. Len(found') < Count' => offset' = off[2 * Len(found')]
    BY <1>4, <2>1, <2>2
  <2>4. Len(found') >= Count' =>
          Len(listed') <= Len(List') /\ offset' = off[2 * Count' + Len(listed')]
    <3> SUFFICES ASSUME Len(found') >= Count'
                 PROVE  Len(listed') <= Len(List') /\ offset' = off[2 * Count' + Len(listed')]
      OBVIOUS
    <3>1. Count' = 0
      BY <1>5, <2>1, <2>2
    <3>2. 2 * Count' + Len(listed') = 0
      BY <2>2, <3>1
    <3> QED
      BY <1>4, <1>5, <2>1, <2>2, <3>2
  <2>5. ~(Len(found') > Count')
    BY <1>5, <2>1, <2>2
  <2>6. \A i : i \notin 1..0
    OBVIOUS
  <2> QED
    BY <1>4, <2>2, <2>3, <2>4, <2>5, <2>6 DEF Gathered
<1>10. ReaderInv(off)'
  <2>1. 1..Len(found') = {}
    BY <1>4
  <2> QED
    BY <1>2, <1>5, <1>7, <1>8, <1>9, <2>1 DEF ReaderInv
<1> QED
  BY <1>3, <1>10 DEF IInv

LEMMA LeaveStep ==
  ASSUME NEW off, NEW k, WriterInv(off, k), ReaderInv(off), call # NoCall,
         NEW answer, Leave(answer), UNCHANGED <<conf, writer>>
  PROVE  IInv'
<1>1. call' = NoCall /\ offset' = 0 /\ found' = <<>> /\ listed' = <<>>
  BY DEF Leave
<1>2. WriterInv(off, k)'
  BY Running, WriterStays
<1>3. ReaderInv(off)'
  BY <1>1 DEF ReaderInv
<1> QED
  BY <1>2, <1>3 DEF IInv

\* What the reader's invariant speaks of that no call changes.
LEMMA ConfStays ==
  ASSUME UNCHANGED <<conf, writer>>
  PROVE  /\ Words(conf)' = Words(conf) /\ words' = words
         /\ Count' = Count /\ List' = List /\ Ordering' = Ordering
         /\ \A f : Permitted(conf, f)' = Permitted(conf, f)
<1>1. conf' = conf /\ words' = words
  BY DEF writer
<1>2. \A f : Permitted(conf, f)' = Permitted(conf, f)
  BY <1>1 DEF Permitted
<1> QED
  BY <1>1, <1>2 DEF Words, Count, List, Ordering

LEMMA ReadOverrideStep ==
  ASSUME NEW off, NEW k, WriterInv(off, k), ReaderInv(off), ReadOverride
  PROVE  IInv'
<1> DEFINE m == Len(found)
           key == block.at[offset]
           value == block.at[After(offset)]
<1>1. /\ call # NoCall /\ m < words.host_field_cnt /\ UNCHANGED <<conf, writer>>
      /\ \/ \E answer : Leave(answer)
         \/ /\ found' = Append(found, <<key, value>>)
            /\ offset' = After(After(offset))
            /\ UNCHANGED <<call, listed, result>>
  BY DEF ReadOverride, Return
<1>2. /\ ConfOK(conf) /\ words = Words(conf) /\ k = 2 * Count + Len(List)
      /\ Laid(off, k) /\ Holds(off, k) /\ Asked /\ Gathered(off)
      /\ words.host_field_cnt = Count /\ Count \in Nat /\ Len(List) \in Nat /\ m \in Nat
  BY <1>1, Running
<1>3. CASE \E answer : Leave(answer)
  BY <1>1, <1>3, LeaveStep
<1>4. CASE /\ found' = Append(found, <<key, value>>)
           /\ offset' = After(After(offset))
           /\ UNCHANGED <<call, listed, result>>
  <2>1. m < Count /\ listed = <<>> /\ offset = off[2 * m]
    BY <1>1, <1>2 DEF Gathered
  <2>2. /\ 2 * m \in 0..(k - 1) /\ 2 * m + 1 \in 0..(k - 1) /\ m + 1 \in 1..Count
        /\ 2 * m + 1 = 2 * (m + 1) - 1 /\ (2 * m + 1) + 1 = 2 * (m + 1)
    <3> HIDE DEF m
    <3> QED
      BY <1>2, <2>1
  <2>3. key = Data[2 * m + 1] /\ After(offset) = off[2 * m + 1]
    <3> HIDE DEF m
    <3> QED
      BY <1>2, <2>1, <2>2, AfterIs
  <2>4. value = Data[(2 * m + 1) + 1] /\ After(After(offset)) = off[(2 * m + 1) + 1]
    <3> HIDE DEF m
    <3> QED
      BY <1>2, <2>2, <2>3, AfterIs
  <2>5. key = Ordering[m + 1][1] /\ value = Ordering[m + 1][2]
    <3> HIDE DEF m, key, value
    <3>1. Data[2 * (m + 1) - 1] = Ordering[m + 1][1] /\ Data[2 * (m + 1)] = Ordering[m + 1][2]
      BY <1>2, <2>2, DataFacts
    <3> QED
      BY <2>2, <2>3, <2>4, <3>1
  <2>6. Ordering[m + 1] \in Keys \X Values
    <3>1. Ordering \in Fields /\ Len(Ordering) = Count
      BY <1>2, SortedFields DEF Ordering, Count, ConfOK
    <3> HIDE DEF m
    <3> QED
      BY <2>2, <3>1 DEF Fields
  <2>7. <<key, value>> = Ordering[m + 1]
    <3> HIDE DEF m, key, value
    <3> QED
      BY <2>5, <2>6
  <2>8. /\ found' \in Fields /\ Len(found') = m + 1
        /\ \A i \in 1..m : found'[i] = found[i]
        /\ found'[m + 1] = Ordering[m + 1]
    <3>1. found \in Seq(Keys \X Values)
      BY <1>2 DEF Gathered, Fields
    <3>2. found' = Append(found, Ordering[m + 1])
      BY <1>4, <2>7
    <3> QED
      BY <2>6, <3>1, <3>2, AppendProperties DEF Fields
  <2>9. /\ Count' = Count /\ List' = List /\ Ordering' = Ordering
        /\ Words(conf)' = Words(conf) /\ words' = words
        /\ \A f : Permitted(conf, f)' = Permitted(conf, f)
    BY <1>1, ConfStays
  <2> HIDE DEF key, value
  <2>10. offset' = off[2 * (m + 1)]
    <3>1. (2 * m + 1) + 1 = 2 * (m + 1)
      BY <2>2
    <3> QED
      BY <1>4, <2>4, <3>1
  <2>11. Gathered(off)'
    <3>1. \A i \in 1..Len(found') : i <= Count' => found'[i] = Ordering'[i]
      <4> SUFFICES ASSUME NEW i \in 1..(m + 1), i <= Count
                   PROVE  found'[i] = Ordering[i]
        BY <2>8, <2>9
      <4>1. CASE i = m + 1
        BY <2>8, <4>1
      <4>2. CASE i \in 1..m
        <5>1. found[i] = Ordering[i]
          BY <1>2, <4>2 DEF Gathered
        <5> QED
          BY <2>8, <4>2, <5>1
      <4> QED
        BY <1>2, <4>1, <4>2
    <3>2. listed' = <<>> /\ Len(listed') = 0
      BY <1>4, <2>1
    <3>3. Len(found') >= Count' => 2 * (m + 1) = 2 * Count' + Len(listed')
      <4> HIDE DEF m
      <4> QED
        BY <1>2, <2>1, <2>8, <2>9, <3>2
    <3>4. ~(Len(found') > Count')
      <4> HIDE DEF m
      <4> QED
        BY <1>2, <2>1, <2>8, <2>9
    <3>5. listed' \in Seq(Keys) /\ 1..Len(listed') = {} /\ Len(listed') <= Len(List')
      BY <1>2, <2>9, <3>2
    <3> QED
      BY <2>8, <2>10, <3>1, <3>2, <3>3, <3>4, <3>5 DEF Gathered
  <2>12. ReaderInv(off)'
    <3>1. call' = call /\ Asked'
      BY <1>2, <1>4 DEF Asked
    <3>2. \A i \in 1..Len(found') : ~(i > Count')
      <4> HIDE DEF m
      <4> QED
        BY <1>2, <2>1, <2>8, <2>9
    <3> QED
      BY <1>1, <1>2, <2>9, <2>11, <3>1, <3>2 DEF ReaderInv
  <2> QED
    BY <1>1, <1>2, <2>12, WriterStays DEF IInv
<1> QED
  BY <1>1, <1>3, <1>4

-----------------------------------------------------------------------------
LEMMA ReadListedStep ==
  ASSUME NEW off, NEW k, WriterInv(off, k), ReaderInv(off), ReadListed
  PROVE  IInv'
<1> DEFINE m == Len(listed)
<1>1. /\ call # NoCall /\ Len(found) >= words.host_field_cnt
      /\ m < words.host_allow_or_deny_cnt
      /\ listed' = Append(listed, block.at[offset])
      /\ offset' = After(offset)
      /\ UNCHANGED <<conf, writer, call, found, result>>
  BY DEF ReadListed, OverridesRead
<1>2. /\ ConfOK(conf) /\ words = Words(conf) /\ k = 2 * Count + Len(List)
      /\ Laid(off, k) /\ Holds(off, k) /\ Asked /\ Gathered(off)
      /\ words.host_field_cnt = Count /\ words.host_allow_or_deny_cnt = Len(List)
      /\ Count \in Nat /\ Len(List) \in Nat /\ m \in Nat /\ Len(found) \in Nat
  BY <1>1, Running
<1>3. /\ m < Len(List) /\ Len(found) = Count /\ offset = off[2 * Count + m]
      /\ found \in Fields /\ listed \in Seq(Keys)
      /\ \A i \in 1..m : listed[i] = List[i]
      /\ \A i \in 1..Len(found) : i <= Count => found[i] = Ordering[i]
  <2>1. Len(found) >= Count /\ m < Len(List) /\ ~(Len(found) > Count)
    BY <1>1, <1>2 DEF Gathered
  <2> QED
    BY <1>2, <2>1 DEF Gathered
<1>4. /\ 2 * Count + m \in 0..(k - 1) /\ (2 * Count + m) + 1 = 2 * Count + (m + 1)
      /\ m + 1 \in 1..Len(List)
  <2> HIDE DEF m
  <2> QED
    BY <1>2, <1>3
<1>5. /\ block.at[offset] = Data[(2 * Count + m) + 1]
      /\ After(offset) = off[(2 * Count + m) + 1]
  <2> HIDE DEF m
  <2> QED
    BY <1>2, <1>3, <1>4, AfterIs
<1>6. block.at[offset] = List[m + 1] /\ List[m + 1] \in Keys
  <2> HIDE DEF m
  <2>1. Data[2 * Count + (m + 1)] = List[m + 1] /\ List \in Seq(Keys)
    BY <1>2, <1>4, DataFacts
  <2> QED
    BY <1>4, <1>5, <2>1
<1>7. /\ listed' \in Seq(Keys) /\ Len(listed') = m + 1
      /\ \A i \in 1..m : listed'[i] = listed[i]
      /\ listed'[m + 1] = List[m + 1]
  BY <1>1, <1>3, <1>6, AppendProperties
<1>8. /\ Count' = Count /\ List' = List /\ Ordering' = Ordering
      /\ Words(conf)' = Words(conf) /\ words' = words
      /\ \A f : Permitted(conf, f)' = Permitted(conf, f)
  BY <1>1, ConfStays
<1>9. offset' = off[2 * Count + (m + 1)]
  BY <1>1, <1>4, <1>5
<1>10. Gathered(off)'
  <2>1. \A i \in 1..Len(listed') : listed'[i] = List'[i]
    <3> SUFFICES ASSUME NEW i \in 1..(m + 1)
                 PROVE  listed'[i] = List[i]
      BY <1>7, <1>8
    <3>1. i = m + 1 \/ i \in 1..m
      BY <1>2
    <3> QED
      BY <1>3, <1>7, <3>1
  <2>2. Len(listed') <= Len(List')
    <3> HIDE DEF m
    <3> QED
      BY <1>2, <1>3, <1>7, <1>8
  <2>3. found' = found /\ ~(Len(found') < Count') /\ ~(Len(found') > Count')
    BY <1>1, <1>2, <1>3, <1>8
  <2>4. offset' = off[2 * Count' + Len(listed')]
    BY <1>7, <1>8, <1>9
  <2>5. \A i \in 1..Len(found') : i <= Count' => found'[i] = Ordering'[i]
    BY <1>3, <1>8, <2>3
  <2> QED
    BY <1>3, <1>7, <2>1, <2>2, <2>3, <2>4, <2>5 DEF Gathered
<1>11. ReaderInv(off)'
  <2>1. call' = call /\ Asked'
    BY <1>1, <1>2 DEF Asked
  <2>2. \A i \in 1..Len(found') : ~(i > Count')
    BY <1>1, <1>2, <1>3, <1>8
  <2> QED
    BY <1>1, <1>2, <1>8, <1>10, <2>1, <2>2 DEF ReaderInv
<1> QED
  BY <1>1, <1>2, <1>11, WriterStays DEF IInv

\* When the list is read, what the adapter searches are the names of the
\* overrides and the list, both as the virtualizer sorted them.
LEMMA Searched ==
  ASSUME NEW off, NEW k, WriterInv(off, k), ReaderInv(off), ListRead
  PROVE  /\ Len(listed) = Len(List) /\ Len(overridden) = Count
         /\ \A i \in 1..Count : overridden[i] = Ordering[i][1]
         /\ \A i \in 1..Len(List) : listed[i] = List[i]
         /\ Ordered(listed) /\ Ordered(overridden)
<1>1. /\ call # NoCall /\ Len(found) >= words.host_field_cnt
      /\ Len(listed) = words.host_allow_or_deny_cnt
  BY DEF ListRead, OverridesRead
<1>2. /\ ConfOK(conf) /\ words = Words(conf) /\ Gathered(off)
      /\ words.host_field_cnt = Count /\ words.host_allow_or_deny_cnt = Len(List)
      /\ Count \in Nat /\ Len(List) \in Nat /\ Len(found) \in Nat
  BY <1>1, Running
<1>3. \A i \in 1..Count : found[i] = Ordering[i]
  <2>1. \A i \in 1..Count : i \in 1..Len(found) /\ i <= Count
    BY <1>1, <1>2
  <2> QED
    BY <1>2, <2>1 DEF Gathered
<1>4. Len(listed) = Len(List) /\ \A i \in 1..Len(List) : listed[i] = List[i]
  BY <1>1, <1>2 DEF Gathered
<1>5. overridden = [i \in 1..Count |-> found[i][1]]
  BY <1>2 DEF overridden
<1>6. Len(overridden) = Count /\ \A i \in 1..Count : overridden[i] = Ordering[i][1]
  BY <1>2, <1>3, <1>5
<1>7. \A i, j \in 1..Count : i < j => Ordering[i][1] <= Ordering[j][1]
  BY <1>2, SortedFields DEF Ordering, Count, ConfOK
<1>8. \A i, j \in 1..Len(List) : i < j => List[i] <= List[j]
  <2>1. CASE conf.host \in {"allow", "deny"}
    <3>1. List = SortedList(conf.list) /\ conf.list \in Seq(Keys)
      BY <1>2, <2>1 DEF List, ListOf, ConfOK
    <3> QED
      BY <3>1, SortedKeys
  <2>2. CASE conf.host \notin {"allow", "deny"}
    <3>1. List = <<>>
      BY <2>2 DEF List, ListOf
    <3>2. 1..Len(List) = {}
      BY <3>1
    <3> QED
      BY <3>2
  <2> QED
    BY <2>1, <2>2
<1>9. Ordered(listed)
  BY <1>4, <1>8 DEF Ordered
<1>10. Ordered(overridden)
  <2>1. \A i, j \in 1..Count : i < j => overridden[i] <= overridden[j]
    BY <1>6, <1>7
  <2> QED
    BY <1>6, <2>1 DEF Ordered
<1> QED
  BY <1>4, <1>6, <1>9, <1>10

\* What the host setting and the list make of a key.
Lets(c, key) ==
  CASE c.host = "none" -> FALSE
    [] c.host = "all" -> TRUE
    [] c.host = "allow" -> \E i \in 1..Len(c.list) : c.list[i] = key
    [] c.host = "deny" -> \A i \in 1..Len(c.list) : c.list[i] # key

\* The search of the overrides and that of the list tell what they are to tell.
LEMMA Hides ==
  ASSUME NEW off, NEW k, WriterInv(off, k), ReaderInv(off), ListRead,
         NEW key, NEW hidden \in Search(overridden, key)
  PROVE  hidden = \E i \in 1..Len(conf.overrides) : conf.overrides[i][1] = key
<1>1. /\ Len(overridden) = Count /\ Ordered(overridden)
      /\ \A i \in 1..Count : overridden[i] = Ordering[i][1]
  BY Searched
<1>2. ConfOK(conf)
  BY Running DEF ListRead, OverridesRead
<1>3. hidden = \E i \in 1..Count : Ordering[i][1] = key
  <2>1. hidden = \E i \in 1..Len(overridden) : overridden[i] = key
    BY <1>1 DEF Search
  <2> QED
    BY <1>1, <2>1
<1>4. /\ \A r \in 1..Count : \E i \in 1..Count : Ordering[r] = conf.overrides[i]
      /\ \A i \in 1..Count : \E r \in 1..Count : Ordering[r] = conf.overrides[i]
  BY <1>2, SortedFields DEF Ordering, Count, ConfOK
<1>5. (\E i \in 1..Count : Ordering[i][1] = key)
        = (\E i \in 1..Count : conf.overrides[i][1] = key)
  BY <1>4
<1> QED
  BY <1>3, <1>5 DEF Count

LEMMA Decides ==
  ASSUME NEW off, NEW k, WriterInv(off, k), ReaderInv(off), ListRead,
         NEW key, NEW in_list \in Search(listed, key)
  PROVE  Passes(in_list) <=> Lets(conf, key)
<1>1. /\ Len(listed) = Len(List) /\ Ordered(listed)
      /\ \A i \in 1..Len(List) : listed[i] = List[i]
  BY Searched
<1>2. ConfOK(conf) /\ words = Words(conf)
  BY Running DEF ListRead, OverridesRead
<1>3. in_list = \E i \in 1..Len(List) : List[i] = key
  <2>1. in_list = \E i \in 1..Len(listed) : listed[i] = key
    BY <1>1 DEF Search
  <2> QED
    BY <1>1, <2>1
<1>4. conf.host # "none"
  BY <1>2, WordsAre DEF ListRead
<1>5. Passes(in_list) = IF conf.host = "allow" THEN in_list ELSE ~in_list
  <2>1. words.host_fallback_allow = (conf.host = "allow")
    BY <1>2, WordsAre
  <2>2. in_list \in BOOLEAN
    BY <1>3
  <2> QED
    BY <2>1, <2>2 DEF Passes
<1>6. conf.host \in {"allow", "deny"} =>
        in_list = \E i \in 1..Len(conf.list) : conf.list[i] = key
  <2> HAVE conf.host \in {"allow", "deny"}
  <2>1. List = SortedList(conf.list) /\ conf.list \in Seq(Keys)
    BY <1>2 DEF List, ListOf, ConfOK
  <2>2. /\ Len(SortedList(conf.list)) = Len(conf.list)
        /\ \A r \in 1..Len(conf.list) : \E i \in 1..Len(conf.list) :
             SortedList(conf.list)[r] = conf.list[i]
        /\ \A i \in 1..Len(conf.list) : \E r \in 1..Len(conf.list) :
             SortedList(conf.list)[r] = conf.list[i]
    BY <2>1, SortedKeys
  <2>3. (\E i \in 1..Len(List) : List[i] = key)
          = (\E i \in 1..Len(conf.list) : conf.list[i] = key)
    BY <2>1, <2>2
  <2> QED
    BY <1>3, <2>3
<1>7. CASE conf.host = "all"
  <2>1. List = <<>>
    BY <1>7 DEF List, ListOf
  <2>2. in_list = FALSE
    BY <1>3, <2>1
  <2> QED
    BY <1>5, <1>7, <2>2 DEF Lets
<1>8. CASE conf.host = "allow"
  BY <1>5, <1>6, <1>8 DEF Lets
<1>9. CASE conf.host = "deny"
  BY <1>5, <1>6, <1>9 DEF Lets
<1> QED
  BY <1>2, <1>4, <1>7, <1>8, <1>9 DEF ConfOK

\* A field of the host's is gathered if and only if the configuration permits it.
LEMMA Passed ==
  ASSUME NEW off, NEW k, WriterInv(off, k), ReaderInv(off), ListRead,
         NEW field, NEW hidden \in Search(overridden, field[1]),
         NEW in_list \in Search(listed, field[1])
  PROVE  ~hidden /\ Passes(in_list) <=> Permitted(conf, field)
<1>1. hidden = \E i \in 1..Len(conf.overrides) : conf.overrides[i][1] = field[1]
  BY Hides
<1>2. Passes(in_list) <=> Lets(conf, field[1])
  BY Decides
<1>3. Permitted(conf, field) <=>
        /\ ~ \E i \in 1..Len(conf.overrides) : conf.overrides[i][1] = field[1]
        /\ Lets(conf, field[1])
  BY DEF Permitted, Lets
<1> QED
  BY <1>1, <1>2, <1>3

-----------------------------------------------------------------------------
LEMMA HostFieldStep ==
  ASSUME NEW off, NEW k, WriterInv(off, k), ReaderInv(off), HostField
  PROVE  IInv'
<1> DEFINE m == Len(found)
           field == call.host[call.next]
<1>1. /\ ListRead /\ call # NoCall /\ m >= words.host_field_cnt
      /\ Len(listed) = words.host_allow_or_deny_cnt
      /\ call.next <= Len(call.host)
      /\ call' = [call EXCEPT !.next = @ + 1]
      /\ UNCHANGED <<conf, writer, offset, listed, result>>
  BY DEF HostField, MoreOfHost, ListRead, OverridesRead
<1>2. /\ ConfOK(conf) /\ words = Words(conf)
      /\ Asked /\ Gathered(off)
      /\ words.host_field_cnt = Count /\ words.host_allow_or_deny_cnt = Len(List)
      /\ Count \in Nat /\ Len(List) \in Nat /\ m \in Nat /\ m >= Count
  BY <1>1, Running
<1>3. field \in Keys \X Values
  BY <1>1, <1>2 DEF Asked, Fields
<1>4. \/ found' = found
      \/ found' = Append(found, field) /\ Permitted(conf, field)
  <2>1. PICK hidden \in Search(overridden, field[1]), in_list \in Search(listed, field[1]) :
          found' = IF ~hidden /\ Passes(in_list) THEN Append(found, field) ELSE found
    BY DEF HostField
  <2> HIDE DEF field
  <2>2. CASE ~hidden /\ Passes(in_list)
    <3>1. Permitted(conf, field)
      BY <1>1, <1>3, <2>2, Passed
    <3> QED
      BY <2>1, <2>2, <3>1
  <2> QED
    BY <2>1, <2>2
<1>5. /\ Count' = Count /\ List' = List /\ Ordering' = Ordering
      /\ Words(conf)' = Words(conf) /\ words' = words
      /\ \A f : Permitted(conf, f)' = Permitted(conf, f)
  BY <1>1, ConfStays
<1>6. /\ call'.op = call.op /\ call'.host = call.host /\ call'.next = call.next + 1
      /\ call' = [op |-> call.op, key |-> call.key, host |-> call.host, next |-> call.next + 1]
  BY <1>1, <1>2 DEF Asked
<1>7. call' # NoCall /\ Asked'
  BY <1>2, <1>6 DEF Asked, NoCall
<1>8. /\ found' \in Fields /\ Len(found') \in Nat /\ Len(found') >= m
      /\ \A i \in 1..m : found'[i] = found[i]
      /\ \A i \in 1..Len(found') : i \in 1..m \/ (i > Count /\ Permitted(conf, found'[i]))
  <2>1. found \in Seq(Keys \X Values)
    BY <1>2 DEF Gathered, Fields
  <2>2. CASE found' = found
    <3>1. found' \in Seq(Keys \X Values) /\ Len(found') = m /\ m >= m
      BY <1>2, <2>1, <2>2
    <3> QED
      BY <1>2, <2>2, <3>1 DEF Fields
  <2>3. CASE found' = Append(found, field) /\ Permitted(conf, field)
    <3> HIDE DEF field
    <3>1. /\ found' \in Seq(Keys \X Values) /\ Len(found') = m + 1 /\ found'[m + 1] = field
          /\ \A i \in 1..m : found'[i] = found[i]
      BY <1>3, <2>1, <2>3, AppendProperties
    <3> HIDE DEF m
    <3>2. \A i \in 1..(m + 1) : i \in 1..m \/ (i = m + 1 /\ i > Count)
      BY <1>2
    <3>3. m + 1 \in Nat /\ m + 1 >= m
      BY <1>2
    <3> QED
      BY <2>3, <3>1, <3>2, <3>3 DEF Fields
  <2> QED
    BY <1>4, <2>2, <2>3
<1>9. Len(listed) = Len(List) /\ offset = off[2 * Count + Len(listed)]
  BY <1>1, <1>2 DEF Gathered
<1>10. Gathered(off)'
  <2>1. listed' = listed /\ offset' = offset /\ listed \in Seq(Keys)
        /\ \A i \in 1..Len(listed) : listed[i] = List[i]
    BY <1>1, <1>2 DEF Gathered
  <2>2. ~(Len(found') < Count')
    <3> HIDE DEF m
    <3> QED
      BY <1>2, <1>5, <1>8
  <2>3. \A i \in 1..Len(found') : i <= Count' => found'[i] = Ordering'[i]
    <3> SUFFICES ASSUME NEW i \in 1..Len(found'), i <= Count
                 PROVE  found'[i] = Ordering[i]
      BY <1>5
    <3>1. i \in 1..m
      BY <1>2, <1>8
    <3> QED
      BY <1>2, <1>8, <3>1 DEF Gathered
  <2>4. Len(listed') = Len(List') /\ offset' = off[2 * Count' + Len(listed')]
        /\ Len(List') <= Len(List')
    BY <1>2, <1>5, <1>9, <2>1
  <2>5. \A i \in 1..Len(listed') : listed'[i] = List'[i]
    BY <1>5, <2>1
  <2> QED
    BY <1>8, <2>1, <2>2, <2>3, <2>4, <2>5 DEF Gathered
<1>11. ReaderInv(off)'
  <2>1. \A i \in 1..Len(found') : i > Count' => Permitted(conf, found[i])'
    <3> SUFFICES ASSUME NEW i \in 1..Len(found'), i > Count
                 PROVE  Permitted(conf, found'[i])
      BY <1>5
    <3>1. CASE i \in 1..m
      <4>1. Permitted(conf, found[i])
        BY <1>1, <3>1 DEF ReaderInv
      <4> QED
        BY <1>8, <3>1, <4>1
    <3> QED
      BY <1>8, <3>1
  <2> QED
    BY <1>2, <1>5, <1>7, <1>10, <2>1 DEF ReaderInv
<1> QED
  BY <1>1, <1>2, <1>11, WriterStays DEF IInv

LEMMA StutterStep ==
  ASSUME NEW off, NEW k, WriterInv(off, k), ReaderInv(off), UNCHANGED vars
  PROVE  IInv'
<1>1. UNCHANGED <<conf, unwritten, block, words, call, offset, found, listed>>
  BY DEF vars, writer, reader
<1>2. WriterInv(off, k)'
  BY <1>1 DEF WriterInv, Laid, Holds, ConfOK, Data, Words
<1>3. ReaderInv(off)'
  <2>1. Words(conf)' = Words(conf) /\ Asked' = Asked /\ \A f : Permitted(conf, f)' = Permitted(conf, f)
    BY <1>1 DEF Words, Asked, Permitted
  <2>2. Count' = Count /\ List' = List /\ Ordering' = Ordering
    BY <1>1 DEF Count, List, Ordering
  <2>3. Gathered(off)' = Gathered(off)
    BY <1>1, <2>2 DEF Gathered
  <2> QED
    BY <1>1, <2>1, <2>2, <2>3 DEF ReaderInv
<1> QED
  BY <1>2, <1>3 DEF IInv

LEMMA StepIInv == IInv /\ [Next]_vars => IInv'
<1> SUFFICES ASSUME IInv, [Next]_vars PROVE IInv'
  OBVIOUS
<1>1. PICK off, k : WriterInv(off, k) /\ ReaderInv(off)
  BY DEF IInv
<1>2. CASE WriteField
  BY <1>1, <1>2, WriteFieldStep
<1>3. CASE WriteWords
  BY <1>1, <1>3, WriteWordsStep
<1>4. CASE \E host \in HostFields : Call("get-all", 0, host)
  BY <1>1, <1>4, CallStep
<1>5. CASE \E host \in HostFields, key \in Keys : Call("get", key, host)
  BY <1>1, <1>5, CallStep
<1>6. CASE ReadOverride
  BY <1>1, <1>6, ReadOverrideStep
<1>7. CASE NoFallback
  <2>1. call # NoCall /\ UNCHANGED <<conf, writer>> /\ \E answer : Leave(answer)
    BY <1>7 DEF NoFallback, OverridesRead, Return
  <2> QED
    BY <1>1, <2>1, LeaveStep
<1>8. CASE ReadListed
  BY <1>1, <1>8, ReadListedStep
<1>9. CASE HostField
  BY <1>1, <1>9, HostFieldStep
<1>10. CASE HostFieldsRead
  <2>1. call # NoCall /\ UNCHANGED <<conf, writer>> /\ \E answer : Leave(answer)
    BY <1>10 DEF HostFieldsRead, ListRead, OverridesRead, Return
  <2> QED
    BY <1>1, <2>1, LeaveStep
<1>11. CASE GetHost
  <2>1. call # NoCall /\ UNCHANGED <<conf, writer>> /\ \E answer : Leave(answer)
    BY <1>11 DEF GetHost, ListRead, OverridesRead, Return
  <2> QED
    BY <1>1, <2>1, LeaveStep
<1>12. CASE HostFails
  <2>1. call # NoCall /\ UNCHANGED <<conf, writer>> /\ \E answer : Leave(answer)
    BY <1>12 DEF HostFails, ListRead, OverridesRead
  <2> QED
    BY <1>1, <2>1, LeaveStep
<1>13. CASE UNCHANGED vars
  BY <1>1, <1>13, StutterStep
<1> QED
  BY <1>2, <1>3, <1>4, <1>5, <1>6, <1>7, <1>8, <1>9, <1>10, <1>11, <1>12, <1>13
  DEF Next, Reader

-----------------------------------------------------------------------------
(***************************************************************************)
(* What the invariant says.                                                *)
(***************************************************************************)
LEMMA IInvInStep == IInv => InStep
<1> SUFFICES ASSUME IInv PROVE InStep
  OBVIOUS
<1>1. PICK off, k : WriterInv(off, k) /\ ReaderInv(off)
  BY DEF IInv
<1>2. ConfOK(conf) /\ Laid(off, k) /\ Holds(off, k) /\ block.len \in Nat /\ block.len >= off[k]
  <2>1. ConfOK(conf) /\ Laid(off, k) /\ Holds(off, k)
    BY <1>1 DEF WriterInv
  <2>2. k \in 0..k /\ off[k] \in Nat
    BY <2>1 DEF Laid
  <2>3. block.len = off[k] \/ (block.len \in Nat /\ block.len >= off[k])
    BY <1>1 DEF WriterInv
  <2> QED
    BY <2>1, <2>2, <2>3
<1>3. k \in Nat /\ k <= Len(Data) /\ Data \in Seq(Strings)
  BY <1>2, DataFacts DEF Laid
<1>4. ASSUME NEW o \in DOMAIN block.at
      PROVE  o % 4 = 0 /\ o + 4 + StrLen[block.at[o]] <= block.len
  <2>1. PICK i \in 0..(k - 1) : o = off[i] /\ block.at[o] = Data[i + 1]
    BY <1>2, <1>4 DEF Holds
  <2>2. i \in 0..k /\ k \in 0..k /\ i < k /\ i + 1 \in 1..Len(Data)
    BY <1>3, <2>1
  <2>3. off[i] \in Nat /\ off[k] \in Nat /\ off[i] % 4 = 0
        /\ off[i] + 4 + StrLen[Data[i + 1]] <= off[k]
    BY <1>2, <2>2 DEF Laid
  <2>4. StrLen[Data[i + 1]] \in Nat
    BY <1>3, <2>2, LenOf
  <2> QED
    BY <1>2, <2>1, <2>3, <2>4
<1>5. ASSUME call # NoCall,
             \/ Len(found) < words.host_field_cnt
             \/ words.host_fallback /\ Len(listed) < words.host_allow_or_deny_cnt
      PROVE  /\ offset \in DOMAIN block.at
             /\ Len(found) < words.host_field_cnt => After(offset) \in DOMAIN block.at
  <2>1. /\ Gathered(off)
        /\ words.host_field_cnt = Count /\ words.host_allow_or_deny_cnt = Len(List)
        /\ Count \in Nat /\ Len(List) \in Nat /\ k = 2 * Count + Len(List)
        /\ Len(found) \in Nat /\ Len(listed) \in Nat
    BY <1>1, <1>5, Running
  <2>2. CASE Len(found) < Count
    <3> DEFINE m == Len(found)
    <3>1. offset = off[2 * m]
      BY <2>1, <2>2 DEF Gathered
    <3> HIDE DEF m
    <3>2. 2 * m \in 0..(k - 1) /\ 2 * m + 1 \in 0..(k - 1)
      BY <2>1, <2>2 DEF m
    <3>3. offset \in DOMAIN block.at /\ After(offset) = off[2 * m + 1]
      BY <1>2, <3>1, <3>2, AfterIs
    <3>4. off[2 * m + 1] \in DOMAIN block.at
      BY <1>2, <3>2, AfterIs
    <3> QED
      BY <3>3, <3>4
  <2>3. CASE Len(found) >= Count
    <3> DEFINE m == Len(listed)
    <3>1. offset = off[2 * Count + m]
      BY <2>1, <2>3 DEF Gathered
    <3>2. m < Len(List) /\ m \in Nat
      BY <1>5, <2>1, <2>3
    <3> HIDE DEF m
    <3>3. 2 * Count + m \in 0..(k - 1)
      BY <2>1, <3>2
    <3>4. offset \in DOMAIN block.at
      BY <1>2, <3>1, <3>3, AfterIs
    <3>5. ~(Len(found) < words.host_field_cnt)
      BY <2>1, <2>3
    <3> QED
      BY <3>4, <3>5
  <2> QED
    BY <2>1, <2>2, <2>3
<1> QED
  BY <1>4, <1>5 DEF InStep

LEMMA IInvSearchesOrdered == IInv => SearchesOrdered
BY Searched DEF IInv, SearchesOrdered

LEMMA IInvNothingLeaks == IInv => NothingLeaks
<1> SUFFICES ASSUME IInv, words.written,
                    NEW i \in (words.host_field_cnt + 1)..Len(found)
             PROVE  Permitted(conf, found[i])
  BY DEF NothingLeaks
<1>1. PICK off, k : WriterInv(off, k) /\ ReaderInv(off)
  BY DEF IInv
<1>2. ConfOK(conf) /\ words = Words(conf)
  <2>1. ConfOK(conf) /\ (words = NoWords \/ words = Words(conf))
    BY <1>1 DEF WriterInv
  <2> QED
    BY <2>1, WordsAre
<1>3. words.host_field_cnt = Count /\ Count \in Nat
  BY <1>2, WordsAre, DataFacts
<1>4. CASE call = NoCall
  <2>1. Len(found) = 0
    BY <1>1, <1>4 DEF ReaderInv
  <2> QED
    BY <1>3, <2>1
<1>5. CASE call # NoCall
  <2>1. i \in 1..Len(found) /\ i > Count
    <3>1. Len(found) \in Nat
      BY <1>1, <1>5, Running
    <3> QED
      BY <1>3, <3>1
  <2> QED
    BY <1>1, <1>5, <2>1 DEF ReaderInv
<1> QED
  BY <1>4, <1>5

THEOREM Inductive == Spec => []IInv
BY InitIInv, StepIInv, PTL DEF Spec

\* As long as strings are left to read there is one of the writer's at the
\* offset: the offsets read_data_str (env.rs, config.rs) steps through are those
\* create_env_virt and create_config_virt wrote at, whatever the strings are.
THEOREM ReadsInStep == Spec => []InStep
BY Inductive, IInvInStep, PTL

\* What binary_search is used on is sorted, as the comment on the fallback
\* assumes.
THEOREM SearchesAreOrdered == Spec => []SearchesOrdered
BY Inductive, IInvSearchesOrdered, PTL

\* A variable or property of the host's that an override hides, that is denied,
\* or that is not allowed is in no list the adapter gathers for the guest.
THEOREM LeaksNothing == Spec => []NothingLeaks
BY Inductive, IInvNothingLeaks, PTL

-----------------------------------------------------------------------------
(***************************************************************************)
(* Induction over an interval.                                             *)
(***************************************************************************)
LEMMA Least ==
  ASSUME NEW T, T \subseteq Nat, T # {}
  PROVE  \E x \in T : \A y \in T : x <= y
<1> DEFINE R == OpToRel(<, Nat)
<1>1. PICK x \in T : \A y \in T : ~(<<y, x>> \in R)
  <2>1. IsWellFoundedOn(R, Nat)
    BY NatLessThanWellFounded
  <2> HIDE DEF R
  <2> QED
    BY <2>1, WFMin
<1>2. \A y \in T : ~(y < x)
  BY <1>1 DEF OpToRel
<1> QED
  BY <1>2

LEMMA UpToInduction ==
  ASSUME NEW n \in Nat, NEW S, 0 \in S,
         \A k \in 0..(n - 1) : k \in S => k + 1 \in S
  PROVE  \A k \in 0..n : k \in S
<1> SUFFICES ASSUME (0..n) \ S # {} PROVE FALSE
  OBVIOUS
<1>1. PICK k \in (0..n) \ S : \A m \in (0..n) \ S : k <= m
  <2>1. (0..n) \ S \subseteq Nat
    OBVIOUS
  <2> QED
    BY <2>1, Least
<1>2. k # 0 /\ k - 1 \in 0..(n - 1) /\ (k - 1) + 1 = k
  OBVIOUS
<1>3. k - 1 \in S
  BY <1>1, <1>2
<1> QED
  BY <1>2, <1>3

-----------------------------------------------------------------------------
(***************************************************************************)
(* What a configuration promises: the recursion of ShownOf, and the first  *)
(* field with a key.                                                       *)
(***************************************************************************)
ShownAfter(c, before, field) ==
  IF Permitted(c, field) THEN Append(before, field) ELSE before

ShownUpTo(c, host, n, g) ==
  g = [m \in 0..n |-> IF m = 0 THEN <<>> ELSE ShownAfter(c, g[m - 1], host[m])]

LEMMA ShownExists ==
  ASSUME NEW c, NEW host, NEW n \in Nat
  PROVE  \E g : ShownUpTo(c, host, n, g)
<1> DEFINE S == {m \in 0..n : \E g : ShownUpTo(c, host, m, g)}
<1>1. 0 \in S
  <2> DEFINE g == [m \in 0..0 |-> <<>>]
  <2>1. ShownUpTo(c, host, 0, g)
    BY DEF ShownUpTo
  <2> QED
    BY <2>1
<1>2. ASSUME NEW m \in 0..(n - 1), m \in S
      PROVE  m + 1 \in S
  <2>1. PICK g : ShownUpTo(c, host, m, g)
    BY <1>2
  <2> DEFINE h == [l \in 0..(m + 1) |->
                     IF l = m + 1 THEN ShownAfter(c, g[m], host[m + 1]) ELSE g[l]]
  <2>2. ASSUME NEW l \in 0..(m + 1)
        PROVE  h[l] = IF l = 0 THEN <<>> ELSE ShownAfter(c, h[l - 1], host[l])
    BY <2>1 DEF ShownUpTo
  <2>3. ShownUpTo(c, host, m + 1, h)
    BY <2>2 DEF ShownUpTo
  <2> QED
    BY <2>3
<1> HIDE DEF S
<1>3. n \in S
  BY <1>1, <1>2, UpToInduction
<1> QED
  BY <1>3 DEF S

LEMMA ShownSteps ==
  ASSUME NEW c, NEW host \in Fields
  PROVE  LET shown == ShownOf(c, host)
         IN  /\ shown[0] = <<>>
             /\ \A m \in 1..Len(host) : shown[m] = ShownAfter(c, shown[m - 1], host[m])
<1> DEFINE n == Len(host)
           F == CHOOSE g : ShownUpTo(c, host, n, g)
<1>1. n \in Nat
  BY DEF Fields
<1>2. ShownUpTo(c, host, n, F)
  BY <1>1, ShownExists
<1>3. ShownOf(c, host) = F
  BY DEF ShownOf, ShownUpTo, ShownAfter
<1> HIDE DEF F, n
<1>4. F = [m \in 0..n |-> IF m = 0 THEN <<>> ELSE ShownAfter(c, F[m - 1], host[m])]
  BY <1>2 DEF ShownUpTo
<1>5. 0 \in 0..n /\ \A m \in 1..n : m \in 0..n /\ m # 0
  BY <1>1
<1>6. F[0] = <<>> /\ \A m \in 1..n : F[m] = ShownAfter(c, F[m - 1], host[m])
  BY <1>4, <1>5
<1> QED
  BY <1>3, <1>6 DEF n

\* What is shown of the first m fields are fields of the host's, all permitted.
LEMMA ShownAll ==
  ASSUME NEW c, NEW host \in Fields, NEW m \in 0..Len(host)
  PROVE  /\ ShownOf(c, host)[m] \in Fields
         /\ \A j \in 1..Len(ShownOf(c, host)[m]) : Permitted(c, ShownOf(c, host)[m][j])
<1> DEFINE n == Len(host)
           shown == ShownOf(c, host)
           S == {i \in 0..n : /\ shown[i] \in Seq(Keys \X Values)
                              /\ \A j \in 1..Len(shown[i]) : Permitted(c, shown[i][j])}
<1>1. n \in Nat /\ \A i \in 1..n : host[i] \in Keys \X Values
  BY DEF Fields
<1>2. shown[0] = <<>> /\ \A i \in 1..n : shown[i] = ShownAfter(c, shown[i - 1], host[i])
  BY ShownSteps
<1> HIDE DEF shown
<1>3. 0 \in S
  <2>1. shown[0] \in Seq(Keys \X Values) /\ 1..Len(shown[0]) = {} /\ 0 \in 0..n
    BY <1>1, <1>2
  <2> QED
    BY <2>1
<1>4. ASSUME NEW i \in 0..(n - 1), i \in S
      PROVE  i + 1 \in S
  <2>1. i + 1 \in 1..n /\ i + 1 \in 0..n /\ (i + 1) - 1 = i
    BY <1>1
  <2>2. shown[i + 1] = ShownAfter(c, shown[i], host[i + 1]) /\ host[i + 1] \in Keys \X Values
    BY <1>1, <1>2, <2>1
  <2> DEFINE s == shown[i]
             f == host[i + 1]
  <2>3. s \in Seq(Keys \X Values) /\ \A j \in 1..Len(s) : Permitted(c, s[j])
    BY <1>4
  <2> HIDE DEF s, f
  <2>4. CASE Permitted(c, f)
    <3>1. /\ Append(s, f) \in Seq(Keys \X Values) /\ Len(Append(s, f)) = Len(s) + 1
          /\ Append(s, f)[Len(s) + 1] = f
          /\ \A j \in 1..Len(s) : Append(s, f)[j] = s[j]
      BY <2>2, <2>3, AppendProperties DEF f
    <3>2. \A j \in 1..(Len(s) + 1) : j \in 1..Len(s) \/ j = Len(s) + 1
      BY <2>3
    <3>3. shown[i + 1] = Append(s, f)
      BY <2>2, <2>4 DEF ShownAfter, s, f
    <3> QED
      BY <2>1, <2>3, <2>4, <3>1, <3>2, <3>3
  <2>5. CASE ~Permitted(c, f)
    BY <2>1, <2>2, <2>3, <2>5 DEF ShownAfter, s, f
  <2> QED
    BY <2>4, <2>5
<1> HIDE DEF S
<1>5. \A i \in 0..n : i \in S
  BY <1>1, <1>3, <1>4, UpToInduction
<1> QED
  BY <1>5 DEF S, Fields, shown

\* A configuration that permits nothing shows nothing.
LEMMA ShownNone ==
  ASSUME NEW c, NEW host \in Fields, \A f : ~Permitted(c, f), NEW m \in 0..Len(host)
  PROVE  ShownOf(c, host)[m] = <<>>
<1> DEFINE shown == ShownOf(c, host)[m]
<1>1. shown \in Seq(Keys \X Values) /\ \A j \in 1..Len(shown) : Permitted(c, shown[j])
  BY ShownAll DEF Fields
<1> HIDE DEF shown
<1>2. 1..Len(shown) = {} /\ Len(shown) \in Nat
  BY <1>1
<1>3. Len(shown) = 0
  BY <1>2
<1> QED
  BY <1>1, <1>3 DEF shown

LEMMA FirstAt ==
  ASSUME NEW fields, Len(fields) \in Nat, NEW key, NEW i \in 1..Len(fields),
         fields[i][1] = key, \A j \in 1..(i - 1) : fields[j][1] # key
  PROVE  First(fields, key) = <<fields[i]>>
<1> DEFINE at == {j \in 1..Len(fields) : fields[j][1] = key}
           least == CHOOSE j \in at : \A l \in at : j <= l
<1>1. i \in at /\ \A l \in at : i <= l
  OBVIOUS
<1>2. least \in at /\ \A l \in at : least <= l
  BY <1>1
<1>3. least = i
  BY <1>1, <1>2
<1>4. at # {}
  BY <1>1
<1> QED
  BY <1>3, <1>4 DEF First

LEMMA FirstNone ==
  ASSUME NEW fields, NEW key, \A j \in 1..Len(fields) : fields[j][1] # key
  PROVE  First(fields, key) = <<>>
BY DEF First

LEMMA ConcatAppends ==
  ASSUME NEW a \in Fields, NEW b \in Fields, NEW x \in Keys \X Values
  PROVE  a \o Append(b, x) = Append(a \o b, x)
BY DEF Fields

LEMMA ConcatNone ==
  ASSUME NEW S, NEW a \in Seq(S)
  PROVE  a \o <<>> = a
OBVIOUS

LEMMA Concatenated ==
  ASSUME NEW a \in Fields, NEW b \in Fields
  PROVE  /\ Len(a \o b) = Len(a) + Len(b) /\ Len(a) \in Nat /\ Len(b) \in Nat
         /\ \A i \in 1..Len(a) : (a \o b)[i] = a[i]
         /\ \A i \in 1..Len(b) : (a \o b)[Len(a) + i] = b[i]
BY DEF Fields

\* Where the first is past some fields that have not the key.
LEMMA FirstAfter ==
  ASSUME NEW a \in Fields, NEW b \in Fields, NEW key,
         \A i \in 1..Len(a) : a[i][1] # key
  PROVE  First(a \o b, key) = First(b, key)
<1> DEFINE m == Len(a)
           n == Len(b)
           ab == a \o b
<1>1. /\ Len(ab) = m + n /\ m \in Nat /\ n \in Nat
      /\ \A i \in 1..m : ab[i] = a[i]
      /\ \A i \in 1..n : ab[m + i] = b[i]
  BY Concatenated
<1> HIDE DEF ab, m, n
<1>2. CASE \A i \in 1..n : b[i][1] # key
  <2>1. ASSUME NEW i \in 1..Len(ab) PROVE ab[i][1] # key
    <3>1. CASE i \in 1..m
      BY <1>1, <3>1 DEF m
    <3>2. CASE i \notin 1..m
      <4>1. i - m \in 1..n /\ m + (i - m) = i
        BY <1>1, <3>2
      <4>2. ab[i] = b[i - m]
        BY <1>1, <4>1
      <4> QED
        BY <1>2, <4>1, <4>2
    <3> QED
      BY <3>1, <3>2
  <2>2. First(ab, key) = <<>>
    BY <2>1, FirstNone
  <2>3. First(b, key) = <<>>
    BY <1>2, FirstNone DEF n
  <2> QED
    BY <2>2, <2>3 DEF ab
<1>3. CASE \E i \in 1..n : b[i][1] = key
  <2> DEFINE at == {i \in 1..n : b[i][1] = key}
  <2>1. PICK i \in at : \A j \in at : i <= j
    <3>1. at \subseteq Nat /\ at # {}
      BY <1>3
    <3> HIDE DEF at
    <3> QED
      BY <3>1, Least
  <2>2. i \in 1..n /\ b[i][1] = key /\ \A j \in 1..(i - 1) : b[j][1] # key
    <3>1. i \in 1..n /\ b[i][1] = key
      BY <2>1
    <3>2. ASSUME NEW j \in 1..(i - 1), b[j][1] = key PROVE FALSE
      <4>1. j \in at
        BY <1>1, <3>1, <3>2
      <4> QED
        BY <1>1, <2>1, <3>1, <4>1
    <3> QED
      BY <3>1, <3>2
  <2> HIDE DEF at
  <2>3. m + i \in 1..Len(ab) /\ ab[m + i] = b[i] /\ Len(ab) \in Nat
    BY <1>1, <2>2
  <2>4. ASSUME NEW j \in 1..((m + i) - 1) PROVE ab[j][1] # key
    <3>1. CASE j \in 1..m
      BY <1>1, <3>1 DEF m
    <3>2. CASE j \notin 1..m
      <4>1. j - m \in 1..(i - 1) /\ j - m \in 1..n /\ m + (j - m) = j
        BY <1>1, <2>2, <3>2
      <4>2. ab[j] = b[j - m]
        BY <1>1, <4>1
      <4> QED
        BY <2>2, <4>1, <4>2
    <3> QED
      BY <3>1, <3>2
  <2>5. First(ab, key) = <<ab[m + i]>>
    BY <2>2, <2>3, <2>4, FirstAt
  <2>6. First(b, key) = <<b[i]>>
    BY <1>1, <2>2, FirstAt DEF n
  <2> QED
    BY <2>3, <2>5, <2>6 DEF ab
<1> QED
  BY <1>2, <1>3

\* The first m fields of the host's and what is shown of them have the same
\* first field with a key.
Alike(host, m, shown, key) ==
  \/ /\ \A i \in 1..m : host[i][1] # key
     /\ \A j \in 1..Len(shown) : shown[j][1] # key
  \/ \E i \in 1..m, j \in 1..Len(shown) :
       /\ host[i][1] = key /\ shown[j] = host[i]
       /\ \A l \in 1..(i - 1) : host[l][1] # key
       /\ \A l \in 1..(j - 1) : shown[l][1] # key

LEMMA AlikeAfter ==
  ASSUME NEW c, NEW host \in Fields, NEW key, \A f : f[1] = key => Permitted(c, f),
         NEW m \in 0..(Len(host) - 1), NEW s \in Fields, Alike(host, m, s, key)
  PROVE  Alike(host, m + 1, ShownAfter(c, s, host[m + 1]), key)
<1> DEFINE f == host[m + 1]
           t == ShownAfter(c, s, f)
<1>1. /\ m \in Nat /\ m + 1 \in 1..Len(host) /\ f \in Keys \X Values
      /\ s \in Seq(Keys \X Values) /\ Len(s) \in Nat
  BY DEF Fields
<1>2. t = s \/ t = Append(s, f)
  BY DEF ShownAfter
<1>3. f[1] = key => t = Append(s, f)
  BY DEF ShownAfter
<1> HIDE DEF t
<1>4. /\ Len(t) \in Nat /\ Len(s) <= Len(t)
      /\ \A j \in 1..Len(s) : j \in 1..Len(t) /\ t[j] = s[j]
      /\ \A j \in 1..Len(t) : j \in 1..Len(s) \/ (j = Len(s) + 1 /\ t[j] = f)
  <2>1. CASE t = s
    BY <1>1, <2>1
  <2>2. CASE t = Append(s, f)
    <3> HIDE DEF f
    <3>1. /\ Len(t) = Len(s) + 1 /\ t[Len(s) + 1] = f
          /\ \A j \in 1..Len(s) : t[j] = s[j]
      BY <1>1, <2>2, AppendProperties
    <3> QED
      BY <1>1, <3>1
  <2> QED
    BY <1>2, <2>1, <2>2
<1>5. CASE \E i \in 1..m, j \in 1..Len(s) :
             /\ host[i][1] = key /\ s[j] = host[i]
             /\ \A l \in 1..(i - 1) : host[l][1] # key
             /\ \A l \in 1..(j - 1) : s[l][1] # key
  <2>1. PICK i \in 1..m, j \in 1..Len(s) :
             /\ host[i][1] = key /\ s[j] = host[i]
             /\ \A l \in 1..(i - 1) : host[l][1] # key
             /\ \A l \in 1..(j - 1) : s[l][1] # key
    BY <1>5
  <2>2. i \in 1..(m + 1) /\ j \in 1..Len(t) /\ t[j] = host[i]
    <3>1. i \in 1..(m + 1)
      BY <1>1
    <3>2. j \in 1..Len(t) /\ t[j] = s[j]
      BY <1>4
    <3> QED
      BY <2>1, <3>1, <3>2
  <2>3. \A l \in 1..(j - 1) : l \in 1..Len(s)
    BY <1>1, <2>1
  <2>4. \A l \in 1..(j - 1) : t[l][1] # key
    BY <1>4, <2>1, <2>3
  <2> QED
    BY <2>1, <2>2, <2>4 DEF Alike, t
<1>6. CASE /\ \A i \in 1..m : host[i][1] # key
           /\ \A j \in 1..Len(s) : s[j][1] # key
  <2>1. \A i \in 1..(m + 1) : i \in 1..m \/ i = m + 1
    BY <1>1
  <2>2. CASE f[1] # key
    <3>1. \A i \in 1..(m + 1) : host[i][1] # key
      BY <1>6, <2>1, <2>2
    <3>2. \A j \in 1..Len(t) : t[j][1] # key
      BY <1>4, <1>6, <2>2
    <3> QED
      BY <3>1, <3>2 DEF Alike, t
  <2>3. CASE f[1] = key
    <3>1. t = Append(s, f)
      BY <1>3, <2>3
    <3>2. Len(t) = Len(s) + 1 /\ t[Len(s) + 1] = f
      BY <1>1, <3>1, AppendProperties
    <3>3. /\ m + 1 \in 1..(m + 1) /\ Len(s) + 1 \in 1..Len(t)
          /\ (m + 1) - 1 = m /\ (Len(s) + 1) - 1 = Len(s)
      BY <1>1, <3>2
    <3>4. \A l \in 1..Len(s) : t[l][1] # key
      BY <1>4, <1>6
    <3> QED
      BY <1>6, <2>3, <3>2, <3>3, <3>4 DEF Alike, t
  <2> QED
    BY <2>2, <2>3
<1> QED
  BY <1>5, <1>6 DEF Alike

\* What is permitted of a key whatever its value is not lost on the way.
LEMMA FirstShown ==
  ASSUME NEW c, NEW host \in Fields, NEW key, \A f : f[1] = key => Permitted(c, f)
  PROVE  First(ShownOf(c, host)[Len(host)], key) = First(host, key)
<1> DEFINE n == Len(host)
           shown == ShownOf(c, host)
           S == {m \in 0..n : Alike(host, m, shown[m], key)}
<1>1. n \in Nat
  BY DEF Fields
<1>2. shown[0] = <<>> /\ \A m \in 1..n : shown[m] = ShownAfter(c, shown[m - 1], host[m])
  BY ShownSteps
<1>3. \A m \in 0..n : shown[m] \in Fields
  BY ShownAll
<1> HIDE DEF shown
<1>4. 0 \in S
  <2>1. 1..0 = {} /\ 1..Len(shown[0]) = {} /\ 0 \in 0..n
    BY <1>1, <1>2
  <2> QED
    BY <2>1 DEF Alike
<1>5. ASSUME NEW m \in 0..(n - 1), m \in S
      PROVE  m + 1 \in S
  <2>1. m + 1 \in 1..n /\ m + 1 \in 0..n /\ m \in 0..n /\ (m + 1) - 1 = m
    BY <1>1
  <2>2. shown[m + 1] = ShownAfter(c, shown[m], host[m + 1]) /\ shown[m] \in Fields
    BY <1>2, <1>3, <2>1
  <2>3. Alike(host, m, shown[m], key)
    BY <1>5
  <2>4. Alike(host, m + 1, ShownAfter(c, shown[m], host[m + 1]), key)
    BY <2>2, <2>3, AlikeAfter
  <2> QED
    BY <2>1, <2>2, <2>4
<1> HIDE DEF S, n
<1>6. n \in S
  <2>1. \A m \in 0..n : m \in S
    BY <1>1, <1>4, <1>5, UpToInduction
  <2> QED
    BY <1>1, <2>1
<1> DEFINE s == shown[n]
<1>7. Alike(host, n, s, key) /\ s \in Fields /\ Len(s) \in Nat
  BY <1>1, <1>3, <1>6 DEF S, Fields
<1> HIDE DEF s
<1>8. CASE /\ \A i \in 1..n : host[i][1] # key
           /\ \A j \in 1..Len(s) : s[j][1] # key
  BY <1>8, FirstNone DEF s, shown, n
<1>9. CASE \E i \in 1..n, j \in 1..Len(s) :
             /\ host[i][1] = key /\ s[j] = host[i]
             /\ \A l \in 1..(i - 1) : host[l][1] # key
             /\ \A l \in 1..(j - 1) : s[l][1] # key
  <2>1. PICK i \in 1..n, j \in 1..Len(s) :
             /\ host[i][1] = key /\ s[j] = host[i]
             /\ \A l \in 1..(i - 1) : host[l][1] # key
             /\ \A l \in 1..(j - 1) : s[l][1] # key
    BY <1>9
  <2>2. First(host, key) = <<host[i]>>
    BY <1>1, <2>1, FirstAt DEF n
  <2>3. First(s, key) = <<s[j]>>
    BY <1>7, <2>1, FirstAt
  <2> QED
    BY <2>1, <2>2, <2>3 DEF s, shown, n
<1> QED
  BY <1>7, <1>8, <1>9 DEF Alike

-----------------------------------------------------------------------------
(***************************************************************************)
(* What the adapter has gathered, exactly: the overrides, and of the       *)
(* host's fields looked at what is permitted.                              *)
(***************************************************************************)
Exact ==
  /\ ReadsExact
  /\ call # NoCall =>
       /\ call.next <= Len(call.host) + 1
       /\ call.op = "get" => call.next = 1 /\ \A i \in 1..Len(found) : found[i][1] # call.key
       /\ Len(found) < Count => call.next = 1
       /\ Len(found) >= Count => found = Ordering \o ShownOf(conf, call.host)[call.next - 1]

LEMMA NextBounds ==
  ASSUME NEW off, NEW k, WriterInv(off, k), ReaderInv(off), Exact, call # NoCall
  PROVE  /\ call.host \in Fields /\ Len(call.host) \in Nat
         /\ call.next \in 1..(Len(call.host) + 1) /\ call.next - 1 \in 0..Len(call.host)
         /\ Ordering \in Fields /\ Len(Ordering) = Count /\ Count \in Nat
         /\ ShownOf(conf, call.host)[call.next - 1] \in Fields
         /\ ShownOf(conf, call.host)[Len(call.host)] \in Fields
         /\ Promised(conf, call.host)
              = Ordering \o ShownOf(conf, call.host)[Len(call.host)]
<1>1. call.host \in Fields /\ call.next \in Nat \ {0} /\ ConfOK(conf)
  BY Running DEF Asked
<1>2. Len(call.host) \in Nat
  BY <1>1 DEF Fields
<1>3. call.next \in 1..(Len(call.host) + 1) /\ call.next - 1 \in 0..Len(call.host)
      /\ Len(call.host) \in 0..Len(call.host)
  BY <1>1, <1>2 DEF Exact
<1>4. Ordering \in Fields /\ Len(Ordering) = Count /\ Count \in Nat
  <2>1. conf.overrides \in Fields
    BY <1>1 DEF ConfOK
  <2>2. SortedOverrides(conf.overrides) \in Fields
        /\ Len(SortedOverrides(conf.overrides)) = Len(conf.overrides)
    BY <2>1, SortedFields
  <2> QED
    BY <2>1, <2>2 DEF Ordering, Count, Fields
<1>5. /\ ShownOf(conf, call.host)[call.next - 1] \in Fields
      /\ ShownOf(conf, call.host)[Len(call.host)] \in Fields
  BY <1>1, <1>3, ShownAll
<1>6. Promised(conf, call.host) = Ordering \o ShownOf(conf, call.host)[Len(call.host)]
  BY DEF Promised, Ordering, SortedOverrides
<1> QED
  BY <1>1, <1>2, <1>3, <1>4, <1>5, <1>6

\* A call returns what was promised for it, and none is left.
LEMMA ReturnsExact ==
  ASSUME NEW off, NEW k, WriterInv(off, k), ReaderInv(off),
         call # NoCall, conf' = conf, NEW fields, Return(fields),
         call.op = "get-all" => fields = Promised(conf, call.host),
         call.op = "get" => fields = First(Promised(conf, call.host), call.key)
  PROVE  Exact'
<1>1. /\ result' = [op |-> call.op, key |-> call.key, host |-> call.host, fields |-> fields]
      /\ call' = NoCall
  BY DEF Return, Leave
<1>2. Promised(conf, result.host)' = Promised(conf, call.host)
  BY <1>1
<1>3. ReadsExact'
  <2>1. result'.op # Failed.all /\ result'.op # Failed.get
    BY <1>1, Running DEF Asked, Failed
  <2> QED
    BY <1>1, <1>2, <2>1 DEF ReadsExact
<1> QED
  BY <1>1, <1>3 DEF Exact

LEMMA FoundExact ==
  ASSUME NEW off, NEW k, WriterInv(off, k), ReaderInv(off), Exact, OverridesRead
  PROVE  /\ call # NoCall
         /\ Len(found) >= Count
         /\ found = Ordering \o ShownOf(conf, call.host)[call.next - 1]
         /\ call.op = "get" => /\ call.next = 1 /\ found = Ordering
                               /\ \A i \in 1..Count : Ordering[i][1] # call.key
<1>1. call # NoCall /\ Len(found) >= Count
  BY Running DEF OverridesRead
<1>2. found = Ordering \o ShownOf(conf, call.host)[call.next - 1]
  BY <1>1 DEF Exact
<1>3. ASSUME call.op = "get"
      PROVE  /\ call.next = 1 /\ found = Ordering
             /\ \A i \in 1..Count : Ordering[i][1] # call.key
  <2>1. call.next = 1 /\ \A i \in 1..Len(found) : found[i][1] # call.key
    BY <1>1, <1>3 DEF Exact
  <2>2. ShownOf(conf, call.host)[call.next - 1] = <<>>
    <3>1. call.next - 1 = 0 /\ call.host \in Fields
      BY <1>1, <2>1, NextBounds
    <3> QED
      BY <3>1, ShownSteps
  <2>3. Ordering \in Seq(Keys \X Values) /\ Len(Ordering) = Count
    BY <1>1, NextBounds DEF Fields
  <2>4. found = Ordering
    BY <1>2, <2>2, <2>3, ConcatNone
  <2> QED
    BY <2>1, <2>3, <2>4
<1> QED
  BY <1>1, <1>2, <1>3

\* A call that stays in hand, and neither returned nor gathered.
LEMMA KeepsExact ==
  ASSUME Exact, UNCHANGED <<conf, call, found, result>>
  PROVE  Exact'
<1>1. /\ Count' = Count /\ Ordering' = Ordering
      /\ ShownOf(conf, call.host)' = ShownOf(conf, call.host)
      /\ Promised(conf, result.host)' = Promised(conf, result.host)
      /\ Permitted(conf, <<result.key>>)' = Permitted(conf, <<result.key>>)
  BY DEF Count, Ordering, Permitted
<1>2. ReadsExact'
  BY <1>1 DEF Exact, ReadsExact
<1>3. NoCall' = NoCall
  OBVIOUS
<1> QED
  BY <1>1, <1>2, <1>3 DEF Exact

LEMMA CallExact ==
  ASSUME IInv, Exact, NEW op, NEW key, NEW host \in HostFields, Call(op, key, host)
  PROVE  Exact'
<1>1. /\ call' = [op |-> op, key |-> key, host |-> host, next |-> 1] /\ result' = NoResult
      /\ conf' = conf /\ found' = found /\ call = NoCall
  BY DEF Call
<1>2. PICK off, k : WriterInv(off, k) /\ ReaderInv(off)
  BY DEF IInv
<1>3. found = <<>> /\ ConfOK(conf)
  BY <1>1, <1>2 DEF ReaderInv, WriterInv
<1>4. Len(host) \in Nat /\ host \in Fields
  BY FieldsAssumption DEF Fields
<1>5. Count' = Count /\ Ordering' = Ordering /\ Count \in Nat
  BY <1>1, <1>3, DataFacts DEF Count, Ordering
<1>6. ReadsExact'
  BY <1>1 DEF ReadsExact, NoResult, Failed
<1>7. Len(found') >= Count' => found' = Ordering' \o ShownOf(conf', call'.host)[call'.next - 1]
  <2> SUFFICES ASSUME Count = 0
               PROVE  found = Ordering \o ShownOf(conf, host)[0]
    BY <1>1, <1>3, <1>5
  <2>1. conf.overrides \in Fields
    BY <1>3 DEF ConfOK
  <2>2. Ordering \in Seq(Keys \X Values) /\ Len(Ordering) = 0
    BY <2>1, SortedFields DEF Ordering, Count, Fields
  <2>3. ShownOf(conf, host)[0] = <<>>
    BY <1>4, ShownSteps
  <2> QED
    BY <1>3, <2>2, <2>3
<1>8. Len(found') = 0 /\ call'.next = 1 /\ call'.host = host
  BY <1>1, <1>3
<1>9. /\ call'.next <= Len(call'.host) + 1
      /\ call'.op = "get" =>
           call'.next = 1 /\ \A i \in 1..Len(found') : found'[i][1] # call'.key
  BY <1>4, <1>8
<1> QED
  BY <1>6, <1>7, <1>8, <1>9 DEF Exact

LEMMA ReadOverrideExact ==
  ASSUME IInv, Exact, ReadOverride
  PROVE  Exact'
<1> DEFINE m == Len(found)
           key == block.at[offset]
           value == block.at[After(offset)]
<1>1. /\ call # NoCall /\ m < words.host_field_cnt /\ conf' = conf
      /\ \/ call.op = "get" /\ key = call.key /\ Return(<<<<key, value>>>>)
         \/ /\ ~(call.op = "get" /\ key = call.key)
            /\ found' = Append(found, <<key, value>>)
            /\ UNCHANGED <<call, listed, result>>
  BY DEF ReadOverride
<1>2. PICK off, k : WriterInv(off, k) /\ ReaderInv(off)
  BY DEF IInv
<1>3. /\ ConfOK(conf) /\ k = 2 * Count + Len(List)
      /\ Laid(off, k) /\ Holds(off, k) /\ Gathered(off)
      /\ words.host_field_cnt = Count /\ Count \in Nat /\ Len(List) \in Nat /\ m \in Nat
  BY <1>1, <1>2, Running
<1>4. /\ call.host \in Fields /\ Ordering \in Seq(Keys \X Values) /\ Len(Ordering) = Count
      /\ found \in Seq(Keys \X Values) /\ m < Count
      /\ ShownOf(conf, call.host)[Len(call.host)] \in Fields
      /\ Promised(conf, call.host)
           = Ordering \o ShownOf(conf, call.host)[Len(call.host)]
  BY <1>1, <1>2, <1>3, NextBounds DEF Gathered, Fields
<1>5. key = Ordering[m + 1][1] /\ value = Ordering[m + 1][2] /\ m + 1 \in 1..Count
  <2>1. offset = off[2 * m]
    BY <1>3, <1>4 DEF Gathered
  <2> HIDE DEF m
  <2>2. 2 * m \in 0..(k - 1) /\ 2 * m + 1 \in 0..(k - 1) /\ m + 1 \in 1..Count
        /\ (2 * m) + 1 = 2 * (m + 1) - 1 /\ (2 * m + 1) + 1 = 2 * (m + 1)
    BY <1>3, <1>4
  <2>3. key = Data[2 * m + 1] /\ After(offset) = off[2 * m + 1]
    BY <1>3, <2>1, <2>2, AfterIs
  <2>4. value = Data[(2 * m + 1) + 1]
    BY <1>3, <2>2, <2>3, AfterIs
  <2>5. Data[2 * (m + 1) - 1] = Ordering[m + 1][1] /\ Data[2 * (m + 1)] = Ordering[m + 1][2]
    BY <1>3, <2>2, DataFacts
  <2> QED
    BY <2>2, <2>3, <2>4, <2>5
<1>6. <<key, value>> = Ordering[m + 1] /\ Ordering[m + 1] \in Keys \X Values
  <2>1. Ordering[m + 1] \in Keys \X Values
    BY <1>4, <1>5
  <2> HIDE DEF key, value
  <2> QED
    BY <1>5, <2>1
<1>7. \A i \in 1..m : found[i] = Ordering[i]
  BY <1>3, <1>4 DEF Gathered
<1> HIDE DEF key, value
<1>8. CASE call.op = "get" /\ key = call.key /\ Return(<<<<key, value>>>>)
  <2> DEFINE rest == ShownOf(conf, call.host)[Len(call.host)]
             all == Ordering \o rest
  <2>1. /\ Len(all) \in Nat /\ m + 1 \in 1..Len(all)
        /\ \A i \in 1..Count : all[i] = Ordering[i]
    <3>1. Ordering \in Fields /\ rest \in Fields
      BY <1>4 DEF Fields
    <3> HIDE DEF rest, m
    <3>2. /\ Len(all) = Len(Ordering) + Len(rest) /\ Len(rest) \in Nat
          /\ \A i \in 1..Len(Ordering) : all[i] = Ordering[i]
      BY <3>1, Concatenated
    <3> HIDE DEF all
    <3> QED
      BY <1>3, <1>4, <1>5, <3>2
  <2>2. all[m + 1] = <<key, value>> /\ all[m + 1][1] = call.key
    <3> HIDE DEF all
    <3> QED
      BY <1>5, <1>6, <1>8, <2>1
  <2>3. \A i \in 1..((m + 1) - 1) : all[i][1] # call.key
    <3>1. \A i \in 1..m : found[i][1] # call.key
      BY <1>1, <1>8 DEF Exact
    <3>2. (m + 1) - 1 = m /\ \A i \in 1..m : i \in 1..Count
      <4> HIDE DEF m
      <4> QED
        BY <1>3, <1>4
    <3> HIDE DEF all
    <3> QED
      BY <1>7, <2>1, <3>1, <3>2
  <2> HIDE DEF all, m
  <2>4. First(all, call.key) = <<all[m + 1]>>
    BY <2>1, <2>2, <2>3, FirstAt
  <2>5. First(Promised(conf, call.host), call.key) = <<<<key, value>>>>
    BY <1>4, <2>2, <2>4 DEF all
  <2> QED
    BY <1>1, <1>2, <1>8, <2>5, ReturnsExact
<1>9. CASE /\ ~(call.op = "get" /\ key = call.key)
           /\ found' = Append(found, <<key, value>>)
           /\ UNCHANGED <<call, listed, result>>
  <2>1. /\ Count' = Count /\ Ordering' = Ordering
        /\ ShownOf(conf, call.host)' = ShownOf(conf, call.host)
        /\ Promised(conf, result.host)' = Promised(conf, result.host)
        /\ Permitted(conf, <<result.key>>)' = Permitted(conf, <<result.key>>)
    BY <1>1, <1>9 DEF Count, Ordering, Permitted
  <2>2. ReadsExact'
    BY <1>1, <1>9, <2>1 DEF Exact, ReadsExact
  <2>3. call.next = 1 /\ call.next <= Len(call.host) + 1
    <3>1. call.next = 1
      BY <1>1, <1>4 DEF Exact
    <3>2. Len(call.host) \in Nat
      BY <1>4 DEF Fields
    <3> QED
      BY <3>1, <3>2
  <2>4. /\ found' \in Seq(Keys \X Values) /\ Len(found') = m + 1
        /\ \A i \in 1..m : found'[i] = found[i]
        /\ found'[m + 1] = Ordering[m + 1]
    <3>1. found' = Append(found, Ordering[m + 1])
      BY <1>6, <1>9
    <3>2. found \in Seq(Keys \X Values) /\ Ordering[m + 1] \in Keys \X Values
      BY <1>4, <1>6
    <3> QED
      BY <3>1, <3>2, AppendProperties
  <2> HIDE DEF m
  <2>5. \A i \in 1..(m + 1) : i \in 1..m \/ i = m + 1
    BY <1>3
  <2>6. call.op = "get" => \A i \in 1..Len(found') : found'[i][1] # call.key
    <3> HAVE call.op = "get"
    <3>1. \A i \in 1..m : found[i][1] # call.key
      BY <1>1 DEF Exact, m
    <3>2. Ordering[m + 1][1] # call.key
      BY <1>5, <1>9
    <3> QED
      BY <2>4, <2>5, <3>1, <3>2
  <2>7. Len(found') >= Count => found' = Ordering \o ShownOf(conf, call.host)[0]
    <3> SUFFICES ASSUME m + 1 = Count PROVE found' = Ordering
      <4>1. Len(found') >= Count => m + 1 = Count
        BY <1>3, <1>4, <2>4 DEF m
      <4>2. ShownOf(conf, call.host)[0] = <<>>
        BY <1>4, ShownSteps
      <4>3. Ordering \o <<>> = Ordering
        BY <1>4, ConcatNone
      <4> QED
        BY <4>1, <4>2, <4>3
    <3>1. \A i \in 1..Count : found'[i] = Ordering[i]
      BY <1>7, <2>4, <2>5
    <3>2. Len(found') = Len(Ordering) /\ \A i \in 1..Len(found') : found'[i] = Ordering[i]
      BY <1>4, <2>4, <3>1
    <3> QED
      BY <1>4, <2>4, <3>2, SeqEqual
  <2>8. call' = call /\ NoCall' = NoCall
    BY <1>9
  <2>9. Len(found') >= Count' =>
          found' = Ordering' \o ShownOf(conf, call.host)'[call'.next - 1]
    <3>1. call'.next - 1 = 0
      BY <2>3, <2>8
    <3> QED
      BY <2>1, <2>7, <3>1
  <2> QED
    BY <2>2, <2>3, <2>6, <2>8, <2>9 DEF Exact
<1> QED
  BY <1>1, <1>8, <1>9

LEMMA NoFallbackExact ==
  ASSUME IInv, Exact, NoFallback
  PROVE  Exact'
<1>1. OverridesRead /\ ~words.host_fallback /\ conf' = conf
      /\ Return(IF call.op = "get" THEN <<>> ELSE found)
  BY DEF NoFallback
<1>2. PICK off, k : WriterInv(off, k) /\ ReaderInv(off)
  BY DEF IInv
<1>3. /\ call # NoCall
      /\ found = Ordering \o ShownOf(conf, call.host)[call.next - 1]
      /\ call.op = "get" => \A i \in 1..Count : Ordering[i][1] # call.key
  BY <1>1, <1>2, FoundExact
<1>4. ConfOK(conf) /\ words = Words(conf)
  BY <1>2, <1>3, Running
<1>5. \A f : ~Permitted(conf, f)
  BY <1>1, <1>4, WordsAre DEF Permitted
<1>6. /\ call.host \in Fields /\ Len(call.host) \in 0..Len(call.host)
      /\ call.next - 1 \in 0..Len(call.host)
      /\ Ordering \in Seq(Keys \X Values) /\ Len(Ordering) = Count
      /\ Promised(conf, call.host) = Ordering \o ShownOf(conf, call.host)[Len(call.host)]
  <2>1. /\ call.host \in Fields /\ Len(call.host) \in Nat
        /\ call.next - 1 \in 0..Len(call.host)
        /\ Ordering \in Fields /\ Len(Ordering) = Count
        /\ Promised(conf, call.host)
             = Ordering \o ShownOf(conf, call.host)[Len(call.host)]
    BY <1>2, <1>3, NextBounds
  <2>2. Len(call.host) \in 0..Len(call.host)
    BY <2>1
  <2> QED
    BY <2>1, <2>2 DEF Fields
<1>7. /\ ShownOf(conf, call.host)[Len(call.host)] = <<>>
      /\ ShownOf(conf, call.host)[call.next - 1] = <<>>
  BY <1>5, <1>6, ShownNone
<1>8. found = Ordering /\ Promised(conf, call.host) = Ordering
  BY <1>3, <1>6, <1>7, ConcatNone
<1>9. call.op = "get" => First(Ordering, call.key) = <<>>
  BY <1>3, <1>6, FirstNone
<1>10. call.op = "get-all" =>
         (IF call.op = "get" THEN <<>> ELSE found) = Promised(conf, call.host)
  BY <1>8
<1>11. call.op = "get" => (IF call.op = "get" THEN <<>> ELSE found)
                            = First(Promised(conf, call.host), call.key)
  BY <1>8, <1>9
<1> QED
  BY <1>1, <1>2, <1>3, <1>10, <1>11, ReturnsExact

LEMMA HostFieldExact ==
  ASSUME IInv, Exact, HostField
  PROVE  Exact'
<1> DEFINE n == call.next
           field == call.host[n]
           shown == ShownOf(conf, call.host)
<1>1. /\ ListRead /\ OverridesRead /\ call.op # "get" /\ n <= Len(call.host)
      /\ call' = [call EXCEPT !.next = @ + 1]
      /\ conf' = conf /\ result' = result
  BY DEF HostField, MoreOfHost, ListRead
<1>2. PICK off, k : WriterInv(off, k) /\ ReaderInv(off)
  BY DEF IInv
<1>3. /\ call # NoCall /\ Len(found) >= Count
      /\ found = Ordering \o shown[n - 1]
  BY <1>1, <1>2, FoundExact
<1>4. /\ call.host \in Fields /\ Len(call.host) \in Nat /\ n \in 1..Len(call.host)
      /\ Ordering \in Seq(Keys \X Values)
      /\ shown[n - 1] \in Seq(Keys \X Values) /\ (n + 1) - 1 = n
      /\ Count \in Nat
  <2>1. /\ call.host \in Fields /\ Len(call.host) \in Nat
        /\ n \in 1..(Len(call.host) + 1)
        /\ Ordering \in Fields /\ Count \in Nat
        /\ shown[n - 1] \in Fields
    BY <1>2, <1>3, NextBounds
  <2> HIDE DEF n, shown
  <2>2. n \in 1..Len(call.host) /\ (n + 1) - 1 = n
    BY <1>1, <2>1
  <2> QED
    BY <2>1, <2>2 DEF Fields
<1>5. /\ call' = [op |-> call.op, key |-> call.key, host |-> call.host, next |-> n + 1]
  BY <1>1, <1>2, <1>3, Running DEF Asked
<1>6. field \in Keys \X Values
  BY <1>4 DEF Fields
<1>7. shown[n] = ShownAfter(conf, shown[n - 1], field)
  BY <1>4, ShownSteps
<1> HIDE DEF field, shown, n
<1>8. found' = Ordering \o shown[n]
  <2>0. Ordering \in Fields /\ shown[n - 1] \in Fields
    BY <1>4 DEF Fields
  <2>1. PICK hidden \in Search(overridden, field[1]), in_list \in Search(listed, field[1]) :
          found' = IF ~hidden /\ Passes(in_list) THEN Append(found, field) ELSE found
    BY DEF HostField, field, n
  <2>2. ~hidden /\ Passes(in_list) <=> Permitted(conf, field)
    BY <1>1, <1>2, Passed
  <2>3. CASE Permitted(conf, field)
    <3>1. shown[n] = Append(shown[n - 1], field)
      BY <1>7, <2>3 DEF ShownAfter
    <3>2. found' = Append(found, field)
      BY <2>1, <2>2, <2>3
    <3> QED
      BY <1>3, <1>6, <2>0, <3>1, <3>2, ConcatAppends
  <2>4. CASE ~Permitted(conf, field)
    <3>1. shown[n] = shown[n - 1]
      BY <1>7, <2>4 DEF ShownAfter
    <3>2. found' = found
      BY <2>1, <2>2, <2>4
    <3> QED
      BY <1>3, <3>1, <3>2
  <2> QED
    BY <2>3, <2>4
<1>9. /\ Count' = Count /\ Ordering' = Ordering
      /\ ShownOf(conf, call.host)' = shown
      /\ Promised(conf, result.host)' = Promised(conf, result.host)
      /\ Permitted(conf, <<result.key>>)' = Permitted(conf, <<result.key>>)
  BY <1>1, <1>5 DEF Count, Ordering, Permitted, shown
<1>10. ReadsExact'
  BY <1>1, <1>9 DEF Exact, ReadsExact
<1>11. Len(found') \in Nat /\ Len(found') >= Count
  <2>1. n \in 0..Len(call.host)
    BY <1>4
  <2>2. shown[n] \in Fields
    BY <1>4, <2>1, ShownAll DEF shown
  <2>3. Ordering \in Fields /\ Len(Ordering) = Count
    BY <1>2, <1>3, NextBounds
  <2>4. Len(found') = Count + Len(shown[n]) /\ Len(shown[n]) \in Nat
    BY <1>8, <2>2, <2>3, Concatenated
  <2> QED
    BY <1>4, <2>4
<1>12. call'.next = n + 1 /\ call'.op = call.op /\ call'.host = call.host
  BY <1>5
<1>13. n + 1 <= Len(call.host) + 1 /\ ~(Len(found') < Count)
  BY <1>4, <1>11
<1>14. found' = Ordering' \o ShownOf(conf, call.host)'[call'.next - 1]
  BY <1>4, <1>8, <1>9, <1>12
<1> QED
  BY <1>1, <1>9, <1>10, <1>12, <1>13, <1>14 DEF Exact

LEMMA HostFieldsReadExact ==
  ASSUME IInv, Exact, HostFieldsRead
  PROVE  Exact'
<1>1. /\ OverridesRead /\ call.op # "get" /\ call.next > Len(call.host)
      /\ conf' = conf /\ Return(found)
  BY DEF HostFieldsRead, ListRead
<1>2. PICK off, k : WriterInv(off, k) /\ ReaderInv(off)
  BY DEF IInv
<1>3. /\ call # NoCall
      /\ found = Ordering \o ShownOf(conf, call.host)[call.next - 1]
  BY <1>1, <1>2, FoundExact
<1>4. /\ call.next - 1 = Len(call.host)
      /\ Promised(conf, call.host) = Ordering \o ShownOf(conf, call.host)[Len(call.host)]
  <2>1. /\ call.next \in 1..(Len(call.host) + 1) /\ Len(call.host) \in Nat
        /\ Promised(conf, call.host) = Ordering \o ShownOf(conf, call.host)[Len(call.host)]
    BY <1>2, <1>3, NextBounds
  <2> QED
    BY <1>1, <2>1
<1> QED
  BY <1>1, <1>2, <1>3, <1>4, ReturnsExact

LEMMA GetHostExact ==
  ASSUME IInv, Exact, GetHost
  PROVE  Exact'
<1>1. ListRead /\ OverridesRead /\ call.op = "get" /\ conf' = conf
  BY DEF GetHost, ListRead
<1>2. PICK off, k : WriterInv(off, k) /\ ReaderInv(off)
  BY DEF IInv
<1> DEFINE shown == ShownOf(conf, call.host)[Len(call.host)]
<1>3. /\ call # NoCall /\ \A i \in 1..Count : Ordering[i][1] # call.key
  BY <1>1, <1>2, FoundExact
<1>4. /\ call.host \in Fields /\ Len(call.host) \in 0..Len(call.host)
      /\ Ordering \in Fields /\ Len(Ordering) = Count /\ shown \in Fields
      /\ Promised(conf, call.host) = Ordering \o shown
  BY <1>2, <1>3, NextBounds
<1> HIDE DEF shown
<1>5. First(Promised(conf, call.host), call.key) = First(shown, call.key)
  BY <1>3, <1>4, FirstAfter
<1>6. PICK in_list \in Search(listed, call.key) :
        Return(IF Passes(in_list) THEN First(call.host, call.key) ELSE <<>>)
  BY DEF GetHost
<1>7. Passes(in_list) <=> Lets(conf, call.key)
  BY <1>1, <1>2, Decides
<1>8. \A i \in 1..Len(conf.overrides) : conf.overrides[i][1] # call.key
  <2>1. conf.overrides \in Fields
    BY <1>2 DEF WriterInv, ConfOK
  <2>2. \A i \in 1..Count : \E r \in 1..Count : Ordering[r] = conf.overrides[i]
    BY <2>1, SortedFields DEF Ordering, Count
  <2> QED
    BY <1>3, <2>2 DEF Count
<1>9. \A f : f[1] = call.key => (Permitted(conf, f) <=> Lets(conf, call.key))
  BY <1>8 DEF Permitted, Lets
<1>10. First(shown, call.key) = IF Passes(in_list) THEN First(call.host, call.key) ELSE <<>>
  <2>1. CASE Lets(conf, call.key)
    BY <1>4, <1>7, <1>9, <2>1, FirstShown DEF shown
  <2>2. CASE ~Lets(conf, call.key)
    <3>1. \A j \in 1..Len(shown) : Permitted(conf, shown[j])
      BY <1>4, ShownAll DEF shown
    <3>2. \A j \in 1..Len(shown) : shown[j][1] # call.key
      BY <1>9, <2>2, <3>1
    <3> QED
      BY <1>7, <2>2, <3>2, FirstNone
  <2> QED
    BY <2>1, <2>2
<1> QED
  BY <1>1, <1>2, <1>3, <1>5, <1>6, <1>10, ReturnsExact

LEMMA HostFailsExact ==
  ASSUME IInv, Exact, HostFails
  PROVE  Exact'
<1>1. ListRead /\ OverridesRead /\ conf' = conf
  BY DEF HostFails, ListRead
<1>2. PICK off, k : WriterInv(off, k) /\ ReaderInv(off)
  BY DEF IInv
<1>3. ConfOK(conf) /\ words = Words(conf) /\ call # NoCall
  BY <1>1, <1>2, Running DEF OverridesRead
<1>4. conf.host # "none"
  BY <1>1, <1>3, WordsAre DEF ListRead
<1>5. call' = NoCall
  BY DEF HostFails, Leave
<1>6. CASE result' = [NoResult EXCEPT !.op = Failed.all]
  <2>1. result'.op = Failed.all
    BY <1>6 DEF NoResult
  <2>2. ReadsExact'
    BY <1>1, <1>4, <2>1 DEF ReadsExact, Failed
  <2> QED
    BY <1>5, <2>2 DEF Exact
<1>7. CASE /\ call.op = "get"
           /\ \E in_list \in Search(listed, call.key) : Passes(in_list)
           /\ result' = [NoResult EXCEPT !.op = Failed.get, !.key = call.key]
  <2>1. result'.op = Failed.get /\ result'.key = call.key
    BY <1>7 DEF NoResult
  <2>2. \A i \in 1..Count : Ordering[i][1] # call.key
    BY <1>1, <1>2, <1>7, FoundExact
  <2>3. \A i \in 1..Len(conf.overrides) : conf.overrides[i][1] # call.key
    <3>1. conf.overrides \in Fields
      BY <1>3 DEF ConfOK
    <3>2. \A i \in 1..Count : \E r \in 1..Count : Ordering[r] = conf.overrides[i]
      BY <3>1, SortedFields DEF Ordering, Count
    <3> QED
      BY <2>2, <3>2 DEF Count
  <2>4. Lets(conf, call.key)
    BY <1>1, <1>2, <1>7, Decides
  <2>5. Permitted(conf, <<call.key>>)
    BY <2>3, <2>4 DEF Permitted, Lets
  <2>6. Permitted(conf, <<result.key>>)'
    BY <1>1, <2>1, <2>5 DEF Permitted
  <2>7. ReadsExact'
    BY <2>1, <2>6 DEF ReadsExact, Failed
  <2> QED
    BY <1>5, <2>7 DEF Exact
<1> QED
  BY <1>6, <1>7 DEF HostFails, Leave

LEMMA StepExact == IInv /\ Exact /\ [Next]_vars => Exact'
<1> SUFFICES ASSUME IInv, Exact, [Next]_vars PROVE Exact'
  OBVIOUS
<1>1. CASE WriteField
  BY <1>1, KeepsExact DEF WriteField, reader
<1>2. CASE WriteWords
  BY <1>2, KeepsExact DEF WriteWords, reader
<1>3. CASE \E host \in HostFields : Call("get-all", 0, host)
  BY <1>3, CallExact
<1>4. CASE \E host \in HostFields, key \in Keys : Call("get", key, host)
  BY <1>4, CallExact
<1>5. CASE ReadOverride
  BY <1>5, ReadOverrideExact
<1>6. CASE NoFallback
  BY <1>6, NoFallbackExact
<1>7. CASE ReadListed
  BY <1>7, KeepsExact DEF ReadListed
<1>8. CASE HostField
  BY <1>8, HostFieldExact
<1>9. CASE HostFieldsRead
  BY <1>9, HostFieldsReadExact
<1>10. CASE GetHost
  BY <1>10, GetHostExact
<1>11. CASE HostFails
  BY <1>11, HostFailsExact
<1>12. CASE UNCHANGED vars
  BY <1>12, KeepsExact DEF vars, reader
<1> QED
  BY <1>1, <1>2, <1>3, <1>4, <1>5, <1>6, <1>7, <1>8, <1>9, <1>10, <1>11, <1>12
  DEF Next, Reader

LEMMA InitExact == Init => Exact
BY DEF Init, Exact, ReadsExact, NoResult, Failed

\* get-environment and get-all return the overrides, in order, and then exactly
\* what is permitted of the host's fields, and get the first of these with its
\* key, for every configuration and whatever the host answers.
THEOREM ReadsAreExact == Spec => []ReadsExact
<1>1. Exact => ReadsExact
  BY DEF Exact
<1> QED
  BY <1>1, Inductive, InitExact, StepExact, PTL DEF Spec

=============================================================================
