--------------------------- MODULE HostPreopenProofs ---------------------------
(***************************************************************************)
(* Proofs about HostPreopen: whatever preopens a host has, a plain path is *)
(* matched by the first of them by name that it is under, and the lookup   *)
(* does not panic.                                                         *)
(*                                                                         *)
(* What a path denotes is computed character by character.  That computing *)
(* is a recursive function, so the facts about it are proved by induction, *)
(* as the absence of a least number for which they fail.                   *)
(***************************************************************************)
EXTENDS HostPreopen, SequenceTheorems, WellFoundedInduction, TLAPS

-----------------------------------------------------------------------------
(***************************************************************************)
(* Induction.                                                              *)
(***************************************************************************)
LEMMA Least ==
  ASSUME NEW T, T \subseteq Nat, T # {}
  PROVE  \E x \in T : \A y \in T : x <= y
<1> DEFINE R == OpToRel(<, Nat)
<1>1. PICK x \in T : \A y \in T : ~(<<y, x>> \in R)
  <2>1. IsWellFoundedOn(R, Nat)
    BY NatLessThanWellFounded
  <2> HIDE DEF R
  <2> QED
    BY <2>1, WFMin
<1>2. \A y \in T : ~(y < x)
  BY <1>1 DEF OpToRel
<1> QED
  BY <1>2

LEMMA UpToInduction ==
  ASSUME NEW n \in Nat, NEW S, 0 \in S,
         \A k \in 0..(n - 1) : k \in S => k + 1 \in S
  PROVE  0..n \subseteq S
<1> SUFFICES ASSUME (0..n) \ S # {} PROVE FALSE
  OBVIOUS
<1>1. PICK k \in (0..n) \ S : \A m \in (0..n) \ S : k <= m
  <2>1. (0..n) \ S \subseteq Nat
    OBVIOUS
  <2> QED
    BY <2>1, Least
<1>2. k # 0 /\ k - 1 \in 0..(n - 1) /\ (k - 1) + 1 = k
  OBVIOUS
<1>3. k - 1 \in S
  BY <1>1, <1>2
<1> QED
  BY <1>2, <1>3

-----------------------------------------------------------------------------
(***************************************************************************)
(* Scan, one character at a time.                                          *)
(***************************************************************************)
ScanStep(before, c) ==
  IF c = "/" THEN [done |-> Closed(before.done, before.part), part |-> <<>>]
  ELSE [done |-> before.done, part |-> Append(before.part, c)]

ScanOf(s, n, g) ==
  g = [i \in 0..n |-> IF i = 0 THEN [done |-> <<>>, part |-> <<>>]
                      ELSE ScanStep(g[i - 1], s[i])]

\* There is such a function, so that Scan is one.
LEMMA ScanExists ==
  ASSUME NEW s, NEW n \in Nat
  PROVE  \E g : ScanOf(s, n, g)
<1> DEFINE S == {k \in 0..n : \E g : ScanOf(s, k, g)}
<1>1. 0 \in S
  <2> DEFINE g == [i \in 0..0 |-> [done |-> <<>>, part |-> <<>>]]
  <2>1. ScanOf(s, 0, g)
    BY DEF ScanOf
  <2> QED
    BY <2>1
<1>2. ASSUME NEW k \in 0..(n - 1), k \in S
      PROVE  k + 1 \in S
  <2>1. PICK g : ScanOf(s, k, g)
    BY <1>2
  <2> DEFINE h == [i \in 0..(k + 1) |-> IF i = k + 1 THEN ScanStep(g[k], s[k + 1]) ELSE g[i]]
  <2>2. ASSUME NEW i \in 0..(k + 1)
        PROVE  h[i] = IF i = 0 THEN [done |-> <<>>, part |-> <<>>]
                      ELSE ScanStep(h[i - 1], s[i])
    BY <2>1 DEF ScanOf
  <2>3. ScanOf(s, k + 1, h)
    BY <2>2 DEF ScanOf
  <2> QED
    BY <2>3
<1> HIDE DEF S
<1>3. n \in S
  BY <1>1, <1>2, UpToInduction
<1> QED
  BY <1>3 DEF S

LEMMA ScanDef ==
  ASSUME NEW s, Len(s) \in Nat
  PROVE  ScanOf(s, Len(s), Scan(s))
<1>1. Scan(s) = CHOOSE g : ScanOf(s, Len(s), g)
  BY DEF Scan, ScanOf, ScanStep
<1>2. \E g : ScanOf(s, Len(s), g)
  BY ScanExists
<1> QED
  BY <1>1, <1>2

LEMMA ScanSteps ==
  ASSUME NEW s \in Path
  PROVE  /\ Scan(s)[0] = [done |-> <<>>, part |-> <<>>]
         /\ \A i \in 1..Len(s) : Scan(s)[i] = ScanStep(Scan(s)[i - 1], s[i])
<1>1. ScanOf(s, Len(s), Scan(s))
  BY ScanDef
<1>2. Len(s) \in Nat
  OBVIOUS
<1> HIDE DEF Scan
<1> QED
  BY <1>1, <1>2 DEF ScanOf

Scanned == [done : Seq(Path), part : Path]

LEMMA StepType ==
  ASSUME NEW before \in Scanned, NEW c \in Char
  PROVE  ScanStep(before, c) \in Scanned
<1>1. before.done \in Seq(Path) /\ before.part \in Path /\ <<>> \in Path
  BY EmptySeq DEF Scanned, Path
<1>2. Closed(before.done, before.part) \in Seq(Path)
  BY <1>1 DEF Closed
<1>3. Append(before.part, c) \in Path
  BY <1>1 DEF Path
<1> HIDE DEF Closed
<1> QED
  BY <1>1, <1>2, <1>3 DEF ScanStep, Scanned

LEMMA ScanType ==
  ASSUME NEW s \in Path
  PROVE  \A i \in 0..Len(s) : Scan(s)[i] \in Scanned
<1> DEFINE S == {i \in 0..Len(s) : Scan(s)[i] \in Scanned}
<1>1. 0 \in S
  <2>1. <<>> \in Path /\ <<>> \in Seq(Path)
    BY EmptySeq DEF Path
  <2>2. Scan(s)[0] = [done |-> <<>>, part |-> <<>>]
    BY ScanSteps, Zenon
  <2>3. Scan(s)[0] \in Scanned
    BY <2>1, <2>2 DEF Scanned
  <2>4. 0 \in 0..Len(s)
    OBVIOUS
  <2> QED
    BY <2>3, <2>4
<1>2. ASSUME NEW k \in 0..(Len(s) - 1), k \in S
      PROVE  k + 1 \in S
  <2>1. /\ Scan(s)[k + 1] = ScanStep(Scan(s)[k], s[k + 1])
        /\ s[k + 1] \in Char
        /\ k + 1 \in 0..Len(s)
    <3>1. k + 1 \in 1..Len(s) /\ (k + 1) - 1 = k
      OBVIOUS
    <3> QED
      BY <3>1, ScanSteps DEF Path
  <2>2. Scan(s)[k] \in Scanned
    BY <1>2
  <2> QED
    BY <2>1, <2>2, StepType
<1> HIDE DEF S
<1>3. 0..Len(s) \subseteq S
  BY <1>1, <1>2, UpToInduction
<1> QED
  BY <1>3 DEF S

\* What has been read of two paths is the same as long as they are.
LEMMA ScanPrefix ==
  ASSUME NEW s \in Path, NEW t \in Path, NEW n \in Nat,
         n <= Len(s), n <= Len(t), \A i \in 1..n : s[i] = t[i]
  PROVE  Scan(s)[n] = Scan(t)[n]
<1> DEFINE S == {k \in 0..n : Scan(s)[k] = Scan(t)[k]}
<1>1. 0 \in S
  BY ScanSteps
<1>2. ASSUME NEW k \in 0..(n - 1), k \in S
      PROVE  k + 1 \in S
  <2>1. /\ k + 1 \in 1..Len(s) /\ k + 1 \in 1..Len(t) /\ k + 1 \in 1..n
        /\ (k + 1) - 1 = k
    OBVIOUS
  <2> QED
    BY <1>2, <2>1, ScanSteps
<1> HIDE DEF S
<1>3. 0..n \subseteq S
  BY <1>1, <1>2, UpToInduction
<1> QED
  BY <1>3 DEF S

LEMMA ComponentsType ==
  ASSUME NEW s \in Path
  PROVE  Components(s) \in Seq(Path)
<1>1. Scan(s)[Len(s)] \in Scanned
  BY ScanType
<1> QED
  BY <1>1 DEF Components, Closed, Scanned

\* What has been read if the components a are put before.
Joined(a, scanned) == [done |-> a \o scanned.done, part |-> scanned.part]

LEMMA AppendConcat ==
  ASSUME NEW S, NEW a \in Seq(S), NEW d \in Seq(S), NEW p \in S
  PROVE  a \o Append(d, p) = Append(a \o d, p)
OBVIOUS

LEMMA JoinedStep ==
  ASSUME NEW a \in Seq(Path), NEW b \in Scanned, NEW c
  PROVE  ScanStep(Joined(a, b), c) = Joined(a, ScanStep(b, c))
<1>1. b.done \in Seq(Path) /\ b.part \in Path
  BY DEF Scanned
<1>2. a \o Append(b.done, b.part) = Append(a \o b.done, b.part)
  BY <1>1
<1>3. a \o Closed(b.done, b.part) = Closed(a \o b.done, b.part)
  BY <1>2 DEF Closed
<1> QED
  BY <1>3 DEF ScanStep, Joined

\* A path that goes on with r after a slash is read as r, behind what was there.
LEMMA ScanAfter ==
  ASSUME NEW a \in Seq(Path), NEW r \in Path, NEW t \in Path, NEW n \in Nat,
         Len(t) = n + Len(r), Scan(t)[n] = [done |-> a, part |-> <<>>],
         \A j \in 1..Len(r) : t[n + j] = r[j]
  PROVE  \A j \in 0..Len(r) : Scan(t)[n + j] = Joined(a, Scan(r)[j])
<1> DEFINE S == {j \in 0..Len(r) : Scan(t)[n + j] = Joined(a, Scan(r)[j])}
<1>1. 0 \in S
  <2>1. Scan(r)[0] = [done |-> <<>>, part |-> <<>>]
    BY ScanSteps, Zenon
  <2>2. a \o <<>> = a
    OBVIOUS
  <2>3. Joined(a, Scan(r)[0]) = [done |-> a, part |-> <<>>]
    BY <2>1, <2>2 DEF Joined
  <2>4. n + 0 = n /\ 0 \in 0..Len(r)
    OBVIOUS
  <2> QED
    BY <2>3, <2>4
<1>2. ASSUME NEW k \in 0..(Len(r) - 1), k \in S
      PROVE  k + 1 \in S
  <2>1. /\ n + (k + 1) \in 1..Len(t) /\ (n + (k + 1)) - 1 = n + k
        /\ k + 1 \in 1..Len(r) /\ (k + 1) - 1 = k /\ k \in 0..Len(r) /\ k + 1 \in 0..Len(r)
        /\ t[n + (k + 1)] = r[k + 1]
    OBVIOUS
  <2>2. /\ \A i \in 1..Len(t) : Scan(t)[i] = ScanStep(Scan(t)[i - 1], t[i])
        /\ \A i \in 1..Len(r) : Scan(r)[i] = ScanStep(Scan(r)[i - 1], r[i])
    BY ScanSteps, Zenon
  <2>3. Scan(t)[n + (k + 1)] = ScanStep(Scan(t)[n + k], r[k + 1])
    BY <2>1, <2>2
  <2>4. Scan(r)[k + 1] = ScanStep(Scan(r)[k], r[k + 1])
    BY <2>1, <2>2
  <2>5. Scan(t)[n + k] = Joined(a, Scan(r)[k])
    BY <1>2
  <2>6. Scan(r)[k] \in Scanned
    BY <2>1, ScanType, Zenon
  <2>7. ScanStep(Joined(a, Scan(r)[k]), r[k + 1]) = Joined(a, ScanStep(Scan(r)[k], r[k + 1]))
    BY <2>6, JoinedStep
  <2> QED
    BY <2>1, <2>3, <2>4, <2>5, <2>7
<1> HIDE DEF S
<1>3. Len(r) \in Nat
  OBVIOUS
<1>4. 0..Len(r) \subseteq S
  BY ONLY <1>1, <1>2, <1>3, UpToInduction
<1> QED
  BY <1>4 DEF S

\* A slash between two paths joins their components.
LEMMA ComponentsConcat ==
  ASSUME NEW a \in Path, NEW r \in Path, NEW t \in Path,
         Len(t) = Len(a) + 1 + Len(r),
         \A i \in 1..Len(a) : t[i] = a[i],
         t[Len(a) + 1] = "/",
         \A j \in 1..Len(r) : t[Len(a) + 1 + j] = r[j]
  PROVE  Components(t) = Components(a) \o Components(r)
<1>1. /\ Len(a) \in Nat /\ Len(r) \in Nat /\ Len(a) <= Len(t) /\ Len(a) <= Len(a)
      /\ Len(a) + 1 \in 1..Len(t) /\ (Len(a) + 1) - 1 = Len(a) /\ Len(a) + 1 \in Nat
  OBVIOUS
<1>2. Components(a) \in Seq(Path) /\ Components(r) \in Seq(Path)
  BY ComponentsType, Zenon
<1>3. Scan(t)[Len(a) + 1] = [done |-> Components(a), part |-> <<>>]
  <2>1. Scan(t)[Len(a)] = Scan(a)[Len(a)]
    BY <1>1, ScanPrefix, Zenon
  <2>2. \A i \in 1..Len(t) : Scan(t)[i] = ScanStep(Scan(t)[i - 1], t[i])
    BY ScanSteps, Zenon
  <2>3. Scan(t)[Len(a) + 1] = ScanStep(Scan(t)[Len(a)], "/")
    BY <1>1, <2>2
  <2> QED
    BY <2>1, <2>3 DEF ScanStep, Components
<1>4. \A j \in 0..Len(r) : Scan(t)[Len(a) + 1 + j] = Joined(Components(a), Scan(r)[j])
  <2> DEFINE n == Len(a) + 1
             A == Components(a)
  <2>1. /\ n \in Nat /\ Len(t) = n + Len(r) /\ Scan(t)[n] = [done |-> A, part |-> <<>>]
        /\ \A j \in 1..Len(r) : t[n + j] = r[j]
        /\ A \in Seq(Path)
    BY <1>1, <1>2, <1>3
  <2> HIDE DEF n, A
  <2>2. \A j \in 0..Len(r) : Scan(t)[n + j] = Joined(A, Scan(r)[j])
    BY <2>1, ScanAfter
  <2> QED
    BY <2>2 DEF n, A
<1>5. Scan(t)[Len(t)] = Joined(Components(a), Scan(r)[Len(r)])
  BY <1>1, <1>4
<1>6. Scan(r)[Len(r)] \in Scanned
  <2>1. Len(r) \in 0..Len(r)
    BY <1>1
  <2> QED
    BY <2>1, ScanType, Zenon
<1> DEFINE last == Scan(r)[Len(r)]
<1>7. last.done \in Seq(Path) /\ last.part \in Path
  BY <1>6 DEF Scanned
<1>8. Components(a) \o Append(last.done, last.part) = Append(Components(a) \o last.done, last.part)
  <2> HIDE DEF last
  <2> QED
    BY <1>2, <1>7, AppendConcat
<1>9. Components(t) = Closed(Components(a) \o last.done, last.part)
  BY <1>5 DEF Components, Joined
<1> QED
  BY <1>8, <1>9 DEF Components, Closed
-----------------------------------------------------------------------------
(***************************************************************************)
(* One iteration.  Stripping a plain name or path does not change what it  *)
(* denotes, and what Attempt finds is the rest of the path below the name. *)
(***************************************************************************)
LEMMA DropProperties ==
  ASSUME NEW s \in Path, NEW n \in 0..Len(s)
  PROVE  /\ Drop(s, n) \in Path
         /\ Len(Drop(s, n)) = Len(s) - n
         /\ \A i \in 1..(Len(s) - n) : Drop(s, n)[i] = s[n + i]
BY DEF Drop, Path

LEMMA StartsWithElements ==
  ASSUME NEW s \in Path, NEW p, Len(p) \in Nat, StartsWith(s, p)
  PROVE  /\ Len(p) <= Len(s)
         /\ \A i \in 1..Len(p) : s[i] = p[i]
<1>1. Len(p) <= Len(s) /\ SubSeq(s, 1, Len(p)) = p
  BY DEF StartsWith
<1>2. \A i \in 1..Len(p) : SubSeq(s, 1, Len(p))[i] = s[i]
  BY <1>1 DEF Path
<1> QED
  BY <1>1, <1>2

LEMMA ComponentsOfNone ==
  ASSUME NEW s \in Path, Len(s) = 0
  PROVE  Components(s) = <<>>
BY ScanSteps DEF Components, Closed

LEMMA ComponentsOfDot ==
  ASSUME NEW s \in Path, Len(s) = 1, s[1] = "."
  PROVE  Components(s) = <<>>
<1>1. Scan(s)[0] = [done |-> <<>>, part |-> <<>>]
  BY ScanSteps, Zenon
<1>2. Scan(s)[1] = ScanStep(Scan(s)[0], ".")
  BY ScanSteps
<1>3. Append(<<>>, ".") = <<".">>
  OBVIOUS
<1>4. Scan(s)[1] = [done |-> <<>>, part |-> <<".">>]
  BY <1>1, <1>2, <1>3 DEF ScanStep
<1> QED
  BY <1>4 DEF Components, Closed

LEMMA ComponentsFrom ==
  ASSUME NEW s \in Path, Len(s) > 0, s[1] = "/"
  PROVE  Components(s) = Components(Drop(s, 1))
<1> DEFINE r == Drop(s, 1)
<1>1. /\ r \in Path /\ Len(s) = 0 + 1 + Len(r)
      /\ \A j \in 1..Len(r) : s[0 + 1 + j] = r[j]
  BY DropProperties
<1>2. <<>> \in Path /\ Len(<<>>) = 0
  BY EmptySeq DEF Path
<1> HIDE DEF r
<1>3. Components(s) = Components(<<>>) \o Components(r)
  BY <1>1, <1>2, ComponentsConcat
<1>4. Components(<<>>) = <<>>
  BY <1>2, ComponentsOfNone
<1>5. Components(r) \in Seq(Path)
  BY <1>1, ComponentsType
<1>6. <<>> \o Components(r) = Components(r)
  BY <1>5
<1> QED
  BY <1>3, <1>4, <1>6 DEF r

LEMMA ComponentsFromDot ==
  ASSUME NEW s \in Path, Len(s) > 1, s[1] = ".", s[2] = "/"
  PROVE  Components(s) = Components(Drop(s, 2))
<1> DEFINE r == Drop(s, 2)
           a == SubSeq(s, 1, 1)
<1>1. /\ r \in Path /\ Len(s) = 1 + 1 + Len(r)
      /\ \A j \in 1..Len(r) : s[1 + 1 + j] = r[j]
  BY DropProperties
<1>2. a \in Path /\ Len(a) = 1 /\ a[1] = "."
  BY DEF Path
<1> HIDE DEF r, a
<1>3. Components(s) = Components(a) \o Components(r)
  <2>1. /\ Len(s) = Len(a) + 1 + Len(r) /\ s[Len(a) + 1] = "/"
        /\ \A i \in 1..Len(a) : s[i] = a[i]
        /\ \A j \in 1..Len(r) : s[Len(a) + 1 + j] = r[j]
    BY <1>1, <1>2
  <2> QED
    BY <1>1, <1>2, <2>1, ComponentsConcat
<1>4. Components(a) = <<>>
  BY <1>2, ComponentsOfDot
<1>5. Components(r) \in Seq(Path)
  BY <1>1, ComponentsType
<1>6. <<>> \o Components(r) = Components(r)
  BY <1>5
<1> QED
  BY <1>3, <1>4, <1>6 DEF r

LEMMA StripNameSound ==
  ASSUME NEW name \in Path, PlainName(name)
  PROVE  /\ StripName(name) \in Path
         /\ Components(StripName(name)) = Components(name)
         /\ Absolute(StripName(name)) <=> Absolute(name)
<1>1. CASE StartsWith(name, <<".", "/">>)
  <2>1. Len(name) > 1 /\ name[1] = "." /\ name[2] = "/"
    BY <1>1, StartsWithElements
  <2>2. StripName(name) = Drop(name, 2)
    BY <1>1 DEF StripName
  <2>3. ~Absolute(name)
    BY <2>1 DEF Absolute
  <2>5. name # <<".">> /\ SubSeq(name, 1, 1) = <<".">>
    <3>1. name # <<".">>
      BY <2>1
    <3>2. SubSeq(name, 1, 1) = [i \in 1..1 |-> name[i]]
      BY <2>1 DEF Path
    <3>3. <<".">> = [i \in 1..1 |-> "."]
      OBVIOUS
    <3>4. [i \in 1..1 |-> name[i]] = [i \in 1..1 |-> "."]
      BY <2>1
    <3> QED
      BY <3>1, <3>2, <3>3, <3>4, Zenon
  <2>6. StartsWith(name, <<".">>)
    BY <2>1, <2>5 DEF StartsWith
  <2>7. ~Absolute(StripName(name))
    BY <2>5, <2>6 DEF PlainName
  <2>4. Drop(name, 2) \in Path
    BY <2>1, DropProperties
  <2> QED
    BY <2>1, <2>2, <2>3, <2>4, <2>7, ComponentsFromDot
<1>2. CASE ~StartsWith(name, <<".", "/">>) /\ StartsWith(name, <<".">>)
  <2>1. name = <<".">>
    BY <1>2 DEF PlainName
  <2>2. StripName(name) = Drop(name, 1)
    BY <1>2 DEF StripName
  <2>3. Drop(name, 1) \in Path /\ Len(Drop(name, 1)) = 0
    <3>1. 1 \in 0..Len(name) /\ Len(name) - 1 = 0
      BY <2>1
    <3> QED
      BY <3>1, DropProperties
  <2>4. Components(name) = <<>> /\ Components(Drop(name, 1)) = <<>>
    BY <2>1, <2>3, ComponentsOfDot, ComponentsOfNone
  <2>5. ~Absolute(name) /\ ~Absolute(Drop(name, 1))
    BY <2>1, <2>3 DEF Absolute
  <2> QED
    BY <2>2, <2>3, <2>4, <2>5
<1>3. CASE ~StartsWith(name, <<".", "/">>) /\ ~StartsWith(name, <<".">>)
  BY <1>3 DEF StripName
<1> QED
  BY <1>1, <1>2, <1>3

LEMMA StripPathSound ==
  ASSUME NEW p \in Path, PlainPath(p)
  PROVE  /\ StripPath(p) \in Path
         /\ Components(StripPath(p)) = Components(p)
         /\ Absolute(StripPath(p)) <=> Absolute(p)
<1>1. CASE StartsWith(p, <<".", "/">>)
  <2>1. Len(p) > 1 /\ p[1] = "." /\ p[2] = "/"
    BY <1>1, StartsWithElements
  <2>2. StripPath(p) = Drop(p, 2)
    BY <1>1 DEF StripPath
  <2>3. ~Absolute(p)
    BY <2>1 DEF Absolute
  <2>4. ~Absolute(StripPath(p))
    BY <2>3 DEF PlainPath
  <2>5. Drop(p, 2) \in Path
    BY <2>1, DropProperties
  <2> QED
    BY <2>1, <2>2, <2>3, <2>4, <2>5, ComponentsFromDot DEF Absolute
<1>2. CASE ~StartsWith(p, <<".", "/">>)
  BY <1>2 DEF StripPath
<1> QED
  BY <1>1, <1>2

LEMMA AttemptSound ==
  ASSUME NEW name \in Path, NEW p \in Path, Attempt(name, p).kind = "found"
  PROVE  /\ Attempt(name, p).rest \in Path
         /\ Components(p) = Components(name) \o Components(Attempt(name, p).rest)
         /\ Absolute(name) <=> Absolute(p)
<1> DEFINE rest == Attempt(name, p).rest
<1>1. StartsWith(p, name)
  BY DEF Attempt, Skip
<1>2. /\ Len(name) <= Len(p)
      /\ \A i \in 1..Len(name) : p[i] = name[i]
  BY <1>1, StartsWithElements
<1>3. Len(name) \in Nat /\ Len(p) \in Nat
  BY DEF Path
<1>4. Components(p) \in Seq(Path) /\ Components(name) \in Seq(Path)
  BY ComponentsType
<1>5. <<>> \o Components(p) = Components(p) /\ Components(name) \o <<>> = Components(name)
  BY <1>4
<1>6. Len(<<>>) = 0 /\ <<>> \in Path
  BY EmptySeq DEF Path
<1>7. CASE name = <<>>
  <2>1. p # <<>> /\ p[1] # "/" /\ rest = p
    BY <1>1, <1>7 DEF Attempt, Skip, Panic, Found
  <2>2. Components(name) = <<>>
    BY <1>6, <1>7, ComponentsOfNone
  <2>3. ~Absolute(name) /\ ~Absolute(p)
    BY <1>6, <1>7, <2>1 DEF Absolute
  <2> QED
    BY <1>5, <2>1, <2>2, <2>3
<1>8. CASE name = <<"/">>
  <2>1. rest = Drop(p, 1)
    BY <1>1, <1>8 DEF Attempt, Found
  <2>2. /\ Len(name) = 1 /\ name[1] = "/"
        /\ Len(p) > 0 /\ p[1] = "/"
    BY <1>2, <1>8
  <2>3. Components(p) = Components(rest)
    BY <2>1, <2>2, ComponentsFrom
  <2>4. Drop(name, 1) \in Path /\ Len(Drop(name, 1)) = 0
    <3>1. 1 \in 0..Len(name) /\ Len(name) - 1 = 0
      BY <2>2
    <3> QED
      BY <3>1, DropProperties
  <2>5. Components(name) = <<>>
    BY <2>2, <2>4, ComponentsFrom, ComponentsOfNone
  <2>6. rest \in Path
    BY <2>1, <2>2, DropProperties
  <2> QED
    BY <1>5, <2>2, <2>3, <2>5, <2>6 DEF Absolute
<1>9. CASE name # <<>> /\ name # <<"/">> /\ Len(name) = Len(p)
  <2>1. rest = <<>>
    BY <1>1, <1>9 DEF Attempt, Found
  <2>2. name = p
    BY <1>1, <1>9 DEF StartsWith, Path
  <2>3. Components(<<>>) = <<>>
    BY <1>6, ComponentsOfNone
  <2> QED
    BY <1>5, <1>6, <2>1, <2>2, <2>3
<1>10. CASE name # <<>> /\ name # <<"/">> /\ Len(name) # Len(p)
  <2>1. p[Len(name) + 1] = "/" /\ rest = Drop(p, Len(name) + 1)
    BY <1>1, <1>10 DEF Attempt, Found, Skip
  <2>2. Len(name) + 1 \in 0..Len(p)
    BY <1>2, <1>3, <1>10
  <2>3. /\ rest \in Path /\ Len(p) = Len(name) + 1 + Len(rest)
        /\ \A j \in 1..Len(rest) : p[Len(name) + 1 + j] = rest[j]
    <3> DEFINE n == Len(name) + 1
    <3> HIDE DEF n, rest
    <3>1. /\ Drop(p, n) \in Path /\ Len(Drop(p, n)) = Len(p) - n
          /\ \A i \in 1..(Len(p) - n) : Drop(p, n)[i] = p[n + i]
      BY <2>2, DropProperties DEF n
    <3>2. rest = Drop(p, n)
      BY <2>1 DEF n
    <3>3. Len(p) - n = Len(rest) /\ Len(p) = n + Len(rest)
      BY <1>3, <2>2, <3>1, <3>2 DEF n
    <3>4. rest \in Path /\ \A i \in 1..Len(rest) : rest[i] = p[n + i]
      BY <3>1, <3>2, <3>3
    <3> QED
      BY <3>3, <3>4 DEF n
  <2>4. Components(p) = Components(name) \o Components(rest)
    BY <1>2, <2>1, <2>3, ComponentsConcat
  <2>5. Len(name) # 0
    BY <1>10 DEF Path
  <2>6. Absolute(name) <=> Absolute(p)
    BY <1>2, <1>3, <2>5 DEF Absolute
  <2> QED
    BY <2>3, <2>4, <2>6
<1> QED
  BY <1>7, <1>8, <1>9, <1>10

LEMMA TrySound ==
  ASSUME NEW name \in Path, NEW p \in Path, PlainName(name), PlainPath(p),
         Try(name, p).kind = "found"
  PROVE  /\ Try(name, p).rest \in Path
         /\ Components(p) = Components(name) \o Components(Try(name, p).rest)
         /\ Absolute(name) <=> Absolute(p)
<1> DEFINE n == StripName(name)
           q == StripPath(p)
<1>1. /\ n \in Path /\ Components(n) = Components(name) /\ (Absolute(n) <=> Absolute(name))
      /\ q \in Path /\ Components(q) = Components(p) /\ (Absolute(q) <=> Absolute(p))
  BY StripNameSound, StripPathSound
<1>2. Try(name, p) = Attempt(n, q)
  BY DEF Try
<1> HIDE DEF n, q
<1> QED
  BY <1>1, <1>2, AttemptSound

\* A path of which nothing is left is skipped, unless nothing is left of the name
\* either: then the byte that is looked at is not there.
LEMMA TryKinds ==
  ASSUME NEW name \in Path, NEW p, PlainName(name)
  PROVE  /\ Try(name, p).kind \in {"skip", "found", "panic"}
         /\ Try(name, p).kind = "panic" <=> Bare(p) /\ StripName(name) = <<>>
         /\ Bare(p) => Try(name, p).kind # "found"
<1> DEFINE n == StripName(name)
           q == StripPath(p)
<1>1. n \in Path
  BY StripNameSound
<1>2. /\ Try(name, p) = Attempt(n, q)
      /\ Bare(p) <=> q = <<>>
  BY DEF Try, Bare
<1> HIDE DEF n, q
<1>3. q = <<>> => Len(q) = 0
  OBVIOUS
<1>4. q = <<>> /\ StartsWith(q, n) => n = <<>>
  BY <1>1, <1>3 DEF StartsWith, Path
<1>5. StartsWith(<<>>, <<>>)
  BY DEF StartsWith
<1>6. Attempt(n, q).kind \in {"skip", "found", "panic"}
  BY DEF Attempt, Skip, Found, Panic
<1>7. Attempt(n, q).kind = "panic" <=> q = <<>> /\ n = <<>>
  BY <1>5 DEF Attempt, Skip, Found, Panic
<1>8. q = <<>> => Attempt(n, q).kind # "found"
  BY <1>4 DEF Attempt, Skip, Panic
<1> QED
  BY <1>2, <1>6, <1>7, <1>8 DEF n

LEMMA BareSound ==
  ASSUME NEW p \in Path, PlainPath(p), Bare(p)
  PROVE  ~Absolute(p) /\ Components(p) = <<>>
<1>1. /\ StripPath(p) = <<>> /\ Components(StripPath(p)) = Components(p)
      /\ Absolute(StripPath(p)) <=> Absolute(p)
  BY StripPathSound DEF Bare
<1>2. <<>> \in Path /\ Len(<<>>) = 0
  BY EmptySeq DEF Path
<1> QED
  BY <1>1, <1>2, ComponentsOfNone DEF Absolute

LEMMA NoNameSound ==
  ASSUME NEW name \in Path, PlainName(name), StripName(name) = <<>>
  PROVE  ~Absolute(name) /\ Components(name) = <<>>
<1>1. /\ Components(StripName(name)) = Components(name)
      /\ Absolute(StripName(name)) <=> Absolute(name)
  BY StripNameSound
<1>2. <<>> \in Path /\ Len(<<>>) = 0
  BY EmptySeq DEF Path
<1> QED
  BY <1>1, <1>2, ComponentsOfNone DEF Absolute

-----------------------------------------------------------------------------
(***************************************************************************)
(* The other way round: a tidy path that a preopen's name denotes the      *)
(* beginning of begins with that name.  Below, Scan(s)[k].done are the     *)
(* components complete after k characters and Scan(s)[k].part is the one   *)
(* that has begun.                                                         *)
(***************************************************************************)
Extends(long, short) ==
  Len(short) <= Len(long) /\ \A i \in 1..Len(short) : long[i] = short[i]

LEMMA ExtendsClosed ==
  ASSUME NEW long \in Seq(Path), NEW p
  PROVE  \A short \in Seq(Path) : Extends(long, short) => Extends(Closed(long, p), short)
BY DEF Closed, Extends

LEMMA ComponentsExtend ==
  ASSUME NEW s \in Path, NEW k \in 0..Len(s)
  PROVE  Extends(Components(s), Scan(s)[k].done)
<1> DEFINE D == Scan(s)[k].done
           S == {j \in 0..(Len(s) - k) : Extends(Scan(s)[k + j].done, D)}
<1>1. Len(s) \in Nat /\ k \in Nat /\ Len(s) - k \in Nat
  OBVIOUS
<1>2. \A j \in 0..Len(s) : Scan(s)[j].done \in Seq(Path)
  BY ScanType DEF Scanned
<1>3. D \in Seq(Path)
  BY <1>2
<1>4. 0 \in S
  BY <1>1, <1>3 DEF Extends
<1>5. ASSUME NEW j \in 0..((Len(s) - k) - 1), j \in S
      PROVE  j + 1 \in S
  <2>1. k + (j + 1) \in 1..Len(s) /\ (k + (j + 1)) - 1 = k + j /\ j + 1 \in 0..(Len(s) - k)
        /\ k + j \in 0..Len(s)
    BY <1>1
  <2>2. Scan(s)[k + (j + 1)] = ScanStep(Scan(s)[k + j], s[k + (j + 1)])
    BY <2>1, ScanSteps
  <2>3. Extends(Scan(s)[k + j].done, D)
    BY <1>5
  <2> HIDE DEF D
  <2>4. Extends(Closed(Scan(s)[k + j].done, Scan(s)[k + j].part), D)
    BY <1>2, <1>3, <2>1, <2>3, ExtendsClosed
  <2>5. Extends(Scan(s)[k + (j + 1)].done, D)
    BY <2>2, <2>3, <2>4 DEF ScanStep
  <2> QED
    BY <2>1, <2>5
<1>6. Len(s) - k \in S
  <2> DEFINE N == Len(s) - k
  <2>1. N \in Nat /\ 0 \in S /\ \A j \in 0..(N - 1) : j \in S => j + 1 \in S
    BY <1>1, <1>4, <1>5
  <2> HIDE DEF S, N
  <2>2. 0..N \subseteq S
    BY <2>1, UpToInduction
  <2>3. N \in S
    BY <2>1, <2>2
  <2> QED
    BY <2>3 DEF N
<1>7. Extends(Scan(s)[Len(s)].done, D)
  BY <1>1, <1>6
<1> DEFINE last == Scan(s)[Len(s)].done
<1>8. last \in Seq(Path)
  BY <1>1, <1>2
<1> HIDE DEF D, last
<1>9. Extends(Closed(last, Scan(s)[Len(s)].part), D)
  BY <1>3, <1>7, <1>8, ExtendsClosed DEF last
<1> QED
  BY <1>9 DEF Components, D, last

\* A component that counts and is over is there.
LEMMA ComponentOver ==
  ASSUME NEW s \in Path, NEW k \in 0..Len(s), Scan(s)[k].part \notin {<<>>, <<".">>},
         k < Len(s) => s[k + 1] = "/"
  PROVE  /\ Len(Scan(s)[k].done) < Len(Components(s))
         /\ Components(s)[Len(Scan(s)[k].done) + 1] = Scan(s)[k].part
         /\ k = Len(s) => Len(Components(s)) = Len(Scan(s)[k].done) + 1
<1> DEFINE D == Scan(s)[k].done
           p == Scan(s)[k].part
<1>1. D \in Seq(Path) /\ p \in Path
  BY ScanType DEF Scanned
<1>2. Closed(D, p) = Append(D, p)
  BY DEF Closed
<1>3. Extends(Components(s), Append(D, p))
  <2>1. CASE k = Len(s)
    BY <1>1, <1>2, <2>1 DEF Components, Extends
  <2>2. CASE k < Len(s)
    <3>1. k + 1 \in 1..Len(s) /\ (k + 1) - 1 = k /\ k + 1 \in 0..Len(s)
      BY <2>2
    <3>2. Scan(s)[k + 1] = ScanStep(Scan(s)[k], "/")
      BY <2>2, <3>1, ScanSteps
    <3>3. Scan(s)[k + 1].done = Append(D, p)
      BY <1>2, <3>2 DEF ScanStep
    <3> QED
      BY <3>1, <3>3, ComponentsExtend
  <2> QED
    BY <2>1, <2>2
<1>4. k = Len(s) => Components(s) = Append(D, p)
  BY <1>2 DEF Components
<1> HIDE DEF D, p
<1>5. Len(Append(D, p)) = Len(D) + 1 /\ Append(D, p)[Len(D) + 1] = p /\ Len(D) \in Nat
  BY <1>1
<1>6. Components(s) \in Seq(Path)
  BY ComponentsType
<1>7. Len(D) < Len(Components(s)) /\ Components(s)[Len(D) + 1] = p
  BY <1>3, <1>5, <1>6 DEF Extends
<1> QED
  BY <1>4, <1>5, <1>7 DEF D, p

\* The component after those of D begins with p and the character c.
Has(d, D, p, c) ==
  /\ Len(D) < Len(d)
  /\ Len(p) < Len(d[Len(D) + 1])
  /\ d[Len(D) + 1][Len(p) + 1] = c

Going(x, D, p, c) ==
  \/ x.done = D /\ Len(p) < Len(x.part) /\ x.part[Len(p) + 1] = c
  \/ Has(x.done, D, p, c)

LEMMA HasClosed ==
  ASSUME NEW x \in Scanned, NEW D \in Seq(Path), NEW p \in Path, NEW c,
         Going(x, D, p, c), x.part # <<".">>
  PROVE  Has(Closed(x.done, x.part), D, p, c)
<1>1. x.done \in Seq(Path) /\ x.part \in Path /\ Len(p) \in Nat /\ Len(D) \in Nat
  BY DEF Scanned, Path
<1>2. CASE x.done = D /\ Len(p) < Len(x.part) /\ x.part[Len(p) + 1] = c
  <2>1. x.part # <<>>
    BY <1>1, <1>2
  <2>2. Closed(x.done, x.part) = Append(D, x.part)
    BY <1>2, <2>1 DEF Closed
  <2>3. Len(Append(D, x.part)) = Len(D) + 1 /\ Append(D, x.part)[Len(D) + 1] = x.part
    BY <1>1
  <2> QED
    BY <1>1, <1>2, <2>2, <2>3 DEF Has
<1>3. CASE Has(x.done, D, p, c)
  <2>1. CASE Closed(x.done, x.part) = x.done
    BY <1>3, <2>1
  <2>2. CASE Closed(x.done, x.part) = Append(x.done, x.part)
    <3>1. /\ Len(Append(x.done, x.part)) = Len(x.done) + 1
          /\ \A i \in 1..Len(x.done) : Append(x.done, x.part)[i] = x.done[i]
      BY <1>1
    <3>2. Len(D) + 1 \in 1..Len(x.done)
      BY <1>1, <1>3 DEF Has
    <3> QED
      BY <1>1, <1>3, <2>2, <3>1, <3>2 DEF Has
  <2> QED
    BY <2>1, <2>2 DEF Closed
<1> QED
  BY <1>2, <1>3 DEF Going

LEMMA GoingStep ==
  ASSUME NEW x \in Scanned, NEW D \in Seq(Path), NEW p \in Path, NEW c, NEW d \in Char,
         Going(x, D, p, c), d = "/" => x.part \notin {<<>>, <<".">>}
  PROVE  Going(ScanStep(x, d), D, p, c)
<1>1. x.done \in Seq(Path) /\ x.part \in Path /\ Len(p) \in Nat
  BY DEF Scanned, Path
<1>2. CASE d = "/"
  <2>1. Has(Closed(x.done, x.part), D, p, c)
    BY <1>2, HasClosed
  <2> QED
    BY <1>2, <2>1 DEF Going, ScanStep
<1>3. CASE d # "/"
  <2>1. /\ Len(Append(x.part, d)) = Len(x.part) + 1
        /\ \A i \in 1..Len(x.part) : Append(x.part, d)[i] = x.part[i]
        /\ Len(x.part) \in Nat
    BY <1>1 DEF Path
  <2>2. ScanStep(x, d) = [done |-> x.done, part |-> Append(x.part, d)]
    BY <1>3 DEF ScanStep
  <2> QED
    BY <1>1, <2>1, <2>2 DEF Going
<1> QED
  BY <1>2, <1>3

\* A component that goes on is there too, and goes on with the next character.
LEMMA ComponentGoesOn ==
  ASSUME NEW s \in Path, Tidy(s), NEW k \in 0..(Len(s) - 1), s[k + 1] # "/"
  PROVE  Has(Components(s), Scan(s)[k].done, Scan(s)[k].part, s[k + 1])
<1> DEFINE D == Scan(s)[k].done
           p == Scan(s)[k].part
           c == s[k + 1]
           N == Len(s) - (k + 1)
           S == {j \in 0..N : Going(Scan(s)[k + 1 + j], D, p, c)}
<1>1. Len(s) \in Nat /\ k \in Nat /\ N \in Nat /\ k \in 0..Len(s)
  BY DEF Path
<1>2. \A j \in 0..Len(s) : Scan(s)[j] \in Scanned
  BY ScanType, Zenon
<1>3. D \in Seq(Path) /\ p \in Path
  BY <1>1, <1>2 DEF Scanned
<1>4. \A i \in 1..Len(s) : Scan(s)[i] = ScanStep(Scan(s)[i - 1], s[i])
  BY ScanSteps, Zenon
<1>5. \A i \in 1..Len(s) : s[i] \in Char
  BY DEF Path
<1>6. 0 \in S
  <2>1. k + 1 \in 1..Len(s) /\ (k + 1) - 1 = k /\ k + 1 + 0 = k + 1
    BY <1>1
  <2>2. Scan(s)[k + 1] = [done |-> D, part |-> Append(p, c)]
    BY <1>4, <2>1 DEF ScanStep
  <2>3. c \in Char
    BY <1>5, <2>1
  <2> HIDE DEF D, p, c, N
  <2>4. Len(Append(p, c)) = Len(p) + 1 /\ Append(p, c)[Len(p) + 1] = c /\ Len(p) \in Nat
    BY <1>3, <2>3 DEF Path
  <2>5. Going([done |-> D, part |-> Append(p, c)], D, p, c)
    BY <2>4 DEF Going
  <2>6. 0 \in 0..N
    BY <1>1
  <2> QED
    BY <2>1, <2>2, <2>5, <2>6
<1>7. ASSUME NEW j \in 0..(N - 1), j \in S
      PROVE  j + 1 \in S
  <2>1. /\ k + 1 + (j + 1) \in 2..Len(s) /\ (k + 1 + (j + 1)) - 1 = k + 1 + j
        /\ k + 1 + (j + 1) \in 1..Len(s) /\ j + 1 \in 0..N /\ k + 1 + j \in 0..Len(s)
    BY <1>1
  <2>2. Scan(s)[k + 1 + (j + 1)] = ScanStep(Scan(s)[k + 1 + j], s[k + 1 + (j + 1)])
    BY <1>4, <2>1
  <2>3. s[k + 1 + (j + 1)] = "/" => Scan(s)[k + 1 + j].part \notin {<<>>, <<".">>}
    BY <2>1 DEF Tidy
  <2>4. Going(Scan(s)[k + 1 + j], D, p, c) /\ Scan(s)[k + 1 + j] \in Scanned
    BY <1>2, <1>7, <2>1
  <2>5. s[k + 1 + (j + 1)] \in Char
    BY <1>5, <2>1
  <2> HIDE DEF D, p, c, N
  <2>6. Going(Scan(s)[k + 1 + (j + 1)], D, p, c)
    BY <1>3, <2>2, <2>3, <2>4, <2>5, GoingStep
  <2> QED
    BY <2>1, <2>6
<1>8. N \in S
  <2> HIDE DEF S, N
  <2>1. 0..N \subseteq S
    BY <1>1, <1>6, <1>7, UpToInduction
  <2> QED
    BY <1>1, <2>1
<1>9. Going(Scan(s)[Len(s)], D, p, c)
  BY <1>1, <1>8
<1>10. Scan(s)[Len(s)] \in Scanned /\ Scan(s)[Len(s)].part # <<".">>
  BY <1>1, <1>2 DEF Tidy
<1> HIDE DEF D, p, c
<1>11. Has(Components(s), D, p, c)
  BY <1>3, <1>9, <1>10, HasClosed DEF Components
<1> QED
  BY <1>11 DEF D, p, c

\* Both cannot be: that a component is over, and that it goes on.
LEMMA NotBoth ==
  ASSUME NEW d, NEW D, NEW p \in Path, NEW c, Has(d, D, p, c), d[Len(D) + 1] = p
  PROVE  FALSE
<1>1. Len(p) \in Nat
  BY DEF Path
<1> QED
  BY <1>1 DEF Has

LEMMA HasExtends ==
  ASSUME NEW long \in Seq(Path), NEW short \in Seq(Path), Extends(long, short),
         NEW D \in Seq(Path), NEW p, NEW c, Has(short, D, p, c)
  PROVE  Has(long, D, p, c)
BY DEF Has, Extends

Agree(n, q, k) == k <= Len(q) /\ \A i \in 1..k : q[i] = n[i]

\* A name and a path, tidy, of which the name denotes the beginning of what the
\* path denotes.
Above(n, q) ==
  /\ Tidy(n) /\ Tidy(q)
  /\ Len(n) > 1 => n[Len(n)] # "/"
  /\ Absolute(n) <=> Absolute(q)
  /\ Extends(Components(q), Components(n))

LEMMA AgreeScan ==
  ASSUME NEW n \in Path, NEW q \in Path, NEW k \in 0..Len(n), Agree(n, q, k)
  PROVE  /\ Scan(n)[k] = Scan(q)[k]
         /\ Scan(n)[k].done \in Seq(Path) /\ Scan(n)[k].part \in Path
<1>1. k \in Nat /\ k <= Len(n)
  BY DEF Path
<1>2. Scan(n)[k] = Scan(q)[k]
  BY <1>1, ScanPrefix DEF Agree
<1>3. Scan(n)[k] \in Scanned
  BY ScanType
<1> QED
  BY <1>2, <1>3 DEF Scanned

\* The name goes on with a slash.
LEMMA AgreeSlash ==
  ASSUME NEW n \in Path, NEW q \in Path, Above(n, q), NEW k \in 0..(Len(n) - 1),
         Agree(n, q, k), n[k + 1] = "/"
  PROVE  k + 1 <= Len(q) /\ q[k + 1] = "/"
<1> DEFINE D == Scan(n)[k].done
           p == Scan(n)[k].part
           X == Components(n)
           Y == Components(q)
<1>1. /\ Len(n) \in Nat /\ Len(q) \in Nat /\ k \in Nat /\ k \in 0..Len(n) /\ k <= Len(q)
      /\ k \in 0..Len(q) /\ k + 1 \in 1..Len(n) /\ (k + 1) - 1 = k
  BY DEF Path, Agree
<1>2. CASE k = 0
  BY <1>1, <1>2 DEF Above, Absolute
<1>3. CASE k > 0
  <2>1. D = Scan(q)[k].done /\ p = Scan(q)[k].part /\ D \in Seq(Path) /\ p \in Path
    BY <1>1, AgreeScan
  <2>2. X \in Seq(Path) /\ Y \in Seq(Path) /\ Extends(Y, X)
    BY ComponentsType DEF Above
  <2>3. p \notin {<<>>, <<".">>}
    <3>1. k + 1 \in 2..Len(n)
      BY <1>1, <1>3
    <3> QED
      BY <1>1, <3>1 DEF Above, Tidy
  <2>4. Len(D) < Len(X) /\ X[Len(D) + 1] = p
    BY <1>1, <2>3, ComponentOver
  <2>5. Y[Len(D) + 1] = p
    <3> HIDE DEF D, p, X, Y
    <3>1. Len(D) + 1 \in 1..Len(X)
      BY <2>1, <2>2, <2>4
    <3> QED
      BY <2>2, <2>4, <3>1 DEF Extends
  <2>6. ASSUME k = Len(q) PROVE FALSE
    <3>1. Len(Y) = Len(D) + 1
      BY <1>1, <2>1, <2>3, <2>6, ComponentOver
    <3>2. Len(n) > 1 /\ k + 1 # Len(n)
      BY <1>1, <1>3 DEF Above
    <3>3. /\ k + 1 \in 0..(Len(n) - 1) /\ k + 2 \in 2..Len(n) /\ (k + 2) - 1 = k + 1
          /\ (k + 1) + 1 = k + 2 /\ k + 1 \in 0..Len(n)
      BY <1>1, <3>2
    <3>4. Scan(n)[k + 1] = [done |-> Append(D, p), part |-> <<>>]
      <4>1. Scan(n)[k + 1] = ScanStep(Scan(n)[k], "/")
        BY <1>1, ScanSteps
      <4> QED
        BY <2>3, <4>1 DEF ScanStep, Closed
    <3>5. n[k + 2] # "/"
      BY <3>3, <3>4 DEF Above, Tidy
    <3>6. Has(X, Append(D, p), <<>>, n[k + 2])
      <4>1. Has(X, Scan(n)[k + 1].done, Scan(n)[k + 1].part, n[(k + 1) + 1])
        BY <3>3, <3>5, ComponentGoesOn DEF Above
      <4> QED
        BY <3>3, <3>4, <4>1
    <3> HIDE DEF D, p, X, Y
    <3>7. Len(X) > Len(D) + 1
      <4>1. Len(Append(D, p)) = Len(D) + 1
        BY <2>1
      <4> QED
        BY <2>1, <2>2, <3>6, <4>1 DEF Has
    <3> QED
      BY <2>1, <2>2, <3>1, <3>7 DEF Extends
  <2>7. ASSUME k < Len(q), q[k + 1] # "/" PROVE FALSE
    <3>1. k \in 0..(Len(q) - 1)
      BY <1>1, <2>7
    <3>2. Has(Y, D, p, q[k + 1])
      BY <2>1, <2>7, <3>1, ComponentGoesOn DEF Above
    <3> HIDE DEF D, p, Y
    <3> QED
      BY <2>1, <2>5, <3>2, NotBoth
  <2> QED
    BY <1>1, <2>6, <2>7
<1> QED
  BY <1>1, <1>2, <1>3

\* The name goes on with another character.
LEMMA AgreeOther ==
  ASSUME NEW n \in Path, NEW q \in Path, Above(n, q), NEW k \in 0..(Len(n) - 1),
         Agree(n, q, k), n[k + 1] # "/"
  PROVE  k + 1 <= Len(q) /\ q[k + 1] = n[k + 1]
<1> DEFINE D == Scan(n)[k].done
           p == Scan(n)[k].part
           X == Components(n)
           Y == Components(q)
           c == n[k + 1]
<1>1. /\ Len(n) \in Nat /\ Len(q) \in Nat /\ k \in Nat /\ k \in 0..Len(n) /\ k <= Len(q)
      /\ k \in 0..Len(q)
  BY DEF Path, Agree
<1>2. D = Scan(q)[k].done /\ p = Scan(q)[k].part /\ D \in Seq(Path) /\ p \in Path
  BY <1>1, AgreeScan
<1>3. X \in Seq(Path) /\ Y \in Seq(Path) /\ Extends(Y, X)
  BY ComponentsType DEF Above
<1>4. Has(X, D, p, c)
  BY ComponentGoesOn DEF Above
<1>5. Has(Y, D, p, c)
  <2> HIDE DEF D, p, X, Y, c
  <2> QED
    BY <1>2, <1>3, <1>4, HasExtends
<1>6. ASSUME k = Len(q) PROVE FALSE
  <2>1. Y = Closed(D, p)
    BY <1>2, <1>6 DEF Components
  <2> HIDE DEF D, p, Y, c
  <2>2. Len(D) < Len(Y) /\ Len(D) \in Nat
    BY <1>2, <1>5 DEF Has
  <2>3. Y = Append(D, p)
    BY <2>1, <2>2 DEF Closed
  <2>4. Y[Len(D) + 1] = p
    BY <1>2, <2>3
  <2> QED
    BY <1>2, <1>5, <2>4, NotBoth
<1>7. ASSUME k < Len(q), q[k + 1] = "/" PROVE FALSE
  <2>1. k # 0
    BY <1>1, <1>7 DEF Above, Absolute
  <2>2. k + 1 \in 2..Len(q) /\ (k + 1) - 1 = k
    BY <1>1, <1>7, <2>1
  <2>3. p \notin {<<>>, <<".">>}
    BY <1>2, <1>7, <2>2 DEF Above, Tidy
  <2>4. Y[Len(D) + 1] = p
    BY <1>1, <1>2, <1>7, <2>3, ComponentOver
  <2> HIDE DEF D, p, Y, c
  <2> QED
    BY <1>2, <1>5, <2>4, NotBoth
<1>8. ASSUME k < Len(q), q[k + 1] # "/" PROVE q[k + 1] = c
  <2>1. k \in 0..(Len(q) - 1)
    BY <1>1, <1>8
  <2>2. Has(Y, D, p, q[k + 1])
    BY <1>2, <1>8, <2>1, ComponentGoesOn DEF Above
  <2> QED
    BY <1>5, <2>2 DEF Has
<1> QED
  BY <1>1, <1>6, <1>7, <1>8

LEMMA AboveStarts ==
  ASSUME NEW n \in Path, NEW q \in Path, Above(n, q)
  PROVE  Agree(n, q, Len(n)) /\ StartsWith(q, n)
<1> DEFINE S == {k \in 0..Len(n) : Agree(n, q, k)}
<1>1. Len(n) \in Nat /\ Len(q) \in Nat
  BY DEF Path
<1>2. 0 \in S
  BY <1>1 DEF Agree
<1>3. ASSUME NEW k \in 0..(Len(n) - 1), k \in S
      PROVE  k + 1 \in S
  <2>1. Agree(n, q, k)
    BY <1>3
  <2>2. k + 1 <= Len(q) /\ q[k + 1] = n[k + 1]
    BY <2>1, AgreeSlash, AgreeOther
  <2>3. \A i \in 1..(k + 1) : i \in 1..k \/ i = k + 1
    BY <1>1
  <2> QED
    BY <1>1, <2>1, <2>2, <2>3 DEF Agree
<1> HIDE DEF S
<1>4. 0..Len(n) \subseteq S
  BY <1>1, <1>2, <1>3, UpToInduction
<1>5. Agree(n, q, Len(n))
  BY <1>1, <1>4 DEF S
<1>6. SubSeq(q, 1, Len(n)) = n
  <2>1. SubSeq(q, 1, Len(n)) = [i \in 1..Len(n) |-> q[i]]
    BY <1>1, <1>5 DEF Agree, Path
  <2>2. n = [i \in 1..Len(n) |-> n[i]]
    BY DEF Path
  <2> QED
    BY <1>5, <2>1, <2>2 DEF Agree
<1> QED
  BY <1>5, <1>6 DEF Agree, StartsWith

LEMMA AttemptComplete ==
  ASSUME NEW n \in Path, NEW q \in Path, Above(n, q)
  PROVE  Attempt(n, q).kind # "skip"
<1>1. Agree(n, q, Len(n)) /\ StartsWith(q, n)
  BY AboveStarts
<1>2. Len(n) \in Nat /\ Len(q) \in Nat /\ Len(n) <= Len(q)
  BY <1>1 DEF Path, Agree
<1>3. CASE n = <<>>
  <2>1. ~Absolute(q)
    BY <1>3 DEF Above, Absolute
  <2>2. q # <<>> => Len(q) > 0
    BY <1>2 DEF Path
  <2> QED
    BY <1>1, <1>3, <2>1, <2>2 DEF Attempt, Found, Panic, Absolute
<1>4. CASE n = <<"/">> \/ (n # <<>> /\ Len(n) = Len(q))
  <2>1. CASE n = <<"/">>
    BY <1>1, <2>1 DEF Attempt, Found
  <2>2. CASE n # <<>> /\ n # <<"/">> /\ Len(n) = Len(q)
    BY <1>1, <2>2 DEF Attempt, Found
  <2> QED
    BY <1>4, <2>1, <2>2
<1>5. CASE n # <<>> /\ n # <<"/">> /\ Len(n) # Len(q)
  <2> DEFINE D == Scan(n)[Len(n)].done
             p == Scan(n)[Len(n)].part
             X == Components(n)
             Y == Components(q)
  <2>1. Len(n) \in 1..Len(n) /\ Len(n) \in 0..Len(n) /\ Len(n) \in 0..(Len(q) - 1)
    BY <1>2, <1>5 DEF Path
  <2>2. D = Scan(q)[Len(n)].done /\ p = Scan(q)[Len(n)].part /\ D \in Seq(Path) /\ p \in Path
    BY <1>1, <2>1, AgreeScan
  <2>3. X \in Seq(Path) /\ Y \in Seq(Path) /\ Extends(Y, X)
    BY ComponentsType DEF Above
  <2>4. n[Len(n)] # "/"
    <3>1. CASE Len(n) = 1
      <4>1. n = <<n[1]>>
        BY <3>1 DEF Path
      <4> QED
        BY <1>5, <3>1, <4>1
    <3>2. CASE Len(n) > 1
      BY <3>2 DEF Above
    <3>3. Len(n) = 1 \/ Len(n) > 1
      <4> DEFINE L == Len(n)
      <4>1. L \in Nat /\ L \in 1..L
        BY <1>2, <2>1
      <4> HIDE DEF L
      <4>2. L = 1 \/ L > 1
        BY <4>1
      <4> QED
        BY ONLY <4>2 DEF L
    <3> QED
      BY ONLY <3>1, <3>2, <3>3
  <2>5. p \notin {<<>>, <<".">>}
    <3>1. Scan(n)[Len(n)] = ScanStep(Scan(n)[Len(n) - 1], n[Len(n)])
      BY <2>1, ScanSteps
    <3>2. p = Append(Scan(n)[Len(n) - 1].part, n[Len(n)])
      BY <2>4, <3>1 DEF ScanStep
    <3>3. Scan(n)[Len(n) - 1] \in Scanned /\ n[Len(n)] \in Char
      <4>1. Len(n) - 1 \in 0..Len(n)
        BY <2>1
      <4> QED
        BY <2>1, <4>1, ScanType DEF Path
    <3>4. p # <<>>
      <4> DEFINE b == Scan(n)[Len(n) - 1].part
                 c == n[Len(n)]
      <4>1. b \in Path /\ c \in Char
        BY <3>3 DEF Scanned
      <4> HIDE DEF b, c
      <4>2. Append(b, c) # <<>>
        BY <4>1 DEF Path
      <4> QED
        BY <3>2, <4>2 DEF b, c
    <3> QED
      BY <3>4 DEF Above, Tidy
  <2>6. Len(D) < Len(X) /\ X[Len(D) + 1] = p
    BY <1>2, <2>1, <2>5, ComponentOver
  <2>7. q[Len(n) + 1] = "/"
    <3> SUFFICES ASSUME q[Len(n) + 1] # "/" PROVE FALSE
      OBVIOUS
    <3>1. Has(Y, D, p, q[Len(n) + 1])
      BY <2>1, <2>2, ComponentGoesOn DEF Above
    <3> HIDE DEF D, p, X, Y
    <3>2. Len(D) + 1 \in 1..Len(X)
      BY <2>2, <2>3, <2>6
    <3>3. Y[Len(D) + 1] = p
      BY <2>3, <2>6, <3>2 DEF Extends
    <3> QED
      BY <2>2, <3>1, <3>3, NotBoth
  <2> QED
    BY <1>1, <1>5, <2>7 DEF Attempt, Found
<1> QED
  BY <1>3, <1>4, <1>5

LEMMA TryComplete ==
  ASSUME NEW name \in Path, NEW p \in Path, PlainName(name), PlainPath(p),
         Absolute(name) <=> Absolute(p), StartsWith(Components(p), Components(name))
  PROVE  Try(name, p).kind # "skip"
<1> DEFINE n == StripName(name)
           q == StripPath(p)
<1>1. /\ n \in Path /\ Components(n) = Components(name) /\ (Absolute(n) <=> Absolute(name))
      /\ q \in Path /\ Components(q) = Components(p) /\ (Absolute(q) <=> Absolute(p))
  BY StripNameSound, StripPathSound
<1>2. Components(n) \in Seq(Path) /\ Components(q) \in Seq(Path)
  BY <1>1, ComponentsType
<1>3. Extends(Components(q), Components(n))
  <2> DEFINE X == Components(n)
             Y == Components(q)
  <2>1. Len(X) <= Len(Y) /\ SubSeq(Y, 1, Len(X)) = X
    BY <1>1 DEF StartsWith
  <2>2. X \in Seq(Path) /\ Y \in Seq(Path)
    BY <1>2
  <2> HIDE DEF X, Y
  <2>3. \A i \in 1..Len(X) : SubSeq(Y, 1, Len(X))[i] = Y[i]
    BY <2>1, <2>2
  <2>4. Extends(Y, X)
    BY <2>1, <2>3 DEF Extends
  <2> QED
    BY <2>4 DEF X, Y
<1>4. Above(n, q)
  BY <1>1, <1>3 DEF Above, PlainName, PlainPath
<1> HIDE DEF n, q
<1>5. Attempt(n, q).kind # "skip"
  BY <1>1, <1>4, AttemptComplete
<1> QED
  BY <1>5 DEF Try, n, q

-----------------------------------------------------------------------------
(***************************************************************************)
(* The order of names.                                                     *)
(***************************************************************************)
LEMMA RankIsNumber ==
  ASSUME NEW c \in Char
  PROVE  Rank(c) \in Int
BY DEF Rank, Char

\* The two kinds of Before, by elements.
Shorter(s, t) == s # t /\ Len(s) <= Len(t) /\ \A k \in 1..Len(s) : s[k] = t[k]
LowerAt(s, t, i) ==
  /\ i \in 1..Len(s) /\ i \in 1..Len(t)
  /\ \A k \in 1..(i - 1) : s[k] = t[k]
  /\ Rank(s[i]) < Rank(t[i])

LEMMA BeforeElements ==
  ASSUME NEW s \in Path, NEW t \in Path, Before(s, t)
  PROVE  Shorter(s, t) \/ \E i \in 1..Len(s) : LowerAt(s, t, i)
<1>1. CASE s # t /\ StartsWith(t, s)
  <2>1. Len(s) \in Nat
    BY DEF Path
  <2>2. Len(s) <= Len(t) /\ \A k \in 1..Len(s) : t[k] = s[k]
    BY <1>1, <2>1, StartsWithElements
  <2> QED
    BY <1>1, <2>2 DEF Shorter
<1>2. ASSUME NEW i \in 1..Len(s), i <= Len(t), SubSeq(s, 1, i - 1) = SubSeq(t, 1, i - 1),
             Rank(s[i]) < Rank(t[i])
      PROVE  LowerAt(s, t, i)
  <2>1. \A k \in 1..(i - 1) : SubSeq(s, 1, i - 1)[k] = s[k] /\ SubSeq(t, 1, i - 1)[k] = t[k]
    BY <1>2 DEF Path
  <2>2. \A k \in 1..(i - 1) : s[k] = t[k]
    BY <1>2, <2>1
  <2>3. i \in 1..Len(t)
    BY <1>2 DEF Path
  <2> QED
    BY <1>2, <2>2, <2>3 DEF LowerAt
<1> QED
  BY <1>1, <1>2 DEF Before

LEMMA BeforeAsymmetric ==
  ASSUME NEW s \in Path, NEW t \in Path, Before(s, t), Before(t, s)
  PROVE  FALSE
<1>1. \A k \in 1..Len(s) : Rank(s[k]) \in Int
  BY RankIsNumber DEF Path
<1>2. \A k \in 1..Len(t) : Rank(t[k]) \in Int
  BY RankIsNumber DEF Path
<1>3. Len(s) \in Nat /\ Len(t) \in Nat
  BY DEF Path
<1>4. CASE Shorter(s, t) /\ Shorter(t, s)
  <2>1. Len(s) = Len(t) /\ \A k \in 1..Len(s) : s[k] = t[k]
    BY <1>3, <1>4 DEF Shorter
  <2>2. s = t
    BY <2>1 DEF Path
  <2> QED
    BY <1>4, <2>2 DEF Shorter
<1>5. ASSUME NEW i \in 1..Len(t), Shorter(s, t), LowerAt(t, s, i)
      PROVE  FALSE
  BY <1>1, <1>5 DEF Shorter, LowerAt
<1>6. ASSUME NEW i \in 1..Len(s), Shorter(t, s), LowerAt(s, t, i)
      PROVE  FALSE
  BY <1>2, <1>6 DEF Shorter, LowerAt
<1>7. ASSUME NEW i \in 1..Len(s), NEW j \in 1..Len(t), LowerAt(s, t, i), LowerAt(t, s, j)
      PROVE  FALSE
  <2>1. CASE i < j
    BY <1>1, <1>7, <2>1 DEF LowerAt
  <2>2. CASE j < i
    BY <1>1, <1>7, <2>2 DEF LowerAt
  <2>3. CASE i = j
    BY <1>1, <1>2, <1>7, <2>3 DEF LowerAt
  <2> QED
    BY <2>1, <2>2, <2>3
<1> QED
  BY <1>4, <1>5, <1>6, <1>7, BeforeElements

\* The first of a set of names that are tried in order is the one that
\* GetHostPreopen chooses.
LEMMA FirstIsChosen ==
  ASSUME NEW names, names \subseteq Path, NEW p, NEW n \in Candidates(names, p),
         \A m \in Candidates(names, p) : m = n \/ Before(n, m)
  PROVE  n = GetHostPreopen(names, p)
<1> DEFINE First(x) == \A m \in Candidates(names, p) : m = x \/ Before(x, m)
<1>1. GetHostPreopen(names, p) = CHOOSE x \in Candidates(names, p) : First(x)
  BY DEF GetHostPreopen
<1>2. First(n)
  OBVIOUS
<1>3. \A x, y \in Candidates(names, p) : First(x) /\ First(y) => x = y
  BY BeforeAsymmetric DEF Candidates
<1> HIDE DEF First
<1> QED
  BY <1>1, <1>2, <1>3

LEMMA RankInjective ==
  ASSUME NEW c \in Char, NEW d \in Char, Rank(c) = Rank(d)
  PROVE  c = d
<1>1. Alphabet[Rank(c)] = c /\ Alphabet[Rank(d)] = d
  BY DEF Rank, Char
<1> QED
  BY <1>1

LEMMA ShorterBefore ==
  ASSUME NEW s \in Path, NEW t \in Path, Shorter(s, t)
  PROVE  Before(s, t)
<1>1. Len(s) \in Nat /\ Len(t) \in Nat /\ Len(s) <= Len(t)
  BY DEF Path, Shorter
<1>2. SubSeq(t, 1, Len(s)) = [i \in 1..Len(s) |-> t[i]]
  BY <1>1 DEF Path
<1>3. s = [i \in 1..Len(s) |-> s[i]]
  BY DEF Path
<1>4. SubSeq(t, 1, Len(s)) = s
  BY <1>2, <1>3 DEF Shorter
<1> QED
  BY <1>1, <1>4 DEF Before, StartsWith, Shorter

LEMMA LowerBefore ==
  ASSUME NEW s \in Path, NEW t \in Path, NEW i, LowerAt(s, t, i)
  PROVE  Before(s, t)
<1>1. /\ Len(s) \in Nat /\ Len(t) \in Nat /\ i \in 1..Len(s) /\ i <= Len(t)
      /\ Rank(s[i]) < Rank(t[i])
  BY DEF Path, LowerAt
<1>2. /\ SubSeq(s, 1, i - 1) = [k \in 1..(i - 1) |-> s[k]]
      /\ SubSeq(t, 1, i - 1) = [k \in 1..(i - 1) |-> t[k]]
  BY <1>1 DEF Path
<1>3. SubSeq(s, 1, i - 1) = SubSeq(t, 1, i - 1)
  BY <1>2 DEF LowerAt
<1> QED
  BY <1>1, <1>3 DEF Before

LEMMA BeforeTransitive ==
  ASSUME NEW s \in Path, NEW t \in Path, NEW u \in Path, Before(s, t), Before(t, u)
  PROVE  Before(s, u)
<1>1. /\ \A k \in 1..Len(s) : Rank(s[k]) \in Int
      /\ \A k \in 1..Len(t) : Rank(t[k]) \in Int
      /\ \A k \in 1..Len(u) : Rank(u[k]) \in Int
  BY RankIsNumber DEF Path
<1>2. Len(s) \in Nat /\ Len(t) \in Nat /\ Len(u) \in Nat
  BY DEF Path
<1>3. CASE Shorter(s, t) /\ Shorter(t, u)
  <2>1. s # u
    <3>1. ASSUME s = u PROVE Len(s) = Len(t) /\ \A k \in 1..Len(s) : s[k] = t[k]
      BY <1>2, <1>3, <3>1 DEF Shorter
    <3>2. ASSUME s = u PROVE s = t
      BY <3>1, <3>2 DEF Path
    <3> QED
      BY <1>3, <3>2 DEF Shorter
  <2>2. Shorter(s, u)
    BY <1>2, <1>3, <2>1 DEF Shorter
  <2> QED
    BY <2>2, ShorterBefore
<1>4. ASSUME NEW i \in 1..Len(t), Shorter(s, t), LowerAt(t, u, i)
      PROVE  Before(s, u)
  <2>1. CASE i <= Len(s)
    <3>1. LowerAt(s, u, i)
      BY <1>2, <1>4, <2>1 DEF Shorter, LowerAt
    <3> QED
      BY <3>1, LowerBefore
  <2>2. CASE i > Len(s)
    <3>1. Len(s) < Len(u) /\ \A k \in 1..Len(s) : s[k] = u[k]
      BY <1>2, <1>4, <2>2 DEF Shorter, LowerAt
    <3>2. Shorter(s, u)
      BY <1>2, <3>1 DEF Shorter
    <3> QED
      BY <3>2, ShorterBefore
  <2> QED
    BY <1>2, <2>1, <2>2
<1>5. ASSUME NEW i \in 1..Len(s), LowerAt(s, t, i), Shorter(t, u)
      PROVE  Before(s, u)
  <2>1. LowerAt(s, u, i)
    BY <1>2, <1>5 DEF Shorter, LowerAt
  <2> QED
    BY <2>1, LowerBefore
<1>6. ASSUME NEW i \in 1..Len(s), NEW j \in 1..Len(t), LowerAt(s, t, i), LowerAt(t, u, j)
      PROVE  Before(s, u)
  <2>1. CASE i < j
    <3>1. LowerAt(s, u, i)
      BY <1>2, <1>6, <2>1 DEF LowerAt
    <3> QED
      BY <3>1, LowerBefore
  <2>2. CASE j < i
    <3>1. LowerAt(s, u, j)
      BY <1>2, <1>6, <2>2 DEF LowerAt
    <3> QED
      BY <3>1, LowerBefore
  <2>3. CASE i = j
    <3>1. LowerAt(s, u, i)
      BY <1>1, <1>2, <1>6, <2>3 DEF LowerAt
    <3> QED
      BY <3>1, LowerBefore
  <2> QED
    BY <2>1, <2>2, <2>3
<1> QED
  BY <1>3, <1>4, <1>5, <1>6, BeforeElements

LEMMA BeforeTotal ==
  ASSUME NEW s \in Path, NEW t \in Path, s # t
  PROVE  Before(s, t) \/ Before(t, s)
<1>1. Len(s) \in Nat /\ Len(t) \in Nat
  BY DEF Path
<1>2. (\A k \in 1..Len(s) : Rank(s[k]) \in Int) /\ (\A k \in 1..Len(t) : Rank(t[k]) \in Int)
  BY RankIsNumber DEF Path
<1> DEFINE D == {k \in 1..Len(s) : k \in 1..Len(t) /\ s[k] # t[k]}
<1>3. CASE D = {}
  <2>1. CASE Len(s) <= Len(t)
    <3>1. Shorter(s, t)
      BY <1>1, <1>3, <2>1 DEF Shorter
    <3> QED
      BY <3>1, ShorterBefore
  <2>2. CASE Len(t) <= Len(s)
    <3>1. Shorter(t, s)
      BY <1>1, <1>3, <2>2 DEF Shorter
    <3> QED
      BY <3>1, ShorterBefore
  <2> QED
    BY <1>1, <2>1, <2>2
<1>4. CASE D # {}
  <2>1. D \subseteq Nat
    OBVIOUS
  <2>2. PICK i \in D : \A k \in D : i <= k
    <3> HIDE DEF D
    <3> QED
      BY <1>4, <2>1, Least
  <2>3. /\ i \in 1..Len(s) /\ i \in 1..Len(t) /\ s[i] # t[i]
        /\ \A k \in 1..(i - 1) : s[k] = t[k]
    BY <1>1, <2>2
  <2>4. s[i] \in Char /\ t[i] \in Char
    BY <2>3 DEF Path
  <2>5. Rank(s[i]) # Rank(t[i])
    BY <2>3, <2>4, RankInjective
  <2>6. LowerAt(s, t, i) \/ LowerAt(t, s, i)
    BY <1>2, <2>3, <2>5 DEF LowerAt
  <2> QED
    BY <2>6, LowerBefore
<1> QED
  BY <1>3, <1>4

\* Some of the names in a list: there is a first of them, if there is any.
LEMMA FirstExists ==
  ASSUME NEW n \in Nat, NEW f, \A i \in 1..n : f[i] \in Path,
         NEW C, C # {}, C \subseteq {f[i] : i \in 1..n}
  PROVE  \E x \in C : \A y \in C : y = x \/ Before(x, y)
<1> DEFINE Cut(k) == C \cap {f[i] : i \in 1..k}
           HasFirst(k) == \E x \in Cut(k) : \A y \in Cut(k) : y = x \/ Before(x, y)
           S == {k \in 0..n : Cut(k) = {} \/ HasFirst(k)}
<1>1. 0 \in S
  OBVIOUS
<1>2. ASSUME NEW k \in 0..(n - 1), k \in S
      PROVE  k + 1 \in S
  <2> DEFINE z == f[k + 1]
  <2>1. k + 1 \in 0..n /\ k + 1 \in 1..n /\ \A i \in 1..(k + 1) : i \in 1..k \/ i = k + 1
    OBVIOUS
  <2>2. z \in Path /\ \A i \in 1..k : f[i] \in Path
    BY <2>1
  <2>3. Cut(k + 1) = Cut(k) \cup (C \cap {z})
    BY <2>1
  <2>4. Cut(k) \subseteq Path
    BY <2>2
  <2>5. Cut(k) = {} \/ HasFirst(k)
    BY <1>2
  <2> HIDE DEF Cut, z
  <2>6. CASE z \notin C
    BY <2>1, <2>3, <2>5, <2>6
  <2>7. CASE z \in C /\ Cut(k) = {}
    BY <2>1, <2>3, <2>7
  <2>8. CASE z \in C /\ HasFirst(k)
    <3>1. PICK x \in Cut(k) : \A y \in Cut(k) : y = x \/ Before(x, y)
      BY <2>8
    <3>2. CASE z = x \/ Before(x, z)
      BY <2>1, <2>3, <3>1, <3>2
    <3>3. CASE Before(z, x)
      <4>1. \A y \in Cut(k) : y = z \/ Before(z, y)
        BY <2>2, <2>4, <3>1, <3>3, BeforeTransitive
      <4> QED
        BY <2>1, <2>3, <2>8, <4>1
    <3> QED
      BY <2>2, <2>4, <3>1, <3>2, <3>3, BeforeTotal
  <2> QED
    BY <2>5, <2>6, <2>7, <2>8
<1>3. n \in S
  <2> HIDE DEF S
  <2> QED
    BY <1>1, <1>2, UpToInduction
<1>4. Cut(n) = C
  OBVIOUS
<1> HIDE DEF Cut
<1> QED
  BY <1>3, <1>4

\* GetHostPreopen chooses one of its candidates.
LEMMA ChosenIsCandidate ==
  ASSUME NEW n \in Nat, NEW f, \A i \in 1..n : f[i] \in Path,
         NEW names, names = {f[i] : i \in 1..n}, NEW p, Candidates(names, p) # {}
  PROVE  GetHostPreopen(names, p) \in Candidates(names, p)
<1> DEFINE C == Candidates(names, p)
<1>1. C \subseteq {f[i] : i \in 1..n} /\ C # {}
  BY DEF Candidates
<1>2. GetHostPreopen(names, p) = CHOOSE x \in C : \A y \in C : y = x \/ Before(x, y)
  BY DEF GetHostPreopen
<1> HIDE DEF C
<1>3. \E x \in C : \A y \in C : y = x \/ Before(x, y)
  BY <1>1, FirstExists
<1>4. GetHostPreopen(names, p) \in C
  BY <1>2, <1>3
<1> QED
  BY <1>4 DEF C

-----------------------------------------------------------------------------
(***************************************************************************)
(* The loop.                                                               *)
(***************************************************************************)
\* What is tried has been skipped; a match is the least of what is left.
IInv ==
  /\ path \in HostPaths
  /\ preopens \subseteq Names
  /\ tried \subseteq preopens
  /\ \A name \in tried : Try(name, path).kind = "skip"
  /\ outcome.kind \in {"searching", "found", "none", "panic"}
  /\ outcome.kind = "searching" => outcome = Searching
  /\ outcome.kind = "none" => tried = preopens
  /\ outcome.kind \in {"found", "panic"} =>
       /\ matched \in preopens \ tried
       /\ \A m \in preopens \ tried : m = matched \/ Before(matched, m)
       /\ outcome = Try(matched, path)

LEMMA InitIInv == Init => IInv
BY DEF Init, IInv, Searching

LEMMA StepIInv == IInv /\ [Next]_vars => IInv'
<1> SUFFICES ASSUME IInv, [Next]_vars PROVE IInv'
  OBVIOUS
<1>1. CASE TryPreopen
  <2>1. PICK name \in preopens :
          /\ IsNext(name)
          /\ LET result == Try(name, path)
             IN  IF result.kind = "skip"
                 THEN tried' = tried \cup {name} /\ UNCHANGED <<matched, outcome>>
                 ELSE outcome' = result /\ matched' = name /\ UNCHANGED tried
    BY <1>1 DEF TryPreopen
  <2>2. outcome = Searching /\ UNCHANGED <<preopens, path>>
    BY <1>1 DEF TryPreopen
  <2>3. CASE Try(name, path).kind = "skip"
    BY <2>1, <2>2, <2>3 DEF IInv, Searching
  <2>4. CASE Try(name, path).kind # "skip"
    <3>1. Try(name, path).kind \in {"found", "panic"}
      BY <2>4 DEF Try, Attempt, Skip, Panic, Found
    <3> QED
      BY <2>1, <2>2, <2>4, <3>1 DEF IInv, IsNext
  <2> QED
    BY <2>3, <2>4
<1>2. CASE Exhausted
  BY <1>2 DEF Exhausted, IInv, None
<1>3. CASE UNCHANGED vars
  BY <1>3 DEF vars, IInv
<1> QED
  BY <1>1, <1>2, <1>3 DEF Next

LEMMA Invariance == Spec => []IInv
BY InitIInv, StepIInv, PTL DEF Spec

\* For plain names and paths, what the loop returns is the first preopen by name
\* that the path is under, and the rest denotes what is left of the path below it
\* (get_host_preopen).
THEOREM MatchesSound ==
  ASSUME PlainLookups
  PROVE  Spec => []MatchSound
<1>1. IInv => MatchSound
  <2> SUFFICES ASSUME IInv, outcome.kind = "found"
               PROVE  /\ matched = GetHostPreopen(preopens, path)
                      /\ Absolute(matched) = Absolute(path)
                      /\ Components(path) = Components(matched) \o Components(outcome.rest)
    BY DEF MatchSound
  <2>1. /\ matched \in Path /\ PlainName(matched) /\ path \in Path /\ PlainPath(path)
        /\ outcome = Try(matched, path) /\ preopens \subseteq Path
    BY DEF IInv, PlainLookups
  <2>2. /\ Components(path) = Components(matched) \o Components(outcome.rest)
        /\ Absolute(matched) <=> Absolute(path)
    BY <2>1, TrySound
  <2>3. matched \in Candidates(preopens, path)
    BY <2>1 DEF IInv, Candidates
  <2>4. \A m \in Candidates(preopens, path) : m = matched \/ Before(matched, m)
    BY DEF IInv, Candidates
  <2>5. matched = GetHostPreopen(preopens, path)
    BY <2>1, <2>3, <2>4, FirstIsChosen
  <2> QED
    BY <2>2, <2>5 DEF Absolute
<1> QED
  BY <1>1, Invariance, PTL

\* For plain names and paths, the loop looks at a byte that is not there only where
\* nothing is left of the path and the host has its current directory among its
\* preopens, and there it always does (get_host_preopen).
THEOREM PanicsAreKnown ==
  ASSUME PlainLookups
  PROVE  Spec => []PanicsForACause
<1>1. IInv => PanicsForACause
  <2> SUFFICES ASSUME IInv, outcome # Searching
               PROVE  outcome.kind = "panic" <=>
                        /\ Bare(path)
                        /\ \E name \in preopens : ~Absolute(name) /\ Components(name) = <<>>
    BY DEF PanicsForACause
  <2>1. /\ path \in Path /\ PlainPath(path)
        /\ \A name \in preopens : name \in Path /\ PlainName(name)
    BY DEF IInv, PlainLookups
  <2>2. ASSUME outcome.kind = "panic"
        PROVE  /\ Bare(path)
               /\ \E name \in preopens : ~Absolute(name) /\ Components(name) = <<>>
    <3>1. /\ matched \in preopens /\ matched \in Path /\ PlainName(matched)
          /\ Try(matched, path).kind = "panic"
      BY <2>1, <2>2 DEF IInv
    <3>2. Bare(path) /\ StripName(matched) = <<>>
      BY <3>1, TryKinds
    <3> QED
      BY <3>1, <3>2, NoNameSound
  <2>3. ASSUME Bare(path), NEW name \in preopens, ~Absolute(name), Components(name) = <<>>
        PROVE  outcome.kind = "panic"
    <3>1. ~Absolute(path) /\ Components(path) = <<>>
      BY <2>1, <2>3, BareSound
    <3>2. StartsWith(Components(path), Components(name))
      BY <2>3, <3>1 DEF StartsWith
    <3>3. Try(name, path).kind # "skip"
      BY <2>1, <2>3, <3>1, <3>2, TryComplete
    <3>4. outcome.kind # "none"
      BY <3>3 DEF IInv
    <3>5. ASSUME outcome.kind = "found" PROVE FALSE
      <4>1. /\ matched \in Path /\ PlainName(matched) /\ Try(matched, path).kind = "found"
        BY <2>1, <3>5 DEF IInv
      <4> QED
        BY <2>3, <4>1, TryKinds
    <3> QED
      BY <3>4, <3>5 DEF IInv
  <2> QED
    BY <2>2, <2>3
<1> QED
  BY <1>1, Invariance, PTL

\* A lookup that finds nothing has missed nothing: no preopen of the host is above
\* a path that get_host_preopen has no preopen for.
THEOREM NoneMissed ==
  ASSUME PlainLookups
  PROVE  Spec => []NoneMeansNone
<1>1. IInv => NoneMeansNone
  <2> SUFFICES ASSUME IInv, outcome.kind = "none", NEW name \in preopens,
                      Absolute(name) = Absolute(path),
                      StartsWith(Components(path), Components(name))
               PROVE  FALSE
    BY DEF NoneMeansNone
  <2>1. /\ name \in Path /\ PlainName(name) /\ path \in Path /\ PlainPath(path)
        /\ Try(name, path).kind = "skip"
    BY DEF IInv, PlainLookups
  <2>2. Absolute(name) <=> Absolute(path)
    OBVIOUS
  <2> QED
    BY <2>1, <2>2, TryComplete
<1> QED
  BY <1>1, Invariance, PTL

=============================================================================
