--------------------------- MODULE AdapterFsProofs ---------------------------
(***************************************************************************)
(* Proofs about AdapterFs, for every index, guest and host.                *)
(***************************************************************************)
EXTENDS AdapterFs, SequenceTheorems, TLAPS

-----------------------------------------------------------------------------
(***************************************************************************)
(* What is known of the lookup of host preopens.                           *)
(***************************************************************************)
Lookup == INSTANCE HostPreopenProofs WITH
  Names <- {}, HostPaths <- {}, MaxPreopens <- 0,
  preopens <- {}, tried <- {}, path <- <<>>, matched <- <<>>, outcome <- <<>>

LEMMA SameNames ==
  /\ Lookup!Path = Path
  /\ \A s : Lookup!Absolute(s) = Absolute(s)
  /\ \A s, t : Lookup!StartsWith(s, t) = StartsWith(s, t)
  /\ \A s, t : Lookup!Before(s, t) = Before(s, t)
BY DEF Lookup!Path, Path, Lookup!Char, Char, Lookup!Absolute, Absolute,
       Lookup!StartsWith, StartsWith, Lookup!Before, Before, Lookup!Rank, Rank

LEMMA SameComponents ==
  /\ \A s : Lookup!Scan(s) = Scan(s)
  /\ \A s : Lookup!Components(s) = Components(s)
  /\ \A s : Lookup!Tidy(s) = Tidy(s)
<1>1. \A s, t : Lookup!Closed(s, t) = Closed(s, t)
  BY DEF Lookup!Closed, Closed
<1>2. \A s : Lookup!Scan(s) = Scan(s)
  BY DEF Lookup!Closed, Closed, Lookup!Scan, Scan
<1> QED
  BY <1>1, <1>2, Zenon DEF Lookup!Components, Components, Lookup!Tidy, Tidy

LEMMA SameTry ==
  /\ \A s, t : Lookup!Try(s, t) = Try(s, t)
  /\ \A s, t : Lookup!Candidates(s, t) = Candidates(s, t)
  /\ \A s, t : Lookup!GetHostPreopen(s, t) = GetHostPreopen(s, t)
<1>1. \A s, t : Lookup!Attempt(s, t) = Attempt(s, t)
  BY DEF Lookup!Attempt, Attempt, Lookup!StartsWith, StartsWith, Lookup!Drop, Drop,
         Lookup!Skip, Skip, Lookup!Panic, Panic, Lookup!Found, Found
<1>2. \A s : Lookup!StripName(s) = StripName(s) /\ Lookup!StripPath(s) = StripPath(s)
  BY DEF Lookup!StripName, StripName, Lookup!StripPath, StripPath,
         Lookup!StartsWith, StartsWith, Lookup!Drop, Drop
<1>3. \A s, t : Lookup!Try(s, t) = Try(s, t)
  BY <1>1, <1>2, Zenon DEF Lookup!Try, Try
<1>4. \A s, t : Lookup!Candidates(s, t) = Candidates(s, t)
  BY <1>3 DEF Lookup!Candidates, Candidates
<1>5. \A s, t : Lookup!GetHostPreopen(s, t) = GetHostPreopen(s, t)
  BY <1>4, SameNames DEF Lookup!GetHostPreopen, GetHostPreopen
<1> QED
  BY <1>3, <1>4, <1>5

LEMMA SamePlain ==
  \A s : /\ Lookup!PlainName(s) = PlainName(s) /\ Lookup!PlainPath(s) = PlainPath(s)
         /\ Lookup!StripName(s) = StripName(s) /\ Lookup!Bare(s) = Bare(s)
<1>1. \A s : Lookup!StripName(s) = StripName(s) /\ Lookup!StripPath(s) = StripPath(s)
  BY DEF Lookup!StripName, StripName, Lookup!StripPath, StripPath,
         Lookup!StartsWith, StartsWith, Lookup!Drop, Drop
<1> QED
  BY <1>1, SameNames, SameComponents
  DEF Lookup!PlainName, PlainName, Lookup!PlainPath, PlainPath, Lookup!Bare, Bare

\* The name is that of a preopen which the path is under.
Holds(name, p) ==
  Absolute(name) = Absolute(p) /\ StartsWith(Components(p), Components(name))

LEMMA TryFinds ==
  ASSUME NEW name \in Path, NEW p \in Path, PlainName(name), PlainPath(p)
  PROVE  /\ Try(name, p).kind \in {"skip", "found", "panic"}
         /\ Try(name, p).kind = "panic" => Bare(p) /\ Holds(name, p)
         /\ Try(name, p).kind = "found" =>
              /\ Components(p) = Components(name) \o Components(Try(name, p).rest)
              /\ Absolute(name) <=> Absolute(p)
         /\ /\ Absolute(name) <=> Absolute(p)
            /\ StartsWith(Components(p), Components(name))
            => Try(name, p).kind # "skip"
         /\ Components(name) \in Seq(Path) /\ Components(p) \in Seq(Path)
         /\ Try(name, p).kind = "found" => Components(Try(name, p).rest) \in Seq(Path)
<1>1. /\ name \in Lookup!Path /\ p \in Lookup!Path
      /\ Lookup!PlainName(name) /\ Lookup!PlainPath(p)
  BY SameNames, SamePlain
<1>2. /\ Lookup!Try(name, p).kind \in {"skip", "found", "panic"}
      /\ Lookup!Try(name, p).kind = "panic" =>
           Lookup!Bare(p) /\ Lookup!StripName(name) = <<>>
      /\ Lookup!Try(name, p).kind = "found" =>
           /\ Lookup!Try(name, p).rest \in Lookup!Path
           /\ Lookup!Components(p) =
                Lookup!Components(name) \o Lookup!Components(Lookup!Try(name, p).rest)
           /\ Lookup!Absolute(name) <=> Lookup!Absolute(p)
      /\ /\ Lookup!Absolute(name) <=> Lookup!Absolute(p)
         /\ Lookup!StartsWith(Lookup!Components(p), Lookup!Components(name))
         => Lookup!Try(name, p).kind # "skip"
      /\ \A s \in Lookup!Path : Lookup!Components(s) \in Seq(Lookup!Path)
  BY <1>1, Lookup!TryKinds, Lookup!TrySound, Lookup!TryComplete, Lookup!ComponentsType
<1>3. ASSUME Try(name, p).kind = "panic"
      PROVE  Bare(p) /\ Holds(name, p)
  <2>1. Lookup!Try(name, p).kind = "panic"
    BY <1>3, SameTry
  <2>2. Lookup!Bare(p) /\ Lookup!StripName(name) = <<>>
    BY <1>2, <2>1
  <2>3. /\ ~Absolute(p) /\ Components(p) = <<>>
        /\ ~Absolute(name) /\ Components(name) = <<>>
    BY <1>1, <2>2, Lookup!BareSound, Lookup!NoNameSound, SameNames, SameComponents
  <2>4. StartsWith(<<>>, <<>>)
    BY DEF StartsWith
  <2> QED
    BY <2>2, <2>3, <2>4, SamePlain DEF Holds, Absolute
<1>4. /\ Try(name, p).kind \in {"skip", "found", "panic"}
      /\ Try(name, p).kind = "found" =>
           /\ Components(p) = Components(name) \o Components(Try(name, p).rest)
           /\ Absolute(name) <=> Absolute(p)
      /\ /\ Absolute(name) <=> Absolute(p)
         /\ StartsWith(Components(p), Components(name))
         => Try(name, p).kind # "skip"
      /\ Components(name) \in Seq(Path) /\ Components(p) \in Seq(Path)
      /\ Try(name, p).kind = "found" => Components(Try(name, p).rest) \in Seq(Path)
  BY <1>1, <1>2, SameNames, SameComponents, SameTry, Zenon
<1> QED
  BY <1>3, <1>4

\* The map of the host's preopens holds, for each name, one with that name.
LEMMA HostMapped ==
  ASSUME NEW list, Len(list) \in Nat
  PROVE  /\ DOMAIN HostMap(list) = {list[i].name : i \in 1..Len(list)}
         /\ \A n \in DOMAIN HostMap(list) : \E j \in 1..Len(list) :
              list[j].name = n /\ HostMap(list)[n] = list[j].dir
<1> DEFINE Last(n, i) == /\ list[i].name = n
                         /\ \A j \in 1..Len(list) : j > i => list[j].name # n
<1>1. /\ DOMAIN HostMap(list) = {list[i].name : i \in 1..Len(list)}
      /\ \A n \in DOMAIN HostMap(list) :
           HostMap(list)[n] = list[CHOOSE i \in 1..Len(list) : Last(n, i)].dir
  BY DEF HostMap
<1>2. ASSUME NEW n \in DOMAIN HostMap(list)
      PROVE  \E i \in 1..Len(list) : Last(n, i)
  <2> DEFINE L == Len(list)
             T == {m \in 0..L : \E i \in 1..L : m = L - i /\ list[i].name = n}
  <2>0. L \in Nat
    OBVIOUS
  <2>1. T # {} /\ T \subseteq Nat
    <3>1. PICK i \in 1..L : list[i].name = n
      BY <1>1
    <3> HIDE DEF L
    <3>2. L - i \in T
      BY <2>0, <3>1
    <3>3. T \subseteq Nat
      BY <2>0
    <3> HIDE DEF T
    <3> QED
      BY <3>2, <3>3
  <2>2. PICK m \in T : \A l \in T : m <= l
    <3> HIDE DEF T
    <3> QED
      BY <2>1, Lookup!Least
  <2>3. PICK i \in 1..L : m = L - i /\ list[i].name = n
    BY <2>2
  <2>4. ASSUME NEW j \in 1..L, j > i, list[j].name = n
        PROVE  FALSE
    <3> HIDE DEF L
    <3>1. L - j \in T
      BY <2>0, <2>4
    <3>2. m <= L - j
      BY <2>2, <3>1
    <3> QED
      BY <2>0, <2>3, <2>4, <3>2
  <2> QED
    BY <2>3, <2>4
<1> HIDE DEF Last
<1>3. ASSUME NEW n \in DOMAIN HostMap(list)
      PROVE  \E j \in 1..Len(list) : Last(n, j) /\ HostMap(list)[n] = list[j].dir
  BY <1>1, <1>2
<1> QED
  BY <1>1, <1>3 DEF Last

LEMMA ConcatParts ==
  ASSUME NEW S, NEW a \in Seq(S), NEW b \in Seq(S)
  PROVE  Drop(a \o b, Len(a)) = b /\ StartsWith(a \o b, a)
<1>1. /\ Len(a \o b) = Len(a) + Len(b) /\ Len(a) \in Nat /\ Len(b) \in Nat
      /\ a \o b \in Seq(S)
      /\ \A i \in 1..Len(a) : (a \o b)[i] = a[i]
      /\ \A i \in 1..Len(b) : (a \o b)[Len(a) + i] = b[i]
  OBVIOUS
<1> DEFINE c == a \o b
           n == Len(a)
           d == SubSeq(c, n + 1, Len(c))
           e == SubSeq(c, 1, n)
<1>2. /\ c \in Seq(S) /\ Len(c) = n + Len(b) /\ n \in Nat
      /\ \A i \in 1..n : c[i] = a[i]
      /\ \A i \in 1..Len(b) : c[n + i] = b[i]
  BY <1>1
<1> HIDE DEF c, n
<1>3. d = [i \in 1..Len(b) |-> c[n + i]]
  BY <1>1, <1>2
<1>4. e = [i \in 1..n |-> c[i]]
  BY <1>1, <1>2
<1>5. d = b
  <2>1. b = [i \in 1..Len(b) |-> b[i]]
    OBVIOUS
  <2> QED
    BY <1>2, <1>3, <2>1
<1>6. e = a
  BY <1>2, <1>4 DEF n
<1> QED
  BY <1>1, <1>2, <1>5, <1>6 DEF Drop, StartsWith, c, n

\* What the lookup finds for a host path is a preopen that the path is under,
\* and it finds one if there is one, or panics with nothing of the path left.
LEMMA LookupFinds ==
  ASSUME HostLookups, NEW w \in Worlds, NEW k \in 1..Len(w.index),
         w.index[k].ty \in RuntimeTypes,
         NEW p, p = w.index[k].data[1],
         NEW names, names = DOMAIN HostMap(w.host_list),
         NEW name, name = GetHostPreopen(names, p)
  PROVE  /\ Candidates(names, p) = {} => \A n \in names : ~Holds(n, p)
         /\ Candidates(names, p) # {} =>
              /\ Try(name, p).kind \in {"found", "panic"}
              /\ name \in names /\ Holds(name, p)
              /\ Try(name, p).kind = "panic" => Bare(p)
              /\ Try(name, p).kind = "found" =>
                   /\ Components(Try(name, p).rest) =
                        Drop(Components(p), Len(Components(name)))
                   /\ Components(Try(name, p).rest) \in Seq(Path)
<1> DEFINE list == w.host_list
           f == [i \in 1..Len(list) |-> list[i].name]
<1>1. Len(list) \in Nat
  BY WorldsAssumption DEF HostSound
<1>2. /\ names = {f[i] : i \in 1..Len(list)}
      /\ \A i \in 1..Len(list) : f[i] \in Path /\ PlainName(f[i])
      /\ p \in Path /\ PlainPath(p)
  <2>1. names = {list[i].name : i \in 1..Len(list)}
    BY <1>1, HostMapped
  <2>2. \A i \in 1..Len(list) : f[i] = list[i].name
    OBVIOUS
  <2>3. {list[i].name : i \in 1..Len(list)} = {f[i] : i \in 1..Len(list)}
    BY <2>2
  <2>4. \A i \in 1..Len(list) : list[i].name \in Path /\ PlainName(list[i].name)
    BY DEF HostLookups
  <2>5. p \in Path /\ PlainPath(p)
    BY DEF HostLookups
  <2> HIDE DEF f, list
  <2> QED
    BY <2>1, <2>2, <2>3, <2>4, <2>5
<1> HIDE DEF f
<1>3. \A n \in names : n \in Path /\ PlainName(n)
  BY <1>2
<1>4. CASE Candidates(names, p) = {}
  <2>1. ASSUME NEW n \in names, Holds(n, p)
        PROVE  FALSE
    <3>1. Try(n, p).kind # "skip"
      BY <1>2, <1>3, <2>1, TryFinds DEF Holds
    <3> QED
      BY <1>4, <3>1 DEF Candidates
  <2> QED
    BY <1>4, <2>1
<1>5. CASE Candidates(names, p) # {}
  <2>1. name \in Candidates(names, p)
    <3> DEFINE L == Len(list)
    <3>1. /\ L \in Nat /\ \A i \in 1..L : f[i] \in Lookup!Path
          /\ names = {f[i] : i \in 1..L}
          /\ Lookup!Candidates(names, p) # {}
      BY <1>1, <1>2, <1>5, SameNames, SameTry
    <3> HIDE DEF L
    <3>2. Lookup!GetHostPreopen(names, p) \in Lookup!Candidates(names, p)
      BY <3>1, Lookup!ChosenIsCandidate
    <3> QED
      BY <3>2, SameTry
  <2>2. name \in names /\ Try(name, p).kind # "skip"
    BY <2>1 DEF Candidates
  <2>3. name \in Path /\ PlainName(name)
    BY <1>3, <2>2
  <2>4. /\ Try(name, p).kind \in {"found", "panic"}
        /\ Try(name, p).kind = "panic" => Bare(p) /\ Holds(name, p)
    BY <1>2, <2>2, <2>3, TryFinds
  <2>5. CASE Try(name, p).kind = "panic"
    BY <1>5, <2>2, <2>4, <2>5
  <2>6. CASE Try(name, p).kind = "found"
    <3>1. /\ Components(p) = Components(name) \o Components(Try(name, p).rest)
          /\ Absolute(name) = Absolute(p)
          /\ Components(name) \in Seq(Path)
          /\ Components(Try(name, p).rest) \in Seq(Path)
      BY <1>2, <2>3, <2>6, TryFinds DEF Absolute
    <3> DEFINE a == Components(name)
               b == Components(Try(name, p).rest)
    <3>2. /\ Drop(a \o b, Len(a)) = b /\ StartsWith(a \o b, a)
      <4>1. a \in Seq(Path) /\ b \in Seq(Path)
        BY <3>1
      <4> HIDE DEF a, b
      <4> QED
        BY <4>1, ConcatParts
    <3> QED
      BY <1>5, <2>2, <2>6, <3>1, <3>2 DEF Holds
  <2> QED
    BY <2>4, <2>5, <2>6
<1> QED
  BY <1>4, <1>5

-----------------------------------------------------------------------------
(***************************************************************************)
(* The index.                                                              *)
(***************************************************************************)
LEMMA IndexFacts ==
  ASSUME NEW w \in Worlds, NEW k \in 1..Len(w.index)
  PROVE  /\ Len(w.index) \in Nat
         /\ w.index[k].ty \in {"dir", "rdir", "rfile", "active", "passive"}
         /\ \/ w.index[k].ty = w.tree.ty[w.origin[k]]
            \/ w.index[k].ty \in {"active", "passive"} /\ w.tree.ty[w.origin[k]] = "file"
         /\ w.index[k].ty \notin DirTypes \cup RuntimeTypes =>
              w.index[k].data[2] \in 0..(UsizeMod - 1)
         /\ w.index[k].ty = "dir" =>
              /\ SliceInBounds(w.index, k)
              /\ ChildCount(w.index, k) \in Nat
              /\ ChildFirst(w.index, k) \in Nat
              /\ ChildPositions(w.index, k) \subseteq 1..Len(w.index)
<1> DEFINE i == w.index
           n == w.origin[k]
<1>1. /\ Len(i) \in Nat /\ Represents(i, w.origin, w.tree) /\ Sound(i, w.origin, w.tree)
  BY WorldsAssumption
<1>2. /\ w.tree.ty[n] \in {"dir", "file"} \cup RuntimeTypes
      /\ i[k].ty = IF w.tree.ty[n] # "file" THEN w.tree.ty[n]
                   ELSE IF w.tree.passive[n] THEN "passive" ELSE "active"
      /\ w.tree.ty[n] = "file" => i[k].data[2] = w.tree.size[n]
  BY <1>1 DEF Represents
<1>3. /\ w.tree.ty[n] = "dir" => i[k].data[1] \in Nat /\ i[k].data[2] \in Nat
      /\ w.tree.ty[n] = "file" => w.tree.size[n] \in 0..(UsizeMod - 1)
  BY <1>1 DEF Sound
<1>4. i[k].ty = "dir" => SliceInBounds(i, k)
  BY <1>1 DEF Represents, ListsChildren
<1> HIDE DEF i, n
<1>5. /\ i[k].ty \in {"dir", "rdir", "rfile", "active", "passive"}
      /\ \/ i[k].ty = w.tree.ty[n]
         \/ i[k].ty \in {"active", "passive"} /\ w.tree.ty[n] = "file"
  <2>1. CASE w.tree.ty[n] = "file"
    BY <1>2, <2>1
  <2>2. CASE w.tree.ty[n] \in {"dir", "rdir", "rfile"}
    BY <1>2, <2>2
  <2> QED
    BY <1>2, <2>1, <2>2 DEF RuntimeTypes
<1>6. i[k].ty \notin DirTypes \cup RuntimeTypes => i[k].data[2] \in 0..(UsizeMod - 1)
  BY <1>2, <1>3, <1>5 DEF DirTypes, RuntimeTypes
<1>7. i[k].ty = "dir" =>
        /\ ChildCount(i, k) \in Nat /\ ChildFirst(i, k) \in Nat
        /\ ChildPositions(i, k) \subseteq 1..Len(i)
  <2> SUFFICES ASSUME i[k].ty = "dir"
               PROVE  /\ ChildCount(i, k) \in Nat /\ ChildFirst(i, k) \in Nat
                      /\ ChildPositions(i, k) \subseteq 1..Len(i)
    OBVIOUS
  <2>1. i[k].data[1] \in Nat /\ i[k].data[2] \in Nat
    BY <1>2, <1>3, <1>5
  <2>2. k + i[k].data[1] + i[k].data[2] - 1 <= Len(i)
    BY <1>4, <2>1 DEF SliceInBounds, ChildFirst, ChildCount
  <2>3. k \in Nat \ {0}
    BY <1>1 DEF i
  <2> DEFINE a == k + i[k].data[1]
             b == i[k].data[2]
             L == Len(i)
  <2>4. a \in Nat \ {0} /\ b \in Nat /\ L \in Nat /\ a + b - 1 <= L
    <3>1. a \in Nat \ {0}
      BY <2>1, <2>3
    <3> QED
      BY <1>1, <2>1, <2>2, <3>1
  <2>5. ChildFirst(i, k) = a /\ ChildCount(i, k) = b /\ ChildPositions(i, k) = a..(a + b - 1)
    BY DEF ChildCount, ChildFirst, ChildPositions
  <2> HIDE DEF a, b, L
  <2>6. a..(a + b - 1) \subseteq 1..L
    BY <2>4
  <2> QED
    BY <2>4, <2>5, <2>6 DEF L
<1> QED
  BY <1>1, <1>4, <1>5, <1>6, <1>7 DEF i, n

(***************************************************************************)
(* dir_lookup, one part of the path at a time.                             *)
(***************************************************************************)
StepAt(i, from, path, m) == Step(i, from, path[m], m = Len(path))

WalkOf(i, k, path, n, g) ==
  g = [m \in 0..n |-> IF m = 0 THEN Ok(k)
                      ELSE StepAt(i, g[m - 1], path, m)]

Walk(i, k, path) == CHOOSE g : WalkOf(i, k, path, Len(path), g)

LEMMA WalkExists ==
  ASSUME NEW i, NEW k, NEW path, NEW n \in Nat
  PROVE  \E g : WalkOf(i, k, path, n, g)
<1> DEFINE S == {m \in 0..n : \E g : WalkOf(i, k, path, m, g)}
<1>1. 0 \in S
  <2> DEFINE g == [m \in 0..0 |-> Ok(k)]
  <2>1. WalkOf(i, k, path, 0, g)
    BY DEF WalkOf
  <2> QED
    BY <2>1
<1>2. ASSUME NEW m \in 0..(n - 1), m \in S
      PROVE  m + 1 \in S
  <2>1. PICK g : WalkOf(i, k, path, m, g)
    BY <1>2
  <2> DEFINE h == [l \in 0..(m + 1) |->
                     IF l = m + 1 THEN StepAt(i, g[m], path, m + 1)
                     ELSE g[l]]
  <2>2. ASSUME NEW l \in 0..(m + 1)
        PROVE  h[l] = IF l = 0 THEN Ok(k)
                      ELSE StepAt(i, h[l - 1], path, l)
    BY <2>1 DEF WalkOf
  <2>3. WalkOf(i, k, path, m + 1, h)
    BY <2>2 DEF WalkOf
  <2> QED
    BY <2>3
<1> HIDE DEF S
<1>3. n \in S
  BY <1>1, <1>2, Lookup!UpToInduction
<1> QED
  BY <1>3 DEF S

LEMMA WalkDef ==
  ASSUME NEW i, NEW k, NEW path, Len(path) \in Nat
  PROVE  WalkOf(i, k, path, Len(path), Walk(i, k, path))
BY WalkExists DEF Walk

LEMMA WalkLast ==
  ASSUME NEW i, NEW k, NEW path, path # <<Empty>>
  PROVE  DirLookup(i, k, path) = Walk(i, k, path)[Len(path)]
BY DEF DirLookup, Walk, WalkOf, StepAt

LEMMA WalkSteps ==
  ASSUME NEW i, NEW k, NEW path, NEW n \in Nat, NEW W, WalkOf(i, k, path, n, W)
  PROVE  W[0] = Ok(k) /\ \A m \in 1..n : W[m] = StepAt(i, W[m - 1], path, m)
<1>1. W = [m \in 0..n |-> IF m = 0 THEN Ok(k) ELSE StepAt(i, W[m - 1], path, m)]
  BY DEF WalkOf
<1>2. 0 \in 0..n /\ \A m \in 1..n : m \in 0..n /\ m # 0
  OBVIOUS
<1> QED
  BY <1>1, <1>2

\* The slice of a directory is sorted, as its children are.
LEMMA IndexSorted ==
  ASSUME NEW w \in Worlds, NEW k \in 1..Len(w.index), w.index[k].ty = "dir"
  PROVE  Sorted(w.index, k)
<1> DEFINE i == w.index
           listed == w.tree.children[w.origin[k]]
           first == ChildFirst(i, k)
           nameof(n) == w.tree.name[n]
<1>1. /\ Represents(i, w.origin, w.tree) /\ Sound(i, w.origin, w.tree)
      /\ first \in Nat /\ ChildCount(i, k) \in Nat /\ ChildPositions(i, k) \subseteq 1..Len(i)
  BY WorldsAssumption, IndexFacts
<1>2. /\ ChildCount(i, k) = Len(listed)
      /\ \A c \in 1..Len(listed) : w.origin[first + c - 1] = listed[c]
      /\ \A p \in 1..Len(i) : i[p].name = nameof(w.origin[p])
      /\ \A c, d \in 1..Len(listed) :
           c < d => <<nameof(listed[c]), nameof(listed[d])>> \in ByteOrder
  BY <1>1 DEF Represents, ListsChildren, Sound
<1>3. ChildPositions(i, k) = first..(first + Len(listed) - 1)
  BY <1>2 DEF ChildPositions
<1> HIDE DEF i, listed, first, nameof
<1>4. ASSUME NEW c \in ChildPositions(i, k)
      PROVE  /\ c \in Nat /\ (c - first) + 1 \in 1..Len(listed)
             /\ i[c].name = nameof(listed[(c - first) + 1])
  <2>1. c \in Nat /\ (c - first) + 1 \in 1..Len(listed) /\ c \in 1..Len(i)
    BY <1>1, <1>2, <1>3
  <2>2. first + ((c - first) + 1) - 1 = c
    BY <1>1, <2>1
  <2> QED
    BY <1>2, <2>1, <2>2
<1>5. ASSUME NEW c \in ChildPositions(i, k), NEW d \in ChildPositions(i, k), c < d
      PROVE  <<i[c].name, i[d].name>> \in ByteOrder
  <2>1. (c - first) + 1 < (d - first) + 1
    BY <1>1, <1>4, <1>5
  <2> QED
    BY <1>2, <1>4, <2>1
<1>6. Sorted(i, k)
  BY <1>5 DEF Sorted
<1> QED
  BY <1>6 DEF i

\* What the lookup needs to know of an index.
Bounded(i) ==
  \A k \in 1..Len(i) :
    /\ i[k].ty \in {"dir", "rdir", "rfile", "active", "passive"}
    /\ i[k].ty = "dir" =>
         SliceInBounds(i, k) /\ ChildPositions(i, k) \subseteq 1..Len(i) /\ Sorted(i, k)

LEMMA IndexBounded ==
  ASSUME NEW w \in Worlds
  PROVE  Bounded(w.index)
<1>1. ASSUME NEW k \in 1..Len(w.index)
      PROVE  /\ w.index[k].ty \in {"dir", "rdir", "rfile", "active", "passive"}
             /\ w.index[k].ty = "dir" =>
                  /\ SliceInBounds(w.index, k)
                  /\ ChildPositions(w.index, k) \subseteq 1..Len(w.index)
                  /\ Sorted(w.index, k)
  BY IndexFacts, IndexSorted
<1> DEFINE i == w.index
<1>2. \A k \in 1..Len(i) :
        /\ i[k].ty \in {"dir", "rdir", "rfile", "active", "passive"}
        /\ i[k].ty = "dir" =>
             SliceInBounds(i, k) /\ ChildPositions(i, k) \subseteq 1..Len(i) /\ Sorted(i, k)
  BY <1>1
<1> HIDE DEF i
<1>3. Bounded(i)
  BY <1>2 DEF Bounded
<1> QED
  BY <1>3 DEF i

Reaches(i, from) == from.ok = FALSE \/ (from.ok = TRUE /\ from.at \in 1..Len(i))

LEMMA StepReaches ==
  ASSUME NEW i, Bounded(i), NEW from, Reaches(i, from), NEW path, NEW m
  PROVE  Reaches(i, StepAt(i, from, path, m))
<1> DEFINE part == path[m]
           last == m = Len(path)
           to == StepAt(i, from, path, m)
           found == {c \in ChildPositions(i, from.at) : i[c].name = part}
<1>1. CASE ~from.ok \/ (last /\ Stays(part))
  BY <1>1 DEF Step, StepAt
<1>2. CASE from.ok /\ ~(last /\ Stays(part))
  <2>1. to = LookupChild(i, from.at, part)
    BY <1>2 DEF Step, StepAt
  <2>2. CASE \/ ~IsDirectory(i, from.at) \/ ~SliceInBounds(i, from.at)
             \/ ~Sorted(i, from.at) \/ found = {}
    <3>1. \E e : to = Err(e)
      BY <2>1, <2>2 DEF LookupChild, Trap, ChildNamed, Unspecified
    <3> HIDE DEF to
    <3>2. to.ok = FALSE
      BY <3>1 DEF Err
    <3> QED
      BY <3>2 DEF to, Reaches
  <2>3. CASE /\ IsDirectory(i, from.at) /\ SliceInBounds(i, from.at)
             /\ Sorted(i, from.at) /\ found # {}
    <3>1. i[from.at].ty = "dir" /\ from.at \in 1..Len(i)
      BY <1>2, <2>3 DEF SliceInBounds, Reaches
    <3>2. found \subseteq 1..Len(i)
      BY <3>1 DEF Bounded
    <3>3. to = Ok(CHOOSE c \in found : TRUE)
      BY <2>1, <2>3 DEF LookupChild, ChildNamed
    <3> HIDE DEF to, found
    <3>4. (CHOOSE c \in found : TRUE) \in found
      BY <2>3
    <3>5. to.ok = TRUE /\ to.at \in 1..Len(i)
      BY <3>2, <3>3, <3>4 DEF Ok
    <3> QED
      BY <3>5 DEF to, Reaches
  <2> QED
    BY <2>2, <2>3
<1> QED
  BY <1>1, <1>2

LEMMA WalkReaches ==
  ASSUME NEW i, Bounded(i), NEW k \in 1..Len(i), NEW path, NEW n \in Nat,
         NEW W, WalkOf(i, k, path, n, W)
  PROVE  \A m \in 0..n : Reaches(i, W[m])
<1> DEFINE S == {m \in 0..n : Reaches(i, W[m])}
<1>1. W[0] = Ok(k) /\ \A m \in 1..n : W[m] = StepAt(i, W[m - 1], path, m)
  BY WalkSteps
<1>2. 0 \in S
  <2>1. Reaches(i, W[0])
    BY <1>1 DEF Ok, Reaches
  <2> QED
    BY <2>1
<1>3. ASSUME NEW m \in 0..(n - 1), m \in S
      PROVE  m + 1 \in S
  <2>1. m + 1 \in 1..n /\ (m + 1) - 1 = m /\ m + 1 \in 0..n
    OBVIOUS
  <2>2. W[m + 1] = StepAt(i, W[m], path, m + 1)
    BY <1>1, <2>1
  <2>3. Reaches(i, W[m + 1])
    BY <1>3, <2>2, StepReaches
  <2> QED
    BY <2>1, <2>3
<1> HIDE DEF S
<1>4. 0..n \subseteq S
  BY <1>2, <1>3, Lookup!UpToInduction
<1> QED
  BY <1>4 DEF S

LEMMA DirLookupReaches ==
  ASSUME NEW i, Bounded(i), NEW k \in 1..Len(i), NEW path \in Paths
  PROVE  Reaches(i, DirLookup(i, k, path))
<1>1. CASE path = <<Empty>>
  <2>1. DirLookup(i, k, path) = Trap
    BY <1>1 DEF DirLookup
  <2> QED
    BY <2>1 DEF Trap, Err, Reaches
<1>2. CASE path # <<Empty>>
  <2> DEFINE W == Walk(i, k, path)
             n == Len(path)
  <2>1. n \in Nat
    BY CallsAssumption
  <2>2. WalkOf(i, k, path, n, W) /\ DirLookup(i, k, path) = W[n]
    BY <1>2, <2>1, WalkDef, WalkLast
  <2> HIDE DEF W, n
  <2>3. \A m \in 0..n : Reaches(i, W[m])
    BY <2>1, <2>2, WalkReaches
  <2> QED
    BY <2>1, <2>2, <2>3
<1> QED
  BY <1>1, <1>2

Ends(path, n) == n = Len(path)

-----------------------------------------------------------------------------
(***************************************************************************)
(* What a call does to the descriptors the guest holds.                    *)
(***************************************************************************)
LEMMA DescriptorKinds ==
  ASSUME NEW d \in Descriptor
  PROVE  \/ d.kind = "static" /\ d.at \in 1..Len(index) /\ d = Static(d.at)
         \/ d.kind = "host" /\ d.at \in world.host_objects /\ d = Host(d.at)
<1>1. CASE d \in {Static(k) : k \in 1..Len(index)}
  <2>1. PICK k \in 1..Len(index) : d = Static(k)
    BY <1>1
  <2> QED
    BY <2>1 DEF Static
<1>2. CASE d \in {Host(o) : o \in world.host_objects}
  <2>1. PICK o \in world.host_objects : d = Host(o)
    BY <1>2
  <2> QED
    BY <2>1 DEF Host
<1> QED
  BY <1>1, <1>2 DEF Descriptor

\* The object of the host that a runtime entry of the index is found to be.
RuntimeObject(k, o) ==
  LET path == index[k].data[1]
      names == DOMAIN host_preopen_directories
      name == GetHostPreopen(names, path)
  IN  /\ Candidates(names, path) # {} /\ Try(name, path).kind # "panic"
      /\ o = host_preopen_directories[name] \o Components(Try(name, path).rest)

\* The guest gets a descriptor of nothing, of a static entry that is not a
\* runtime one, of something below a host descriptor it has, or of what a
\* runtime entry is.
Opened(d) ==
  \/ held' = held
  \/ \E k \in 1..Len(index) : ~Runtime(k) /\ held' = held \cup {Static(k)}
  \/ \E o \in world.host_objects :
       /\ held' = held \cup {Host(o)}
       /\ \/ d.kind = "host" /\ StartsWith(o, d.at)
          \/ \E k \in 1..Len(index) : Runtime(k) /\ RuntimeObject(k, o)

LEMMA HostOpens ==
  ASSUME NEW op, NEW objects, HostAnswers(op, objects)
  PROVE  /\ \/ held' = held
            \/ \E o \in objects \cap world.host_objects : held' = held \cup {Host(o)}
         /\ op # "open" => held' = held
         /\ answer'.status \in {"ok", "host-error"}
<1>1. CASE Reply(op, "host-error", <<>>) /\ UNCHANGED held
  BY <1>1 DEF Reply
<1>2. ASSUME NEW o \in objects \cap world.host_objects,
             IF op = "open" THEN Grant({Host(o)}) ELSE UNCHANGED held,
             Reply(op, "ok", Host(o))
      PROVE  /\ held' = held \/ held' = held \cup {Host(o)}
             /\ op # "open" => held' = held
             /\ answer'.status = "ok"
  BY <1>2 DEF Grant, Reply
<1> QED
  BY <1>1, <1>2 DEF HostAnswers

\* A static entry is answered from the index, but for the size of a runtime file.
FromIndex(op, k) == ~(op = "stat" /\ index[k].ty = "rfile")

LEMMA StaticOpens ==
  ASSUME NEW op \in PathOps \cup {"type"}, NEW k, AnswerStatic(op, k), FromIndex(op, k)
  PROVE  /\ held' = held \/ held' = held \cup {Static(k)}
         /\ op # "open" => held' = held
         /\ answer'.status \in {"ok", "invalid"}
<1>1. CASE op = "open"
  <2>1. Grant({Static(k)}) /\ Reply(op, "ok", Static(k))
    BY <1>1 DEF AnswerStatic
  <2> QED
    BY <1>1, <2>1 DEF Grant, Reply
<1>2. CASE op = "stat"
  BY <1>2 DEF AnswerStatic, FromIndex, Reply
<1>3. CASE op = "hash"
  BY <1>3 DEF AnswerStatic, Reply
<1>4. CASE op = "readlink"
  BY <1>4 DEF AnswerStatic, Reply
<1>5. CASE op = "type"
  BY <1>5 DEF AnswerStatic, Reply
<1> QED
  BY <1>1, <1>2, <1>3, <1>4, <1>5 DEF PathOps

LEMMA RuntimeOpens ==
  ASSUME NEW op \in PathOps, NEW k \in 1..Len(index), Runtime(k), AnswerRuntime(op, k), NEW d
  PROVE  Opened(d)
<1> DEFINE path == index[k].data[1]
           names == DOMAIN host_preopen_directories
           name == GetHostPreopen(names, path)
           object == host_preopen_directories[name] \o Components(Try(name, path).rest)
<1>1. CASE Candidates(names, path) = {} \/ Try(name, path).kind = "panic"
  BY <1>1 DEF AnswerRuntime, Opened
<1>2. CASE Candidates(names, path) # {} /\ Try(name, path).kind # "panic"
  <2>1. HostAnswers(op, {object})
    BY <1>2 DEF AnswerRuntime
  <2>2. RuntimeObject(k, object)
    BY <1>2 DEF RuntimeObject
  <2> HIDE DEF object
  <2>3. \/ held' = held
        \/ \E o \in {object} \cap world.host_objects : held' = held \cup {Host(o)}
    BY <2>1, HostOpens
  <2> QED
    BY <2>2, <2>3 DEF Opened
<1> QED
  BY <1>1, <1>2

LEMMA RuntimeHolds ==
  ASSUME NEW op, op # "open", NEW k, AnswerRuntime(op, k)
  PROVE  held' = held
<1> DEFINE path == index[k].data[1]
           names == DOMAIN host_preopen_directories
           name == GetHostPreopen(names, path)
           object == host_preopen_directories[name] \o Components(Try(name, path).rest)
<1>1. CASE Candidates(names, path) = {} \/ Try(name, path).kind = "panic"
  BY <1>1 DEF AnswerRuntime
<1>2. CASE Candidates(names, path) # {} /\ Try(name, path).kind # "panic"
  <2>1. HostAnswers(op, {object})
    BY <1>2 DEF AnswerRuntime
  <2> QED
    BY <2>1, HostOpens
<1> QED
  BY <1>1, <1>2

LEMMA PathOpens ==
  ASSUME world \in Worlds, Bounded(index), NEW op \in PathOps, NEW d \in Descriptor,
         NEW path \in Paths, AtPath(op, d, path)
  PROVE  Opened(d)
<1>1. CASE d.kind = "host"
  <2> DEFINE objects == world.resolve[<<d.at, path>>]
  <2>1. HostAnswers(op, objects)
    BY <1>1 DEF AtPath
  <2>2. d.at \in world.host_objects
    BY <1>1, DescriptorKinds
  <2>3. \A p \in objects : p \in world.host_objects /\ StartsWith(p, d.at)
    BY <2>2, WorldsAssumption DEF HostSound
  <2> HIDE DEF objects
  <2> QED
    BY <1>1, <2>1, <2>3, HostOpens DEF Opened
<1>2. CASE d.kind = "static"
  <2> DEFINE looked == DirLookup(index, d.at, path)
  <2>1. AnswerLookup(op, looked)
    BY <1>2 DEF AtPath
  <2>2. Reaches(index, looked)
    BY <1>2, DescriptorKinds, DirLookupReaches
  <2> HIDE DEF looked
  <2>3. CASE looked.ok = FALSE
    BY <2>1, <2>3 DEF AnswerLookup, Opened
  <2>4. CASE looked.ok = TRUE /\ looked.at \in 1..Len(index)
    <3>1. CASE Runtime(looked.at)
      BY <2>1, <2>4, <3>1, RuntimeOpens DEF AnswerLookup
    <3>2. CASE ~Runtime(looked.at)
      <4>1. AnswerStatic(op, looked.at)
        BY <2>1, <2>4, <3>2 DEF AnswerLookup
      <4>2. FromIndex(op, looked.at)
        BY <3>2 DEF FromIndex, Runtime, RuntimeTypes
      <4>3. held' = held \/ held' = held \cup {Static(looked.at)}
        BY <4>1, <4>2, StaticOpens
      <4> QED
        BY <2>4, <3>2, <4>3 DEF Opened
    <3> QED
      BY <3>1, <3>2
  <2> QED
    BY <2>2, <2>3, <2>4 DEF Reaches
<1> QED
  BY <1>1, <1>2, DescriptorKinds

LEMMA DescriptorOpens ==
  ASSUME NEW op \in {"stat", "type", "hash"}, NEW d, AtDescriptor(op, d)
  PROVE  held' = held
<1>1. op \in PathOps \cup {"type"} /\ op # "open"
  BY DEF PathOps
<1>2. CASE d.kind = "host"
  BY <1>1, <1>2, HostOpens DEF AtDescriptor
<1>3. CASE d.kind # "host" /\ FromIndex(op, d.at)
  BY <1>1, <1>3, StaticOpens DEF AtDescriptor
<1>4. CASE d.kind # "host" /\ ~FromIndex(op, d.at)
  <2>1. AnswerRuntime(op, d.at)
    BY <1>4 DEF AtDescriptor, AnswerStatic, FromIndex
  <2> QED
    BY <1>1, <2>1, RuntimeHolds
<1> QED
  BY <1>2, <1>3, <1>4
-----------------------------------------------------------------------------
(***************************************************************************)
(* Types.                                                                  *)
(***************************************************************************)
\* Nothing is held before the preopens have been handed out; the streams are on
\* entries of the index or of the host, and directory streams on directories.
TInv ==
  /\ world \in Worlds
  /\ initialized \in BOOLEAN
  /\ initialized = TRUE =>
       /\ preopen_directories = HostEntries \o StaticEntries
       /\ host_preopen_directories = HostDirectories
  /\ initialized = FALSE =>
       preopen_directories = <<>> /\ held = {} /\ \A s \in Streams : streams[s] = Idle
  /\ held \subseteq Descriptor
  /\ streams \in [Streams -> StreamState]
  /\ \A s \in Streams :
       streams[s].kind = "dir" /\ streams[s].of.kind = "static" =>
         IsDirectory(index, streams[s].of.at)

LEMMA InitTInv == Init => TInv
<1> SUFFICES ASSUME Init PROVE TInv
  OBVIOUS
<1>1. \A s \in Streams : streams[s] = Idle
  BY DEF Init
<1>2. streams \in [Streams -> StreamState]
  <2>1. streams = [s \in Streams |-> Idle] /\ Idle \in StreamState
    BY DEF Init, StreamState
  <2> QED
    BY <2>1
<1>3. Idle.kind = "none"
  BY DEF Idle
<1> QED
  BY <1>1, <1>2, <1>3 DEF Init, TInv


LEMMA SameWorld ==
  ASSUME UNCHANGED world
  PROVE  /\ index' = index
         /\ Descriptor' = Descriptor
         /\ StreamState' = StreamState
         /\ HostEntries' = HostEntries
         /\ StaticEntries' = StaticEntries
         /\ HostDirectories' = HostDirectories
BY DEF index, Descriptor, StreamState, HostEntries, StaticEntries, HostDirectories,
       HostPassthrough, Runtime

LEMMA EntriesTyped ==
  ASSUME world \in Worlds
  PROVE  /\ HostEntries \in Seq(Descriptor) /\ StaticEntries \in Seq(Descriptor)
         /\ HostEntries \o StaticEntries \in Seq(Descriptor)
<1>1. /\ Len(world.preopens) \in Nat /\ Len(world.host_list) \in Nat
      /\ \A i \in 1..Len(world.preopens) : world.preopens[i] \in 1..Len(world.index)
      /\ \A i \in 1..Len(world.host_list) : world.host_list[i].dir \in world.host_objects
  BY WorldsAssumption DEF HostSound
<1>2. StaticEntries \in Seq(Descriptor)
  <2> DEFINE n == Len(world.preopens)
             f(i) == Static(world.preopens[i])
  <2>1. n \in Nat /\ \A i \in 1..n : f(i) \in Descriptor
    BY <1>1 DEF Descriptor, index
  <2>2. StaticEntries = [i \in 1..n |-> f(i)]
    BY DEF StaticEntries
  <2> HIDE DEF n, f
  <2> QED
    BY <2>1, <2>2
<1>3. HostEntries \in Seq(Descriptor)
  <2> DEFINE n == Len(world.host_list)
             f(i) == Host(world.host_list[i].dir)
  <2>1. n \in Nat /\ \A i \in 1..n : f(i) \in Descriptor
    BY <1>1 DEF Descriptor
  <2>2. HostEntries = <<>> \/ HostEntries = [i \in 1..n |-> f(i)]
    BY DEF HostEntries
  <2> HIDE DEF n, f
  <2>3. CASE HostEntries = <<>>
    BY <2>3
  <2>4. CASE HostEntries = [i \in 1..n |-> f(i)]
    BY <2>1, <2>4
  <2> QED
    BY <2>2, <2>3, <2>4
<1> QED
  BY <1>2, <1>3

LEMMA ConcatElements ==
  ASSUME NEW S, NEW a \in Seq(S), NEW b \in Seq(S)
  PROVE  Elements(a \o b) = Elements(a) \cup Elements(b)
<1>1. ASSUME NEW j \in 1..Len(a \o b)
      PROVE  \/ \E l \in 1..Len(a) : (a \o b)[j] = a[l]
             \/ \E l \in 1..Len(b) : (a \o b)[j] = b[l]
  <2>1. CASE j <= Len(a)
    BY <2>1
  <2>2. CASE j > Len(a)
    <3>1. j - Len(a) \in 1..Len(b) /\ (a \o b)[j] = b[j - Len(a)]
      BY <2>2
    <3> QED
      BY <3>1
  <2> QED
    BY <2>1, <2>2
<1>2. ASSUME NEW l \in 1..Len(a)
      PROVE  l \in 1..Len(a \o b) /\ (a \o b)[l] = a[l]
  OBVIOUS
<1>3. ASSUME NEW l \in 1..Len(b)
      PROVE  Len(a) + l \in 1..Len(a \o b) /\ (a \o b)[Len(a) + l] = b[l]
  OBVIOUS
<1> DEFINE c == a \o b
<1>4. /\ \A j \in 1..Len(c) : \/ \E l \in 1..Len(a) : c[j] = a[l]
                              \/ \E l \in 1..Len(b) : c[j] = b[l]
      /\ \A l \in 1..Len(a) : \E j \in 1..Len(c) : c[j] = a[l]
      /\ \A l \in 1..Len(b) : \E j \in 1..Len(c) : c[j] = b[l]
  BY <1>1, <1>2, <1>3
<1> HIDE DEF c
<1>5. /\ \A x \in Elements(c) : x \in Elements(a) \/ x \in Elements(b)
      /\ \A x \in Elements(a) : x \in Elements(c)
      /\ \A x \in Elements(b) : x \in Elements(c)
  <2>1. \A s, x : x \in Elements(s) <=> \E j \in 1..Len(s) : x = s[j]
    BY DEF Elements
  <2>2. ASSUME NEW x \in Elements(c)
        PROVE  x \in Elements(a) \/ x \in Elements(b)
    <3>1. PICK j \in 1..Len(c) : x = c[j]
      BY <2>1
    <3>2. \/ \E l \in 1..Len(a) : c[j] = a[l]
          \/ \E l \in 1..Len(b) : c[j] = b[l]
      BY <1>4
    <3> QED
      BY <2>1, <3>1, <3>2, Zenon
  <2>3. ASSUME NEW x \in Elements(a)
        PROVE  x \in Elements(c)
    <3>1. PICK l \in 1..Len(a) : x = a[l]
      BY <2>1
    <3>2. \E j \in 1..Len(c) : c[j] = a[l]
      BY <1>4
    <3> QED
      BY <2>1, <3>1, <3>2, Zenon
  <2>4. ASSUME NEW x \in Elements(b)
        PROVE  x \in Elements(c)
    <3>1. PICK l \in 1..Len(b) : x = b[l]
      BY <2>1
    <3>2. \E j \in 1..Len(c) : c[j] = b[l]
      BY <1>4
    <3> QED
      BY <2>1, <3>1, <3>2, Zenon
  <2> QED
    BY <2>2, <2>3, <2>4
<1>6. Elements(c) = Elements(a) \cup Elements(b)
  BY <1>5
<1> QED
  BY <1>6 DEF c

\* What get_directories hands out.
LEMMA EntriesAre ==
  ASSUME world \in Worlds
  PROVE  Elements(HostEntries \o StaticEntries) =
           {Static(world.preopens[i]) : i \in 1..Len(world.preopens)}
             \cup (IF world.host_preopens
                   THEN {Host(world.host_list[i].dir) : i \in 1..Len(world.host_list)}
                   ELSE {})
<1> DEFINE m == Len(world.preopens)
           n == Len(world.host_list)
           f(i) == Static(world.preopens[i])
           g(i) == Host(world.host_list[i].dir)
<1>1. m \in Nat /\ n \in Nat
  BY WorldsAssumption DEF HostSound
<1>2. Elements(HostEntries \o StaticEntries) = Elements(HostEntries) \cup Elements(StaticEntries)
  BY EntriesTyped, ConcatElements
<1>3. StaticEntries = [i \in 1..m |-> f(i)]
  BY DEF StaticEntries
<1>4. HostEntries = IF world.host_preopens THEN [i \in 1..n |-> g(i)] ELSE <<>>
  BY DEF HostEntries
<1> HIDE DEF m, n, f, g
<1>5. Elements(StaticEntries) = {f(i) : i \in 1..m}
  BY <1>1, <1>3 DEF Elements
<1>6. Elements(HostEntries) = IF world.host_preopens THEN {g(i) : i \in 1..n} ELSE {}
  <2>1. CASE world.host_preopens
    <3>1. HostEntries = [i \in 1..n |-> g(i)]
      BY <1>4, <2>1
    <3>2. Elements(HostEntries) = {g(i) : i \in 1..n}
      BY <1>1, <3>1 DEF Elements
    <3> QED
      BY <2>1, <3>2
  <2>2. CASE ~world.host_preopens
    <3>1. HostEntries = <<>>
      BY <1>4, <2>2
    <3>2. Elements(HostEntries) = {}
      BY <3>1 DEF Elements
    <3> QED
      BY <2>2, <3>2
  <2> QED
    BY <2>1, <2>2
<1> QED
  BY <1>2, <1>5, <1>6 DEF m, n, f, g

LEMMA Initialized ==
  ASSUME TInv, Initialize
  PROVE  /\ initialized' = TRUE
         /\ preopen_directories' = HostEntries \o StaticEntries
         /\ host_preopen_directories' = HostDirectories
<1>1. CASE initialized = TRUE
  BY <1>1 DEF Initialize, TInv, state
<1>2. CASE initialized = FALSE
  <2>1. /\ initialized' = TRUE
        /\ preopen_directories' = <<>> \o HostEntries \o StaticEntries
        /\ host_preopen_directories' = HostDirectories
    BY <1>2 DEF Initialize, TInv
  <2>2. <<>> \o HostEntries = HostEntries
    <3>1. HostEntries \in Seq(Descriptor)
      BY EntriesTyped DEF TInv
    <3> QED
      BY <3>1
  <2> QED
    BY <2>1, <2>2
<1> QED
  BY <1>1, <1>2 DEF TInv

LEMMA TGetDirectories ==
  ASSUME TInv, GetDirectories
  PROVE  TInv'
<1>1. /\ Initialize /\ UNCHANGED <<world, streams>>
      /\ held' = held \cup Elements(preopen_directories')
  BY DEF GetDirectories, Grant
<1>2. /\ initialized' = TRUE
      /\ preopen_directories' = HostEntries \o StaticEntries
      /\ host_preopen_directories' = HostDirectories
  BY <1>1, Initialized
<1>3. Elements(preopen_directories') \subseteq Descriptor
  <2> DEFINE p == preopen_directories'
  <2>1. p \in Seq(Descriptor)
    BY <1>2, EntriesTyped DEF TInv
  <2> HIDE DEF p
  <2>2. Elements(p) \subseteq Descriptor
    BY <2>1 DEF Elements
  <2> QED
    BY <2>2 DEF p
<1>4. held' \subseteq Descriptor'
  BY <1>1, <1>3, SameWorld DEF TInv
<1>5. /\ world' \in Worlds
      /\ streams' \in [Streams -> StreamState']
      /\ \A s \in Streams :
           streams'[s].kind = "dir" /\ streams'[s].of.kind = "static" =>
             IsDirectory(index', streams'[s].of.at)
  BY <1>1, SameWorld DEF TInv
<1>6. /\ preopen_directories' = HostEntries' \o StaticEntries'
      /\ host_preopen_directories' = HostDirectories'
  BY <1>1, <1>2, SameWorld
<1> QED
  BY <1>2, <1>4, <1>5, <1>6 DEF TInv

\* A call on a descriptor, or on none, that opens no stream.
LEMMA THeld ==
  ASSUME TInv, UNCHANGED <<world, state, streams>>,
         \/ held' \subseteq held
         \/ held # {} /\ held' \subseteq Descriptor
  PROVE  TInv'
<1>1. held' \subseteq Descriptor'
  BY SameWorld DEF TInv
<1>2. initialized' = FALSE => held' = {}
  BY DEF TInv, state
<1>3. /\ world' \in Worlds /\ initialized' \in BOOLEAN
      /\ streams' \in [Streams -> StreamState']
      /\ \A s \in Streams :
           streams'[s].kind = "dir" /\ streams'[s].of.kind = "static" =>
             IsDirectory(index', streams'[s].of.at)
  BY SameWorld DEF TInv, state
<1>4. /\ initialized' = TRUE =>
           /\ preopen_directories' = HostEntries' \o StaticEntries'
           /\ host_preopen_directories' = HostDirectories'
      /\ initialized' = FALSE =>
           preopen_directories' = <<>> /\ \A s \in Streams : streams'[s] = Idle
  BY SameWorld DEF TInv, state
<1> QED
  BY <1>1, <1>2, <1>3, <1>4 DEF TInv

LEMMA TOpened ==
  ASSUME TInv, NEW d \in held, Opened(d), UNCHANGED <<world, state, streams>>
  PROVE  TInv'
<1>1. held' \subseteq held \/ held' \subseteq Descriptor
  BY DEF Opened, TInv, Descriptor
<1> QED
  BY <1>1, THeld

LEMMA TStream ==
  ASSUME TInv, UNCHANGED <<world, state, held>>, NEW s \in Streams, NEW x \in StreamState,
         streams' = [streams EXCEPT ![s] = x],
         initialized = TRUE \/ x = Idle,
         x.kind = "dir" /\ x.of.kind = "static" => IsDirectory(index, x.of.at)
  PROVE  TInv'
<1>1. \A r \in Streams : streams'[r] = IF r = s THEN x ELSE streams[r]
  BY DEF TInv
<1>2. streams' \in [Streams -> StreamState']
  BY SameWorld DEF TInv
<1>3. \A r \in Streams :
        streams'[r].kind = "dir" /\ streams'[r].of.kind = "static" =>
          IsDirectory(index', streams'[r].of.at)
  BY <1>1, SameWorld DEF TInv
<1>4. initialized' = FALSE => \A r \in Streams : streams'[r] = Idle
  BY <1>1 DEF TInv, state
<1>5. /\ world' \in Worlds /\ initialized' \in BOOLEAN
      /\ held' \subseteq Descriptor'
      /\ initialized' = TRUE =>
           /\ preopen_directories' = HostEntries' \o StaticEntries'
           /\ host_preopen_directories' = HostDirectories'
      /\ initialized' = FALSE => preopen_directories' = <<>> /\ held' = {}
  BY SameWorld DEF TInv, state
<1> QED
  BY <1>2, <1>3, <1>4, <1>5 DEF TInv

LEMMA TSame ==
  ASSUME TInv, UNCHANGED <<world, state, held, streams>>
  PROVE  TInv'
BY THeld

LEMMA StreamFields ==
  ASSUME TInv, NEW s \in Streams
  PROVE  \/ streams[s] = Idle
         \/ /\ streams[s].kind \in {"file", "dir"}
            /\ streams[s].of \in Descriptor
            /\ streams[s].pos \in Nat
            /\ \A pos \in Nat : [streams[s] EXCEPT !.pos = pos] \in StreamState
            /\ initialized = TRUE
<1>1. streams[s] \in StreamState
  BY DEF TInv
<1>2. streams[s] # Idle => initialized = TRUE
  BY DEF TInv
<1> QED
  BY <1>1, <1>2 DEF StreamState

\* A read that nothing stops leaves the position within the file.
LEMMA ReadInside ==
  ASSUME world \in Worlds, NEW k \in 1..Len(index), NEW offset \in Nat, NEW len \in Nat,
         ReadError(k, offset) = "none"
  PROVE  /\ index[k].ty \in {"active", "passive"}
         /\ ReadLen(k, offset, len) \in Nat
         /\ AsUsize(offset) + ReadLen(k, offset, len) <= Size(k)
         /\ Size(k) \in 0..(UsizeMod - 1)
         /\ Advance(k, offset, len) \in Nat
<1> DEFINE size == index[k].data[2]
           at == AsUsize(offset)
           l == AsUsize(len)
<1>1. /\ index[k].ty \in {"dir", "rdir", "rfile", "active", "passive"}
      /\ index[k].ty \notin DirTypes \cup RuntimeTypes => size \in 0..(UsizeMod - 1)
  BY IndexFacts DEF index
<1>2. index[k].ty \in {"active", "passive"}
  BY <1>1 DEF ReadError, DirTypes
<1>3. size \in 0..(UsizeMod - 1)
  BY <1>1, <1>2 DEF DirTypes, RuntimeTypes
<1>4. UsizeMod \in Nat \ {0}
  BY <1>3, WorldsAssumption
<1>5. at \in Nat /\ l \in Nat
  BY <1>4 DEF AsUsize
<1>10. at < size
  <2>1. /\ ~(index[k].ty = "active" /\ at > size)
        /\ ~(index[k].ty = "active" /\ at = size)
        /\ ~(index[k].ty = "passive" /\ at >= size)
    BY <1>2 DEF ReadError, DirTypes
  <2> HIDE DEF at, size
  <2> QED
    BY <1>2, <1>3, <1>5, <2>1
<1>6. ReadLen(k, offset, len) = IF size - at <= l THEN size - at ELSE l
  BY DEF ReadLen
<1>7. Size(k) = size
  BY <1>2 DEF Size, DirTypes
<1>9. Size(k) \in 0..(UsizeMod - 1)
  BY <1>3, <1>7
<1> HIDE DEF size, at, l
<1>8. ReadLen(k, offset, len) \in Nat /\ at + ReadLen(k, offset, len) <= size
  BY <1>3, <1>5, <1>6, <1>10
<1> QED
  BY <1>2, <1>7, <1>8, <1>9 DEF Advance, at

LEMMA TReadStream ==
  ASSUME TInv, CallsAssumption, NEW s \in Streams, NEW len \in Lens, ReadStream(s, len)
  PROVE  TInv'
<1> DEFINE k == streams[s].of.at
           offset == streams[s].pos
           error == ReadError(k, offset)
<1>1. /\ UNCHANGED <<world, state, held>>
      /\ streams[s].kind = "file"
      /\ \/ UNCHANGED streams
         \/ /\ streams[s].of.kind # "host" /\ error = "none"
            /\ streams' = [streams EXCEPT ![s].pos = Advance(k, offset, len)]
  BY DEF ReadStream
<1>2. CASE UNCHANGED streams
  BY <1>1, <1>2, TSame
<1>3. CASE /\ streams[s].of.kind # "host" /\ error = "none"
           /\ streams' = [streams EXCEPT ![s].pos = Advance(k, offset, len)]
  <2>1. /\ streams[s].of \in Descriptor /\ offset \in Nat /\ initialized = TRUE
        /\ \A pos \in Nat : [streams[s] EXCEPT !.pos = pos] \in StreamState
    <3>1. streams[s] # Idle
      BY <1>1 DEF Idle
    <3> QED
      BY <3>1, StreamFields
  <2>2. k \in 1..Len(index)
    BY <1>3, <2>1, DescriptorKinds
  <2>3. len \in Nat
    BY CallsAssumption
  <2>4. Advance(k, offset, len) \in Nat
    BY <1>3, <2>1, <2>2, <2>3, ReadInside DEF TInv
  <2> DEFINE x == [streams[s] EXCEPT !.pos = Advance(k, offset, len)]
  <2>5. x \in StreamState /\ streams' = [streams EXCEPT ![s] = x]
    BY <1>3, <2>1, <2>4 DEF TInv
  <2>6. x.kind = "file"
    BY <1>1, <2>1 DEF StreamState, TInv, Idle
  <2> HIDE DEF x, k, offset, error
  <2> QED
    BY <1>1, <2>1, <2>5, <2>6, TStream
<1> QED
  BY <1>1, <1>2, <1>3

LEMMA TReadViaStream ==
  ASSUME TInv, CallsAssumption, NEW s \in Streams, NEW d \in held, NEW offset \in Offsets,
         ReadViaStream(s, d, offset)
  PROVE  TInv'
<1> DEFINE x == [kind |-> "file", of |-> d, pos |-> offset]
<1>1. /\ UNCHANGED <<world, state, held>>
      /\ UNCHANGED streams \/ streams' = [streams EXCEPT ![s] = x]
  BY DEF ReadViaStream
<1>2. x \in StreamState /\ x.kind = "file" /\ initialized = TRUE
  BY CallsAssumption DEF TInv, StreamState
<1> HIDE DEF x
<1> QED
  BY <1>1, <1>2, TSame, TStream

LEMMA TReadDirectory ==
  ASSUME TInv, NEW s \in Streams, NEW d \in held, ReadDirectory(s, d)
  PROVE  TInv'
<1> DEFINE x == [kind |-> "dir", of |-> d, pos |-> 0]
<1>1. /\ UNCHANGED <<world, state, held>>
      /\ \/ UNCHANGED streams
         \/ /\ streams' = [streams EXCEPT ![s] = x]
            /\ d.kind = "static" => IsDirectory(index, d.at)
  BY DEF ReadDirectory
<1>2. x \in StreamState /\ x.of = d /\ initialized = TRUE
  BY DEF TInv, StreamState
<1> HIDE DEF x
<1> QED
  BY <1>1, <1>2, TSame, TStream

LEMMA TReadDirectoryEntry ==
  ASSUME TInv, NEW s \in Streams, ReadDirectoryEntry(s)
  PROVE  TInv'
<1> DEFINE x == [streams[s] EXCEPT !.pos = streams[s].pos + 1]
<1>1. /\ UNCHANGED <<world, state, held>>
      /\ streams[s].kind = "dir"
      /\ UNCHANGED streams \/ streams' = [streams EXCEPT ![s] = x]
  BY DEF ReadDirectoryEntry
<1>2. /\ streams[s].pos + 1 \in Nat /\ initialized = TRUE
      /\ \A pos \in Nat : [streams[s] EXCEPT !.pos = pos] \in StreamState
  <2>1. streams[s] # Idle
    BY <1>1 DEF Idle
  <2>2. /\ streams[s].pos \in Nat /\ initialized = TRUE
        /\ \A pos \in Nat : [streams[s] EXCEPT !.pos = pos] \in StreamState
    BY <2>1, StreamFields
  <2> QED
    BY <2>2
<1>3. x \in StreamState
  BY <1>2
<1>4. x.kind = streams[s].kind /\ x.of = streams[s].of
  BY <1>1 DEF TInv, StreamState, Idle
<1>5. x.kind = "dir" /\ x.of.kind = "static" => IsDirectory(index, x.of.at)
  BY <1>4 DEF TInv
<1> HIDE DEF x
<1> QED
  BY <1>1, <1>2, <1>3, <1>5, TSame, TStream

LEMMA TDropStream ==
  ASSUME TInv, NEW s \in Streams, DropStream(s)
  PROVE  TInv'
<1>1. /\ UNCHANGED <<world, state, held>>
      /\ streams' = [streams EXCEPT ![s] = Idle]
  BY DEF DropStream
<1>2. Idle \in StreamState /\ Idle.kind = "none"
  BY DEF StreamState, Idle
<1> QED
  BY <1>1, <1>2, TStream

LEMMA StepTInv == TInv /\ [Next]_vars => TInv'
<1> SUFFICES ASSUME TInv, [Next]_vars
             PROVE  TInv'
  OBVIOUS
<1>1. CASE GetDirectories
  BY <1>1, TGetDirectories
<1>2. ASSUME NEW d \in held, OnDescriptor(d)
      PROVE  TInv'
  <2>1. CASE DropDescriptor(d)
    BY <2>1, THeld DEF DropDescriptor
  <2>2. ASSUME NEW op \in PathOps, NEW path \in Paths, AtPath(op, d, path)
        PROVE  TInv'
    <3>1. Bounded(index) /\ d \in Descriptor
      BY IndexBounded DEF TInv, index
    <3>2. Opened(d)
      BY <2>2, <3>1, PathOpens DEF TInv
    <3>3. UNCHANGED <<world, state, streams>>
      BY <2>2 DEF AtPath
    <3> QED
      BY <3>2, <3>3, TOpened
  <2>3. ASSUME NEW op \in {"stat", "type", "hash"}, AtDescriptor(op, d)
        PROVE  TInv'
    <3>1. held' = held
      BY <2>3, DescriptorOpens
    <3>2. UNCHANGED <<world, state, held, streams>>
      BY <2>3, <3>1 DEF AtDescriptor
    <3> QED
      BY <3>2, TSame
  <2>4. ASSUME NEW e \in held, IsSameObject(d, e)
        PROVE  TInv'
    BY <2>4, TSame DEF IsSameObject
  <2>5. CASE Modify(d)
    BY <2>5, TSame DEF Modify
  <2>9. CASE GetFlags(d)
    BY <2>9, TSame DEF GetFlags
  <2>10. CASE Advise(d)
    BY <2>10, TSame DEF Advise
  <2>6. ASSUME NEW s \in Streams, NEW offset \in Offsets, ReadViaStream(s, d, offset)
        PROVE  TInv'
    BY <2>6, CallsAssumption, TReadViaStream
  <2>7. ASSUME NEW offset \in Offsets, NEW len \in Lens, ReadAt(d, offset, len)
        PROVE  TInv'
    BY <2>7, TSame DEF ReadAt
  <2>8. ASSUME NEW s \in Streams, ReadDirectory(s, d)
        PROVE  TInv'
    BY <2>8, TReadDirectory
  <2> QED
    BY <1>2, <2>1, <2>2, <2>3, <2>4, <2>5, <2>6, <2>7, <2>8, <2>9, <2>10 DEF OnDescriptor
<1>3. ASSUME NEW s \in Streams, OnStream(s)
      PROVE  TInv'
  <2>1. ASSUME NEW len \in Lens, ReadStream(s, len)
        PROVE  TInv'
    BY <2>1, CallsAssumption, TReadStream
  <2>2. CASE ReadDirectoryEntry(s)
    BY <2>2, TReadDirectoryEntry
  <2>3. CASE DropStream(s)
    BY <2>3, TDropStream
  <2> QED
    BY <1>3, <2>1, <2>2, <2>3 DEF OnStream
<1>4. CASE UNCHANGED vars
  BY <1>4, TSame DEF vars
<1> QED
  BY <1>1, <1>2, <1>3, <1>4 DEF Next

\* Descriptors and streams name entries of the index or objects of the host,
\* whatever the guest calls, and directory streams are on directories.
THEOREM TypeCorrect == Spec => []TInv
<1> QED
  BY InitTInv, StepTInv, PTL DEF Spec

\* get_directories gives the same descriptors at every call: initialize changes
\* STATE once.
THEOREM PreopensFixed == Spec => PreopensStable
<1>1. ASSUME TInv, Next
      PROVE  initialized => UNCHANGED state
  <2>1. CASE GetDirectories
    BY <2>1 DEF GetDirectories, Initialize
  <2>2. CASE \E d \in held : OnDescriptor(d)
    BY <2>2 DEF OnDescriptor, DropDescriptor, AtPath, AtDescriptor, IsSameObject, Modify, GetFlags, Advise,
                ReadViaStream, ReadAt, ReadDirectory
  <2>3. CASE \E s \in Streams : OnStream(s)
    BY <2>3 DEF OnStream, ReadStream, ReadDirectoryEntry, DropStream
  <2> QED
    BY <1>1, <2>1, <2>2, <2>3 DEF Next
<1>2. TInv /\ [Next]_vars => [initialized => UNCHANGED state]_vars
  BY <1>1
<1> QED
  BY <1>2, TypeCorrect, PTL DEF Spec, PreopensStable

-----------------------------------------------------------------------------
(***************************************************************************)
(* What the guest reaches of the host.                                     *)
(***************************************************************************)
LEMMA PrefixTransitive ==
  ASSUME NEW S, NEW a \in Seq(S), NEW b \in Seq(S), NEW c \in Seq(S),
         StartsWith(a, b), StartsWith(b, c)
  PROVE  StartsWith(a, c)
<1>1. /\ Len(a) \in Nat /\ Len(b) \in Nat /\ Len(c) \in Nat
      /\ Len(c) <= Len(b) /\ Len(b) <= Len(a)
      /\ SubSeq(a, 1, Len(b)) = b /\ SubSeq(b, 1, Len(c)) = c
  BY DEF StartsWith
<1>2. \A i \in 1..Len(b) : a[i] = b[i]
  BY <1>1
<1>3. \A i \in 1..Len(c) : b[i] = c[i]
  BY <1>1
<1>4. SubSeq(a, 1, Len(c)) = [i \in 1..Len(c) |-> a[i]]
  BY <1>1
<1>5. \A i \in 1..Len(c) : i \in 1..Len(b)
  BY <1>1
<1>6. c = [i \in 1..Len(c) |-> c[i]]
  OBVIOUS
<1>7. SubSeq(a, 1, Len(c)) = c
  BY <1>2, <1>3, <1>4, <1>5, <1>6
<1>8. Len(c) <= Len(a)
  BY <1>1
<1> QED
  BY <1>7, <1>8 DEF StartsWith

LEMMA PrefixReflexive ==
  ASSUME NEW S, NEW a \in Seq(S)
  PROVE  StartsWith(a, a)
BY DEF StartsWith

\* The directory of a preopen of the host, and what is left of a path below it.
Under(p, h) == h.dir \o Drop(Components(p), Len(Components(h.name)))

LEMMA ConfiguredBy ==
  ASSUME NEW o
  PROVE  o \in Configured <=>
           \E k \in 1..Len(index), h \in Elements(world.host_list) :
             /\ Runtime(k) /\ Holds(h.name, index[k].data[1])
             /\ o = Under(index[k].data[1], h)
<1> DEFINE path(k) == index[k].data[1]
           hosts(k) == {g \in Elements(world.host_list) :
                          /\ Absolute(g.name) = Absolute(path(k))
                          /\ StartsWith(Components(path(k)), Components(g.name))}
           objects(k) == {Under(path(k), h) : h \in hosts(k)}
<1>1. Configured = UNION {objects(k) : k \in {j \in 1..Len(index) : Runtime(j)}}
  BY DEF Configured, Under
<1>2. \A k : o \in objects(k) <=>
              \E h \in Elements(world.host_list) : Holds(h.name, path(k)) /\ o = Under(path(k), h)
  BY DEF Holds
<1> HIDE DEF objects
<1> QED
  BY <1>1, <1>2

LEMMA RuntimeConfigured ==
  ASSUME HostLookups, TInv, initialized = TRUE,
         NEW k \in 1..Len(index), Runtime(k), NEW o, RuntimeObject(k, o)
  PROVE  o \in Configured
<1> DEFINE path == index[k].data[1]
           names == DOMAIN HostMap(world.host_list)
           name == GetHostPreopen(names, path)
<1>1. host_preopen_directories = HostMap(world.host_list)
  BY DEF TInv, HostDirectories, HostPassthrough
<1>2. /\ Candidates(names, path) # {} /\ Try(name, path).kind # "panic"
      /\ o = HostMap(world.host_list)[name] \o Components(Try(name, path).rest)
  BY <1>1 DEF RuntimeObject
<1>3. /\ name \in names /\ Holds(name, path)
      /\ Components(Try(name, path).rest) = Drop(Components(path), Len(Components(name)))
  <2>1. world \in Worlds /\ world.index[k].ty \in RuntimeTypes
    BY DEF TInv, Runtime, index
  <2>2. path = world.index[k].data[1] /\ k \in 1..Len(world.index)
    BY DEF index
  <2> HIDE DEF path, names, name
  <2> QED
    BY <1>2, <2>1, <2>2, LookupFinds DEF names, name
<1>4. PICK j \in 1..Len(world.host_list) :
        /\ world.host_list[j].name = name
        /\ HostMap(world.host_list)[name] = world.host_list[j].dir
  <2>1. Len(world.host_list) \in Nat
    BY WorldsAssumption DEF TInv, HostSound
  <2> HIDE DEF name
  <2> QED
    BY <1>3, <2>1, HostMapped
<1> DEFINE h == world.host_list[j]
<1>5. h \in Elements(world.host_list) /\ Holds(h.name, path)
  BY <1>3, <1>4 DEF Elements
<1>6. o = Under(path, h)
  BY <1>2, <1>3, <1>4 DEF Under
<1> HIDE DEF h
<1> QED
  BY <1>5, <1>6, ConfiguredBy

\* An object of the host is a sequence of components.
LEMMA ConfiguredTyped ==
  ASSUME HostLookups, world \in Worlds
  PROVE  Configured \subseteq Seq(Path)
<1> SUFFICES ASSUME NEW o \in Configured
             PROVE  o \in Seq(Path)
  OBVIOUS
<1>1. PICK k \in 1..Len(index), h \in Elements(world.host_list) :
        /\ Runtime(k) /\ Holds(h.name, index[k].data[1])
        /\ o = Under(index[k].data[1], h)
  BY ConfiguredBy
<1>2. PICK i \in 1..Len(world.host_list) : h = world.host_list[i]
  BY DEF Elements
<1>3. /\ h.dir \in Seq(Path)
      /\ h.name \in Path /\ index[k].data[1] \in Path
  BY <1>1, <1>2, WorldsAssumption DEF HostSound, HostLookups, Runtime, index
<1> DEFINE c == Components(index[k].data[1])
           d == Components(h.name)
<1>4. c \in Seq(Path) /\ d \in Seq(Path)
  BY <1>3, SameNames, SameComponents, Lookup!ComponentsType
<1> HIDE DEF c, d
<1>5. Drop(c, Len(d)) \in Seq(Path)
  BY <1>4 DEF Drop
<1>6. o = h.dir \o Drop(c, Len(d))
  BY <1>1 DEF Under, c, d
<1> QED
  BY <1>3, <1>5, <1>6

\* What is at or below something configured.
Reachable(o) == \E c \in Configured : StartsWith(o, c)

LEMMA ContainedBy ==
  Contained <=> (~world.host_preopens =>
                   \A d \in held : d.kind = "host" => Reachable(d.at))
BY DEF Contained, Reachable

LEMMA StepContained ==
  ASSUME HostLookups, TInv, Contained, [Next]_vars
  PROVE  Contained'
<1>1. UNCHANGED world
  BY DEF Next, OnDescriptor, OnStream, GetDirectories, DropDescriptor, AtPath, AtDescriptor,
         IsSameObject, Modify, GetFlags, Advise, ReadViaStream, ReadAt, ReadDirectory, ReadStream,
         ReadDirectoryEntry, DropStream, vars
<1>2. Configured' = Configured
  BY <1>1 DEF Configured, index, Runtime
<1> SUFFICES ASSUME ~world.host_preopens, NEW d \in held', d.kind = "host", d \notin held
             PROVE  Reachable(d.at)
  BY <1>1, <1>2, ContainedBy DEF Contained, Reachable
<1>3. CASE GetDirectories
  <2>1. d \in Elements(HostEntries \o StaticEntries)
    BY <1>3, Initialized DEF GetDirectories, Grant
  <2>2. HostEntries = <<>>
    BY DEF HostEntries
  <2>3. HostEntries \o StaticEntries = StaticEntries
    BY <2>2, EntriesTyped DEF TInv
  <2>4. PICK i \in 1..Len(StaticEntries) : d = StaticEntries[i]
    BY <2>1, <2>3 DEF Elements
  <2>5. i \in 1..Len(world.preopens)
    BY WorldsAssumption DEF StaticEntries, TInv
  <2>6. d = Static(world.preopens[i])
    BY <2>4, <2>5 DEF StaticEntries
  <2> QED
    BY <2>6 DEF Static
<1>4. ASSUME NEW e \in held, OnDescriptor(e)
      PROVE  Reachable(d.at)
  <2>1. PICK op \in PathOps, path \in Paths : AtPath(op, e, path)
    <3>1. \A op \in {"stat", "type", "hash"} : AtDescriptor(op, e) => held' = held
      BY DescriptorOpens
    <3> QED
      BY <1>4, <3>1 DEF OnDescriptor, DropDescriptor, IsSameObject, Modify, GetFlags, Advise, ReadViaStream,
                        ReadAt, ReadDirectory
  <2>2. Bounded(index) /\ e \in Descriptor
    BY IndexBounded DEF TInv, index
  <2>3. Opened(e)
    BY <2>1, <2>2, PathOpens DEF TInv
  <2>4. PICK o \in world.host_objects :
          /\ held' = held \cup {Host(o)}
          /\ \/ e.kind = "host" /\ StartsWith(o, e.at)
             \/ \E k \in 1..Len(index) : Runtime(k) /\ RuntimeObject(k, o)
    BY <2>3 DEF Opened, Static
  <2>5. d.at = o /\ o \in Seq(Path)
    <3>1. d = Host(o)
      BY <2>4
    <3>2. world.host_objects \subseteq Seq(Path)
      BY WorldsAssumption DEF TInv, HostSound
    <3> QED
      BY <3>1, <3>2 DEF Host
  <2>6. initialized = TRUE
    BY DEF TInv
  <2>7. CASE e.kind = "host" /\ StartsWith(o, e.at)
    <3>1. PICK c \in Configured : StartsWith(e.at, c)
      BY <2>7 DEF Contained
    <3>2. c \in Seq(Path)
      BY ConfiguredTyped DEF TInv
    <3>3. e.at \in Seq(Path)
      BY <2>2, <2>7, DescriptorKinds, WorldsAssumption DEF TInv, HostSound
    <3>4. StartsWith(o, c)
      BY <2>5, <2>7, <3>1, <3>2, <3>3, PrefixTransitive
    <3> QED
      BY <2>5, <3>4 DEF Reachable
  <2>8. CASE \E k \in 1..Len(index) : Runtime(k) /\ RuntimeObject(k, o)
    <3>1. o \in Configured
      BY <2>6, <2>8, RuntimeConfigured
    <3>2. StartsWith(o, o)
      BY <2>5, PrefixReflexive
    <3> QED
      BY <2>5, <3>1, <3>2 DEF Reachable
  <2> QED
    BY <2>4, <2>7, <2>8
<1>5. ASSUME NEW s \in Streams, OnStream(s)
      PROVE  Reachable(d.at)
  BY <1>5 DEF OnStream, ReadStream, ReadDirectoryEntry, DropStream
<1>6. CASE UNCHANGED vars
  BY <1>6 DEF vars
<1> QED
  BY <1>3, <1>4, <1>5, <1>6 DEF Next

\* Unless the host's preopens are given to the guest, it never holds a host
\* descriptor but of something at or below a configured runtime entry, when the
\* names and paths that get_host_preopen sees are the ones it is made for.
THEOREM HostContained ==
  ASSUME HostLookups
  PROVE  Spec => []Contained
<1>1. Init => Contained
  BY DEF Init, Contained
<1>2. TInv /\ Contained /\ [Next]_vars => Contained'
  BY StepContained
<1> QED
  BY <1>1, <1>2, TypeCorrect, PTL DEF Spec

-----------------------------------------------------------------------------
(***************************************************************************)
(* Static descriptors, and what is read of them.                           *)
(***************************************************************************)
\* Nothing but a preopen is a static descriptor of a runtime entry.
RootOnly(d) ==
  d.kind = "static" => ~Runtime(d.at) \/ d.at \in Elements(world.preopens)

RootsOnly ==
  /\ \A d \in held : RootOnly(d)
  /\ \A s \in Streams : streams[s] # Idle => RootOnly(streams[s].of)

\* What a step does to a stream.
FileStream(d, offset) == [kind |-> "file", of |-> d, pos |-> offset]
DirStream(d) == [kind |-> "dir", of |-> d, pos |-> 0]

ReadOn(s) ==
  /\ streams[s].kind = "file" /\ streams[s].of.kind # "host"
  /\ ReadError(streams[s].of.at, streams[s].pos) = "none"
  /\ \E len \in Lens :
       streams'[s] = [streams[s] EXCEPT !.pos =
                        Advance(streams[s].of.at, streams[s].pos, len)]

ListedOn(s) ==
  /\ streams[s].kind = "dir"
  /\ streams'[s] = [streams[s] EXCEPT !.pos = streams[s].pos + 1]

StreamMoves(s) ==
  \/ streams'[s] = streams[s]
  \/ streams'[s] = Idle
  \/ \E d \in held, offset \in Offsets : streams'[s] = FileStream(d, offset)
  \/ \E d \in held : streams'[s] = DirStream(d)
  \/ ReadOn(s)
  \/ ListedOn(s)

LEMMA StreamStep ==
  ASSUME TInv, [Next]_vars, NEW s \in Streams
  PROVE  StreamMoves(s)
<1>1. streams \in [Streams -> StreamState]
  BY DEF TInv
<1>2. CASE GetDirectories
  BY <1>2 DEF GetDirectories, StreamMoves
<1>3. ASSUME NEW d \in held, OnDescriptor(d)
      PROVE  StreamMoves(s)
  <2>1. ASSUME NEW r \in Streams, NEW offset \in Offsets, ReadViaStream(r, d, offset)
        PROVE  StreamMoves(s)
    <3>1. UNCHANGED streams \/ streams' = [streams EXCEPT ![r] = FileStream(d, offset)]
      BY <2>1 DEF ReadViaStream, FileStream
    <3>2. streams'[s] = streams[s] \/ streams'[s] = FileStream(d, offset)
      BY <1>1, <3>1
    <3> QED
      BY <3>2 DEF StreamMoves
  <2>2. ASSUME NEW r \in Streams, ReadDirectory(r, d)
        PROVE  StreamMoves(s)
    <3>1. UNCHANGED streams \/ streams' = [streams EXCEPT ![r] = DirStream(d)]
      BY <2>2 DEF ReadDirectory, DirStream
    <3>2. streams'[s] = streams[s] \/ streams'[s] = DirStream(d)
      BY <1>1, <3>1
    <3> QED
      BY <3>2 DEF StreamMoves
  <2>3. UNCHANGED streams => StreamMoves(s)
    BY DEF StreamMoves
  <2> QED
    BY <1>3, <2>1, <2>2, <2>3
    DEF OnDescriptor, DropDescriptor, AtPath, AtDescriptor, IsSameObject, Modify, GetFlags, Advise, ReadAt
<1>4. ASSUME NEW r \in Streams, OnStream(r)
      PROVE  StreamMoves(s)
  <2>1. CASE r # s
    <3>1. \/ UNCHANGED streams
          \/ \E x : streams' = [streams EXCEPT ![r] = x]
      BY <1>4 DEF OnStream, ReadStream, ReadDirectoryEntry, DropStream
    <3>2. streams'[s] = streams[s]
      BY <1>1, <2>1, <3>1
    <3> QED
      BY <3>2 DEF StreamMoves
  <2>2. CASE r = s
    <3>1. ASSUME NEW len \in Lens, ReadStream(s, len)
          PROVE  StreamMoves(s)
      BY <1>1, <3>1 DEF ReadStream, StreamMoves, ReadOn
    <3>2. CASE ReadDirectoryEntry(s)
      BY <1>1, <3>2 DEF ReadDirectoryEntry, StreamMoves, ListedOn
    <3>3. CASE DropStream(s)
      BY <1>1, <3>3 DEF DropStream, StreamMoves
    <3> QED
      BY <1>4, <2>2, <3>1, <3>2, <3>3 DEF OnStream
  <2> QED
    BY <2>1, <2>2
<1>5. CASE UNCHANGED vars
  BY <1>5 DEF vars, StreamMoves
<1> QED
  BY <1>2, <1>3, <1>4, <1>5 DEF Next

LEMMA WorldStays ==
  ASSUME [Next]_vars
  PROVE  UNCHANGED world
BY DEF Next, OnDescriptor, OnStream, GetDirectories, DropDescriptor, AtPath, AtDescriptor,
       IsSameObject, Modify, GetFlags, Advise, ReadViaStream, ReadAt, ReadDirectory, ReadStream,
       ReadDirectoryEntry, DropStream, vars

LEMMA StreamMovesFields ==
  ASSUME TInv, NEW s \in Streams, NEW pos \in Nat, streams[s].kind \in {"file", "dir"}
  PROVE  /\ [streams[s] EXCEPT !.pos = pos].kind = streams[s].kind
         /\ [streams[s] EXCEPT !.pos = pos].of = streams[s].of
         /\ [streams[s] EXCEPT !.pos = pos].pos = pos
         /\ streams[s] # Idle
<1>1. streams[s] \in StreamState
  BY DEF TInv
<1>2. streams[s] # Idle
  BY DEF Idle
<1>3. streams[s] \in [kind : {"file", "dir"}, of : Descriptor, pos : Nat]
  BY <1>1, <1>2 DEF StreamState
<1> QED
  BY <1>2, <1>3

\* A read that has moved a stream.
LEMMA ReadOnMoves ==
  ASSUME TInv, CallsAssumption, NEW s \in Streams, ReadOn(s)
  PROVE  \E len \in Lens :
           LET k == streams[s].of.at
               offset == streams[s].pos
           IN  /\ streams[s] # Idle /\ k \in 1..Len(index) /\ offset \in Nat
               /\ ReadError(k, offset) = "none"
               /\ streams'[s].kind = "file" /\ streams'[s].of = streams[s].of
               /\ streams'[s].pos = Advance(k, offset, len)
<1> DEFINE k == streams[s].of.at
           offset == streams[s].pos
<1>1. streams[s].kind = "file" /\ streams[s].of.kind # "host" /\ ReadError(k, offset) = "none"
  BY DEF ReadOn
<1>2. PICK len \in Lens :
        streams'[s] = [streams[s] EXCEPT !.pos = Advance(k, offset, len)]
  BY DEF ReadOn
<1>3. streams[s] # Idle
  BY <1>1 DEF Idle
<1>4. streams[s].of \in Descriptor /\ offset \in Nat
  BY <1>3, StreamFields
<1>5. k \in 1..Len(index)
  BY <1>1, <1>4, DescriptorKinds
<1>6. Advance(k, offset, len) \in Nat
  <2>1. len \in Nat
    BY CallsAssumption
  <2> HIDE DEF k, offset
  <2> QED
    BY <1>1, <1>4, <1>5, <2>1, ReadInside DEF TInv
<1>7. /\ streams'[s].kind = "file" /\ streams'[s].of = streams[s].of
      /\ streams'[s].pos = Advance(k, offset, len)
  BY <1>1, <1>2, <1>6, StreamMovesFields
<1> QED
  BY <1>1, <1>3, <1>4, <1>5, <1>7

LEMMA StepRootsOnly ==
  ASSUME CallsAssumption, TInv, RootsOnly, [Next]_vars
  PROVE  RootsOnly'
<1>1. UNCHANGED world /\ \A d : RootOnly(d)' <=> RootOnly(d)
  BY WorldStays DEF RootOnly, Runtime, index
<1>2. ASSUME NEW d \in held'
      PROVE  RootOnly(d)
  <2>1. CASE d \in held
    BY <2>1 DEF RootsOnly
  <2>2. CASE d \notin held
    <3>1. CASE GetDirectories
      <4>1. d \in Elements(HostEntries \o StaticEntries)
        BY <2>2, <3>1, Initialized DEF GetDirectories, Grant
      <4>2. CASE \E i \in 1..Len(world.preopens) : d = Static(world.preopens[i])
        <5>1. PICK i \in 1..Len(world.preopens) : d = Static(world.preopens[i])
          BY <4>2
        <5>2. d.at \in Elements(world.preopens)
          BY <5>1 DEF Static, Elements
        <5> QED
          BY <5>2 DEF RootOnly
      <4>3. CASE \E i \in 1..Len(world.host_list) : d = Host(world.host_list[i].dir)
        BY <4>3 DEF Host, RootOnly
      <4> QED
        BY <4>1, <4>2, <4>3, EntriesAre DEF TInv
    <3>2. ASSUME NEW e \in held, OnDescriptor(e)
          PROVE  RootOnly(d)
      <4>1. PICK op \in PathOps, path \in Paths : AtPath(op, e, path)
        <5>1. \A op \in {"stat", "type", "hash"} : AtDescriptor(op, e) => held' = held
          BY DescriptorOpens
        <5> QED
          BY <2>2, <3>2, <5>1 DEF OnDescriptor, DropDescriptor, IsSameObject, Modify, GetFlags, Advise,
                                  ReadViaStream, ReadAt, ReadDirectory
      <4>2. Bounded(index) /\ e \in Descriptor
        BY IndexBounded DEF TInv, index
      <4>3. Opened(e)
        BY <4>1, <4>2, PathOpens DEF TInv
      <4>4. \/ \E k \in 1..Len(index) : ~Runtime(k) /\ d = Static(k)
            \/ \E o : d = Host(o)
        BY <2>2, <4>3 DEF Opened
      <4> QED
        BY <4>4 DEF Static, Host, RootOnly
    <3>3. ASSUME NEW s \in Streams, OnStream(s)
          PROVE  RootOnly(d)
      BY <2>2, <3>3 DEF OnStream, ReadStream, ReadDirectoryEntry, DropStream
    <3> QED
      BY <2>2, <3>1, <3>2, <3>3 DEF Next, vars
  <2> QED
    BY <2>1, <2>2
<1>3. ASSUME NEW s \in Streams, streams'[s] # Idle
      PROVE  RootOnly(streams'[s].of)
  <2>1. StreamMoves(s)
    BY StreamStep
  <2>2. CASE streams'[s] = streams[s]
    BY <1>3, <2>2 DEF RootsOnly
  <2>3. CASE \E d \in held, offset \in Offsets : streams'[s] = FileStream(d, offset)
    BY <2>3 DEF FileStream, RootsOnly
  <2>4. CASE \E d \in held : streams'[s] = DirStream(d)
    BY <2>4 DEF DirStream, RootsOnly
  <2>5. CASE ReadOn(s)
    <3>1. streams'[s].of = streams[s].of /\ streams[s] # Idle
      BY <2>5, ReadOnMoves
    <3> QED
      BY <3>1 DEF RootsOnly
  <2>6. CASE ListedOn(s)
    <3>1. streams[s] # Idle
      BY <2>6 DEF ListedOn, Idle
    <3>2. streams[s].pos \in Nat
      BY <3>1, StreamFields
    <3>3. streams'[s].of = streams[s].of
      BY <2>6, <3>2, StreamMovesFields DEF ListedOn
    <3> QED
      BY <3>1, <3>3 DEF RootsOnly
  <2> QED
    BY <1>3, <2>1, <2>2, <2>3, <2>4, <2>5, <2>6 DEF StreamMoves
<1> QED
  BY <1>1, <1>2, <1>3 DEF RootsOnly, RootOnly, Runtime, index

LEMMA InitRootsOnly == Init => RootsOnly
BY DEF Init, RootsOnly

\* The comment of is_same_object, when no preopen is a runtime entry: an open
\* static descriptor never points to one.
THEOREM StaticsOnly ==
  ASSUME \A w \in Worlds : StaticPreopens(w)
  PROVE  Spec => []StaticNeverRuntime
<1>1. TInv /\ RootsOnly /\ [Next]_vars => RootsOnly'
  BY CallsAssumption, StepRootsOnly
<1>2. TInv /\ RootsOnly => StaticNeverRuntime
  <2> SUFFICES ASSUME TInv, RootsOnly, NEW d \in held, d.kind = "static"
               PROVE  ~Runtime(d.at)
    BY DEF StaticNeverRuntime
  <2>1. CASE d.at \in Elements(world.preopens)
    <3>1. PICK i \in 1..Len(world.preopens) : d.at = world.preopens[i]
      BY <2>1 DEF Elements
    <3>2. StaticPreopens(world)
      BY DEF TInv
    <3> QED
      BY <3>1, <3>2 DEF StaticPreopens, Runtime, index
  <2> QED
    BY <2>1 DEF RootsOnly, RootOnly
<1> QED
  BY <1>1, <1>2, InitRootsOnly, TypeCorrect, PTL DEF Spec

(***************************************************************************)
(* Reads stay within the file.                                             *)
(***************************************************************************)
Within(s) ==
  streams[s].kind = "file" /\ streams[s].of.kind = "static" =>
    /\ streams[s].pos \in 0..(UsizeMod - 1)
    /\ streams[s].pos \in Offsets \/ streams[s].pos <= Size(streams[s].of.at)

LEMMA StepWithin ==
  ASSUME CallsAssumption, GuestReads, TInv, NEW s \in Streams, Within(s), [Next]_vars
  PROVE  Within(s)'
<1>1. UNCHANGED world /\ \A k : Size(k)' = Size(k)
  BY WorldStays DEF Size, index
<1>2. StreamMoves(s)
  BY StreamStep
<1>3. CASE streams'[s] = streams[s]
  BY <1>1, <1>3 DEF Within
<1>4. CASE streams'[s] = Idle
  BY <1>4 DEF Within, Idle
<1>5. CASE \E d \in held, offset \in Offsets : streams'[s] = FileStream(d, offset)
  <2>1. PICK d \in held, offset \in Offsets : streams'[s] = FileStream(d, offset)
    BY <1>5
  <2>2. streams'[s].pos = offset
    BY <2>1 DEF FileStream
  <2>3. offset \in Offsets /\ offset \in 0..(UsizeMod - 1)
    BY DEF GuestReads
  <2> QED
    BY <2>2, <2>3 DEF Within
<1>6. CASE \E d \in held : streams'[s] = DirStream(d)
  BY <1>6 DEF DirStream, Within
<1>7. CASE ReadOn(s)
  <2> DEFINE k == streams[s].of.at
             offset == streams[s].pos
  <2>1. PICK len \in Lens :
          /\ streams[s] # Idle /\ k \in 1..Len(index) /\ offset \in Nat
          /\ ReadError(k, offset) = "none"
          /\ streams'[s].kind = "file" /\ streams'[s].of = streams[s].of
          /\ streams'[s].pos = Advance(k, offset, len)
    BY <1>7, ReadOnMoves
  <2>2. streams[s].kind = "file" /\ streams[s].of.kind = "static"
    <3>1. streams[s].of \in Descriptor
      BY <2>1, StreamFields
    <3> QED
      BY <1>7, <3>1, DescriptorKinds DEF ReadOn
  <2>3. offset \in 0..(UsizeMod - 1)
    BY <2>2 DEF Within
  <2>4. AsUsize(offset) = offset
    <3>1. UsizeMod \in Nat
      BY WorldsAssumption
    <3> QED
      BY <2>3, <3>1 DEF AsUsize
  <2>5. len \in Nat
    BY CallsAssumption
  <2> HIDE DEF k, offset
  <2>6. /\ ReadLen(k, offset, len) \in Nat
        /\ AsUsize(offset) + ReadLen(k, offset, len) <= Size(k)
        /\ Size(k) \in 0..(UsizeMod - 1)
    BY <2>1, <2>5, ReadInside DEF TInv
  <2>7. /\ streams'[s].pos <= Size(k) /\ streams'[s].pos \in 0..(UsizeMod - 1)
    BY <2>1, <2>3, <2>4, <2>6, WorldsAssumption DEF Advance
  <2>8. streams'[s].of.at = k
    BY <2>1 DEF k
  <2> QED
    BY <1>1, <2>7, <2>8 DEF Within
<1>8. CASE ListedOn(s)
  <2>1. streams[s] # Idle /\ streams[s].kind = "dir"
    BY <1>8 DEF ListedOn, Idle
  <2>2. streams[s].pos \in Nat
    BY <2>1, StreamFields
  <2>3. streams'[s].kind = "dir"
    BY <1>8, <2>1, <2>2, StreamMovesFields DEF ListedOn
  <2> QED
    BY <2>3 DEF Within
<1> QED
  BY <1>2, <1>3, <1>4, <1>5, <1>6, <1>7, <1>8 DEF StreamMoves

\* No read of a static file leaves the file, when the guest uses offsets and
\* lengths that fit a usize.
THEOREM ReadsInside ==
  ASSUME GuestReads
  PROVE  Spec => []StreamsInside
<1> DEFINE Inv == \A s \in Streams : Within(s)
<1>1. Init => Inv
  BY DEF Init, Idle, Within
<1>2. TInv /\ Inv /\ [Next]_vars => Inv'
  BY CallsAssumption, StepWithin
<1>3. Inv => StreamsInside
  BY DEF Within, StreamsInside
<1> HIDE DEF Inv
<1> QED
  BY <1>1, <1>2, <1>3, TypeCorrect, PTL DEF Spec

-----------------------------------------------------------------------------
(***************************************************************************)
(* The index and the tree: a lookup in the one leads where the path leads  *)
(* in the other.                                                           *)
(***************************************************************************)
origin == world.origin
NamedIn(n, name) == {c \in Abstract!ChildrenOf(n) : world.tree.name[c] = name}

LEMMA ListedAt ==
  ASSUME world \in Worlds, NEW k \in 1..Len(index)
  PROVE  LET listed == world.tree.children[origin[k]]
             first == ChildFirst(index, k)
         IN  /\ index[k].ty # "dir" => listed = <<>>
             /\ index[k].ty = "dir" =>
                  /\ SliceInBounds(index, k) /\ first \in Nat /\ Len(listed) \in Nat
                  /\ ChildCount(index, k) = Len(listed)
                  /\ \A j \in 1..Len(listed) :
                       /\ first + j - 1 \in 1..Len(index)
                       /\ origin[first + j - 1] = listed[j]
             /\ \A c, d \in 1..Len(listed) :
                  world.tree.name[listed[c]] = world.tree.name[listed[d]] => c = d
             /\ index[k].name = world.tree.name[origin[k]]
<1> DEFINE listed == world.tree.children[origin[k]]
           first == ChildFirst(index, k)
<1>1. /\ Represents(index, origin, world.tree) /\ Sound(index, origin, world.tree)
      /\ k \in 1..Len(world.index)
  BY WorldsAssumption DEF index, origin
<1>2. /\ IF world.tree.ty[origin[k]] = "dir"
         THEN index[k].data[1] \in Nat /\ index[k].data[2] \in Nat
         ELSE listed = <<>>
      /\ \A c, d \in 1..Len(listed) :
           world.tree.name[listed[c]] = world.tree.name[listed[d]] => c = d
  BY <1>1 DEF Sound
<1>3. /\ index[k].ty = "dir" <=> world.tree.ty[origin[k]] = "dir"
      /\ index[k].name = world.tree.name[origin[k]]
  BY <1>1, IndexFacts DEF Represents, index, origin, RuntimeTypes
<1>4. CASE index[k].ty = "dir"
  <2>1. /\ SliceInBounds(index, k) /\ first \in Nat /\ ChildCount(index, k) \in Nat
        /\ ChildPositions(index, k) \subseteq 1..Len(index)
    BY <1>1, <1>4, IndexFacts DEF index
  <2>2. /\ ChildCount(index, k) = Len(listed)
        /\ \A c \in 1..Len(listed) : origin[first + c - 1] = listed[c]
    BY <1>1, <1>4 DEF Represents, ListsChildren
  <2>3. ChildPositions(index, k) = first..(first + Len(listed) - 1)
    BY <2>2 DEF ChildPositions
  <2>4. Len(listed) \in Nat
    BY <2>1, <2>2
  <2> DEFINE n == Len(listed)
  <2>5. \A j \in 1..n : first + j - 1 \in 1..Len(index)
    <3>1. first..(first + n - 1) \subseteq 1..Len(index) /\ n \in Nat /\ first \in Nat
      BY <2>1, <2>3, <2>4
    <3> HIDE DEF n, first
    <3>2. \A j \in 1..n : first + j - 1 \in first..(first + n - 1)
      BY <3>1
    <3> QED
      BY <3>1, <3>2
  <2> QED
    BY <1>2, <1>3, <1>4, <2>1, <2>2, <2>4, <2>5
<1>5. CASE index[k].ty # "dir"
  BY <1>2, <1>3, <1>5
<1> QED
  BY <1>4, <1>5

LEMMA ChildFound ==
  ASSUME world \in Worlds, NEW k \in 1..Len(index), NEW name
  PROVE  LET found == LookupChild(index, k, name)
         IN  \/ /\ found.ok = TRUE /\ found.at \in 1..Len(index)
                /\ NamedIn(origin[k], name) = {origin[found.at]}
             \/ /\ found.ok = FALSE /\ found.err \in {"no-entry", "not-directory", "trap"}
                /\ NamedIn(origin[k], name) = {}
<1> DEFINE listed == world.tree.children[origin[k]]
           first == ChildFirst(index, k)
           n == Len(listed)
           hits == {c \in ChildPositions(index, k) : index[c].name = name}
           at == CHOOSE c \in hits : TRUE
           found == LookupChild(index, k, name)
<1>1. NamedIn(origin[k], name) =
        {c \in {listed[j] : j \in 1..n} : world.tree.name[c] = name}
  BY DEF NamedIn, Abstract!ChildrenOf, Abstract!tree
<1>2. CASE index[k].ty # "dir"
  <2>1. listed = <<>>
    BY <1>2, ListedAt
  <2>2. NamedIn(origin[k], name) = {}
    BY <1>1, <2>1
  <2>3. found = Err("not-directory") \/ found = Err("trap")
    BY <1>2 DEF LookupChild, SliceInBounds, Trap
  <2> HIDE DEF found
  <2>4. found.ok = FALSE /\ found.err \in {"not-directory", "trap"}
    BY <2>3 DEF Err
  <2> QED
    BY <2>2, <2>4 DEF found
<1>3. CASE index[k].ty = "dir"
  <2>1. /\ SliceInBounds(index, k) /\ first \in Nat /\ n \in Nat
        /\ ChildCount(index, k) = n
        /\ \A j \in 1..n : /\ first + j - 1 \in 1..Len(index)
                           /\ origin[first + j - 1] = listed[j]
    BY <1>3, ListedAt
  <2>2. \A c, d \in 1..n :
          world.tree.name[listed[c]] = world.tree.name[listed[d]] => c = d
    BY ListedAt
  <2>3. \A c \in 1..Len(index) : index[c].name = world.tree.name[origin[c]]
    BY ListedAt
  <2>4. found = IF hits = {} THEN Err("no-entry") ELSE Ok(at)
    <3>1. Sorted(index, k)
      BY <1>3, IndexSorted DEF index
    <3> QED
      BY <1>3, <2>1, <3>1 DEF LookupChild, IsDirectory, DirTypes, ChildNamed
  <2>5. ChildPositions(index, k) = first..(first + n - 1)
    BY <2>1 DEF ChildPositions
  <2>6. /\ \A j \in 1..n : first + j - 1 \in ChildPositions(index, k)
        /\ \A c \in ChildPositions(index, k) : c - first + 1 \in 1..n /\ first + (c - first + 1) - 1 = c
    <3> HIDE DEF first, n
    <3> QED
      BY <2>1, <2>5
  <2> HIDE DEF first, n, listed, found
  <2>7. \A c \in hits : \E j \in 1..n :
          c = first + j - 1 /\ origin[c] = listed[j] /\ world.tree.name[listed[j]] = name
    <3> SUFFICES ASSUME NEW c \in hits
                 PROVE  \E j \in 1..n :
                          /\ c = first + j - 1 /\ origin[c] = listed[j]
                          /\ world.tree.name[listed[j]] = name
      OBVIOUS
    <3>1. c \in ChildPositions(index, k) /\ index[c].name = name
      OBVIOUS
    <3> DEFINE j == c - first + 1
    <3>2. j \in 1..n /\ c = first + j - 1
      BY <2>6, <3>1
    <3> HIDE DEF j, hits
    <3>3. origin[c] = listed[j] /\ c \in 1..Len(index)
      BY <2>1, <3>2
    <3>4. world.tree.name[listed[j]] = name
      BY <2>3, <3>1, <3>3
    <3> QED
      BY <3>2, <3>3, <3>4
  <2>8. \A j \in 1..n : world.tree.name[listed[j]] = name => first + j - 1 \in hits
    BY <2>1, <2>3, <2>6
  <2>9. CASE hits = {}
    <3>1. NamedIn(origin[k], name) = {}
      BY <1>1, <2>8, <2>9
    <3>2. found.ok = FALSE /\ found.err = "no-entry"
      BY <2>4, <2>9 DEF Err
    <3> QED
      BY <3>1, <3>2 DEF found
  <2>10. CASE hits # {}
    <3>1. at \in hits
      BY <2>10
    <3> HIDE DEF at, hits
    <3>2. PICK j \in 1..n :
            at = first + j - 1 /\ origin[at] = listed[j] /\ world.tree.name[listed[j]] = name
      BY <2>7, <3>1
    <3>3. NamedIn(origin[k], name) = {listed[j]}
      BY <1>1, <2>2, <3>2
    <3>4. found.ok = TRUE /\ found.at = at
      BY <2>4, <2>10 DEF Ok
    <3>5. at \in 1..Len(index)
      BY <2>1, <3>2
    <3> QED
      BY <3>2, <3>3, <3>4, <3>5 DEF found
  <2> QED
    BY <2>9, <2>10
<1> QED
  BY <1>2, <1>3

(***************************************************************************)
(* The nodes the names of a path lead to.                                  *)
(***************************************************************************)
NodeStep(at, name) ==
  {c \in UNION {Abstract!ChildrenOf(p) : p \in at} : world.tree.name[c] = name}

ReachOf(n, path, l, g) ==
  g = [m \in 0..l |-> IF m = 0 THEN {n} ELSE NodeStep(g[m - 1], path[m])]

ReachTo(n, path) == CHOOSE g : ReachOf(n, path, Len(path), g)

LEMMA ReachExists ==
  ASSUME NEW n, NEW path, NEW l \in Nat
  PROVE  \E g : ReachOf(n, path, l, g)
<1> DEFINE S == {m \in 0..l : \E g : ReachOf(n, path, m, g)}
<1>1. 0 \in S
  <2> DEFINE g == [m \in 0..0 |-> {n}]
  <2>1. ReachOf(n, path, 0, g)
    BY DEF ReachOf
  <2> QED
    BY <2>1
<1>2. ASSUME NEW m \in 0..(l - 1), m \in S
      PROVE  m + 1 \in S
  <2>1. PICK g : ReachOf(n, path, m, g)
    BY <1>2
  <2> DEFINE h == [j \in 0..(m + 1) |->
                     IF j = m + 1 THEN NodeStep(g[m], path[m + 1]) ELSE g[j]]
  <2>2. ASSUME NEW j \in 0..(m + 1)
        PROVE  h[j] = IF j = 0 THEN {n} ELSE NodeStep(h[j - 1], path[j])
    <3>1. g = [i \in 0..m |-> IF i = 0 THEN {n} ELSE NodeStep(g[i - 1], path[i])]
      BY <2>1 DEF ReachOf
    <3>2. CASE j = m + 1
      BY <3>2
    <3>3. CASE j \in 0..m
      <4>1. h[j] = g[j] /\ (j # 0 => h[j - 1] = g[j - 1])
        BY <3>3
      <4>2. g[j] = IF j = 0 THEN {n} ELSE NodeStep(g[j - 1], path[j])
        BY <3>1, <3>3
      <4> HIDE DEF h
      <4> QED
        BY <4>1, <4>2
    <3> QED
      BY <3>2, <3>3
  <2>3. ReachOf(n, path, m + 1, h)
    BY <2>2 DEF ReachOf
  <2> QED
    BY <2>3
<1> HIDE DEF S
<1>3. l \in S
  BY <1>1, <1>2, Lookup!UpToInduction
<1> QED
  BY <1>3 DEF S

LEMMA ReachDef ==
  ASSUME NEW n, NEW path, Len(path) \in Nat
  PROVE  ReachOf(n, path, Len(path), ReachTo(n, path))
BY ReachExists DEF ReachTo

LEMMA ReachLast ==
  ASSUME NEW n, NEW path
  PROVE  Abstract!Reached(n, path) = ReachTo(n, path)[Len(path)]
BY DEF Abstract!Reached, Abstract!tree, ReachTo, ReachOf, NodeStep

\* A position found, or not, and the nodes reached.
Agrees(from, nodes) ==
  \/ from.ok = TRUE /\ from.at \in 1..Len(index) /\ nodes = {origin[from.at]}
  \/ /\ from.ok = FALSE /\ from.err \in {"no-entry", "not-directory", "trap"}
     /\ nodes = {}

LEMMA StepAgrees ==
  ASSUME world \in Worlds, NEW from, NEW nodes, Agrees(from, nodes), NEW path, NEW m,
         ~(m = Len(path) /\ Stays(path[m]))
  PROVE  Agrees(StepAt(index, from, path, m), NodeStep(nodes, path[m]))
<1> DEFINE part == path[m]
           to == StepAt(index, from, path, m)
<1>1. CASE from.ok = FALSE
  <2>1. to = from /\ nodes = {}
    BY <1>1 DEF StepAt, Step, Agrees
  <2>2. NodeStep(nodes, part) = {}
    BY <2>1 DEF NodeStep
  <2> QED
    BY <1>1, <2>1, <2>2 DEF Agrees
<1>2. CASE from.ok = TRUE
  <2>1. to = LookupChild(index, from.at, part) /\ from.at \in 1..Len(index)
    BY <1>2 DEF StepAt, Step, Agrees
  <2>2. nodes = {origin[from.at]}
    BY <1>2 DEF Agrees
  <2>3. NodeStep(nodes, part) = NamedIn(origin[from.at], part)
    BY <2>2 DEF NodeStep, NamedIn
  <2>4. \A k \in 1..Len(index) :
          Agrees(LookupChild(index, k, part), NamedIn(origin[k], part))
    BY ChildFound DEF Agrees
  <2> QED
    BY <2>1, <2>3, <2>4
<1> QED
  BY <1>1, <1>2 DEF Agrees

LEMMA SameStays == \A part : Abstract!Stays(part) <=> Stays(part)
BY Zenon DEF Abstract!Stays, Stays, Empty

\* A trimmed path has the parts that the lookup does not stay at.
Trimmed(path, l, trimmed) ==
  /\ l \in 0..Len(path) /\ Len(trimmed) = l
  /\ \A m \in 1..l : trimmed[m] = path[m] /\ ~(m = Len(path) /\ Stays(path[m]))
  /\ l = Len(path) \/ (l = Len(path) - 1 /\ Stays(path[Len(path)]))

LEMMA TrimDrops ==
  ASSUME NEW path \in Paths, NEW trimmed, trimmed = Abstract!Trim(path)
  PROVE  Len(path) \in Nat \ {0} /\ Trimmed(path, Len(trimmed), trimmed)
<1> DEFINE n == Len(path)
<1>1. path \in Seq(Elements(path)) /\ path # <<>>
  BY CallsAssumption
<1>2. n \in Nat \ {0}
  <2> DEFINE E == Elements(path)
  <2>1. path \in Seq(E) /\ path # <<>>
    BY <1>1
  <2> HIDE DEF E
  <2> QED
    BY <2>1
<1>3. trimmed = IF Stays(path[n]) THEN SubSeq(path, 1, n - 1) ELSE path
  BY SameStays DEF Abstract!Trim
<1>4. CASE Stays(path[n])
  <2> DEFINE E == Elements(path)
  <2>1. path \in Seq(E) /\ trimmed = SubSeq(path, 1, n - 1)
    BY <1>1, <1>3, <1>4
  <2>4. Len(path) = n /\ n - 1 \in Nat /\ n - 1 <= n
    BY <1>2
  <2> HIDE DEF E, n
  <2>2. Len(trimmed) = n - 1 /\ \A m \in 1..(n - 1) : trimmed[m] = path[m]
    BY <2>1, <2>4
  <2>3. n - 1 \in 0..n /\ \A m \in 1..(n - 1) : m # n
    BY <1>2
  <2> QED
    BY <1>2, <1>4, <2>2, <2>3 DEF Trimmed, n
<1>5. CASE ~Stays(path[n])
  <2>1. trimmed = path
    BY <1>3, <1>5
  <2>2. n \in 0..n
    BY <1>2
  <2> QED
    BY <1>2, <1>5, <2>1, <2>2 DEF Trimmed
<1> QED
  BY <1>4, <1>5

LEMMA WalkAgrees ==
  ASSUME world \in Worlds, NEW k \in 1..Len(index), NEW path, NEW n \in Nat, Ends(path, n),
         NEW l \in Nat, l <= n, NEW trimmed, Trimmed(path, l, trimmed),
         NEW W, WalkOf(index, k, path, n, W),
         NEW root, root = origin[k], NEW R, ReachOf(root, trimmed, l, R)
  PROVE  \A m \in 0..l : Agrees(W[m], R[m])
<1>1. W[0] = Ok(k) /\ \A m \in 1..n : W[m] = StepAt(index, W[m - 1], path, m)
  <2>1. n \in Nat /\ WalkOf(index, k, path, n, W)
    OBVIOUS
  <2> QED
    BY ONLY <2>1, WalkSteps
<1>2. R[0] = {root} /\ \A m \in 1..l : R[m] = NodeStep(R[m - 1], trimmed[m])
  <2>1. R = [m \in 0..l |-> IF m = 0 THEN {root} ELSE NodeStep(R[m - 1], trimmed[m])]
    BY DEF ReachOf
  <2>2. 0 \in 0..l /\ \A m \in 1..l : m \in 0..l /\ m # 0
    OBVIOUS
  <2> QED
    BY <2>1, <2>2
<1> DEFINE S == {m \in 0..l : Agrees(W[m], R[m])}
<1>3. 0 \in S
  <2>1. Agrees(W[0], R[0])
    BY <1>1, <1>2 DEF Ok, Agrees
  <2> QED
    BY <2>1
<1>4. ASSUME NEW m \in 0..(l - 1), m \in S
      PROVE  m + 1 \in S
  <2> DEFINE i == m + 1
  <2>1. i \in 1..n /\ i - 1 = m /\ i \in 0..l /\ i \in 1..l
    OBVIOUS
  <2> HIDE DEF i
  <2>2. W[i] = StepAt(index, W[m], path, i) /\ R[i] = NodeStep(R[m], trimmed[i])
    BY <1>1, <1>2, <2>1
  <2>3. trimmed[i] = path[i] /\ ~(i = Len(path) /\ Stays(path[i]))
    BY <2>1 DEF Trimmed
  <2>4. R[i] = NodeStep(R[m], path[i])
    BY <2>2, <2>3
  <2>5. Agrees(W[m], R[m])
    BY <1>4
  <2>6. Agrees(W[i], R[i])
    BY <2>2, <2>3, <2>4, <2>5, StepAgrees
  <2> QED
    BY <2>1, <2>6 DEF i
<1> HIDE DEF S
<1>5. 0..l \subseteq S
  BY <1>3, <1>4, Lookup!UpToInduction
<1> QED
  BY <1>5 DEF S

\* dir_lookup finds what the tree has under the path, and nothing else.
LEMMA LookupReaches ==
  ASSUME world \in Worlds, NEW k \in 1..Len(index), NEW path \in Paths, path # <<Empty>>
  PROVE  Agrees(DirLookup(index, k, path), Abstract!Reached(origin[k], Abstract!Trim(path)))
<1> DEFINE n == Len(path)
           trimmed == Abstract!Trim(path)
           l == Len(trimmed)
           W == Walk(index, k, path)
           R == ReachTo(origin[k], trimmed)
<1>1. n \in Nat \ {0} /\ Trimmed(path, l, trimmed) /\ Ends(path, n)
  BY TrimDrops DEF Ends
<1>2. l \in Nat /\ l <= n
  BY <1>1 DEF Trimmed
<1>3. WalkOf(index, k, path, n, W) /\ DirLookup(index, k, path) = W[n]
  BY <1>1, WalkDef, WalkLast
<1>4. ReachOf(origin[k], trimmed, l, R) /\ Abstract!Reached(origin[k], trimmed) = R[l]
  BY <1>2, ReachDef, ReachLast
<1>5. \A m \in 1..n : W[m] = StepAt(index, W[m - 1], path, m)
  <2>1. n \in Nat
    BY <1>1
  <2> QED
    BY <1>3, <2>1, WalkSteps
<1> HIDE DEF n, trimmed, l, W, R
<1>6. \A m \in 0..l : Agrees(W[m], R[m])
  BY <1>1, <1>2, <1>3, <1>4, WalkAgrees
<1>7. Agrees(W[l], R[l])
  BY <1>2, <1>6
<1>8. W[n] = W[l]
  <2>1. CASE l = n
    BY <2>1
  <2>2. CASE l = n - 1 /\ Stays(path[n])
    <3>1. W[n] = StepAt(index, W[l], path, n)
      BY <1>1, <1>5, <2>2
    <3> QED
      BY <1>1, <2>2, <3>1 DEF StepAt, Step, Ends
  <2> QED
    BY <1>1, <2>1, <2>2 DEF Trimmed, Ends
<1> QED
  BY <1>3, <1>4, <1>7, <1>8 DEF trimmed

-----------------------------------------------------------------------------
(***************************************************************************)
(* What VirtualFs sees of the adapter.                                     *)
(***************************************************************************)
SeenHeld == {ObjectOf(d) : d \in held}

SeenStreams ==
  [s \in Streams |->
     [kind |-> streams[s].kind,
      of |-> IF streams[s] = Idle THEN <<>> ELSE ObjectOf(streams[s].of),
      pos |-> PosOf(s)]]

SeenCall ==
  [on |-> [i \in 1..Len(call.on) |-> ObjectOf(call.on[i])], args |-> call.args]

SeenAnswer == [op |-> answer.op, status |-> answer.status, value |-> ValueOf(answer)]

SeenValue(op, status, value) == ValueOf([op |-> op, status |-> status, value |-> value])

LEMMA SeenSame ==
  ASSUME UNCHANGED world
  PROVE  /\ \A d : ObjectOf(d)' = ObjectOf(d)
         /\ origin' = origin
         /\ UNCHANGED held => SeenHeld' = SeenHeld
         /\ UNCHANGED streams => SeenStreams' = SeenStreams
         /\ UNCHANGED answer => SeenAnswer' = SeenAnswer
         /\ UNCHANGED call => SeenCall' = SeenCall
<1>1. \A d : ObjectOf(d)' = ObjectOf(d)
  BY DEF ObjectOf
<1>2. origin' = origin /\ index' = index
  BY DEF origin, index
<1>3. UNCHANGED held => SeenHeld' = SeenHeld
  BY <1>1 DEF SeenHeld
<1>4. UNCHANGED streams => SeenStreams' = SeenStreams
  <2>1. UNCHANGED streams => \A s : PosOf(s)' = PosOf(s)
    BY <1>2 DEF PosOf, ChildCount
  <2> QED
    BY <1>1, <2>1 DEF SeenStreams
<1>5. UNCHANGED answer => SeenAnswer' = SeenAnswer
  <2>1. UNCHANGED answer => ValueOf(answer)' = ValueOf(answer)
    <3>1. ASSUME UNCHANGED answer
          PROVE  {ObjectOf(d)' : d \in Elements(answer.value)'}
                   = {ObjectOf(d) : d \in Elements(answer.value)}
      BY <1>1, <3>1 DEF Elements
    <3> QED
      BY <1>1, <1>2, <3>1 DEF ValueOf, origin, Elements
  <2> QED
    BY <2>1 DEF SeenAnswer
<1>6. UNCHANGED call => SeenCall' = SeenCall
  BY <1>1 DEF SeenCall
<1> QED
  BY <1>1, <1>2, <1>3, <1>4, <1>5, <1>6

\* What a call is made on is seen as what these stand for.
LEMMA SeenAsks ==
  ASSUME UNCHANGED world, NEW args
  PROVE  /\ Asks(<<>>, args) => Abstract!Asks(<<>>, args)
         /\ \A d : Asks(<<d>>, args) => Abstract!Asks(<<ObjectOf(d)>>, args)
         /\ \A d, e : Asks(<<d, e>>, args) =>
              Abstract!Asks(<<ObjectOf(d), ObjectOf(e)>>, args)
<1>1. ASSUME NEW on, Asks(on, args)
      PROVE  SeenCall' = [on |-> [i \in 1..Len(on) |-> ObjectOf(on[i])], args |-> args]
  BY <1>1, SeenSame DEF Asks, SeenCall
<1>2. \A on : Abstract!Asks(on, args) <=> SeenCall' = [on |-> on, args |-> args]
  BY DEF Abstract!Asks, SeenCall
<1>3. [i \in 1..Len(<<>>) |-> ObjectOf(<<>>[i])] = <<>>
  OBVIOUS
<1>4. ASSUME NEW d
      PROVE  [i \in 1..Len(<<d>>) |-> ObjectOf(<<d>>[i])] = <<ObjectOf(d)>>
  OBVIOUS
<1>5. ASSUME NEW d, NEW e
      PROVE  [i \in 1..Len(<<d, e>>) |-> ObjectOf(<<d, e>>[i])] = <<ObjectOf(d), ObjectOf(e)>>
  OBVIOUS
<1> QED
  BY <1>1, <1>2, <1>3, <1>4, <1>5

LEMMA SeenReply ==
  ASSUME UNCHANGED world, NEW op, NEW status, NEW value, Reply(op, status, value)
  PROVE  /\ Abstract!Reply(op, status, SeenValue(op, status, value))
         /\ SeenAnswer'.op = op /\ SeenAnswer'.status = status
<1>1. answer' = [op |-> op, status |-> status, value |-> value]
  BY DEF Reply
<1>2. ValueOf(answer)' = SeenValue(op, status, value)
  BY <1>1 DEF ValueOf, SeenValue, ObjectOf, Elements
<1>3. answer'.op = op /\ answer'.status = status
  BY <1>1
<1> QED
  BY <1>2, <1>3 DEF Abstract!Reply, SeenAnswer

LEMMA SeenValues ==
  /\ \A op, status, value : status # "ok" => SeenValue(op, status, value) = value
  /\ \A op \in PathOps \cup {"type"} : \A value : SeenValue(op, "ok", value) = ObjectOf(value)
  /\ \A value : SeenValue("entry", "ok", value) = <<"node", origin[value]>>
  /\ \A value : SeenValue("get-directories", "ok", value) =
                  {ObjectOf(d) : d \in Elements(value)}
  /\ \A op \in {"is-same-object", "modify", "get-flags", "advise", "read", "read-via-stream", "pread",
                "read-directory"} :
       \A value : SeenValue(op, "ok", value) = value
<1>1. ASSUME NEW op, NEW status, NEW value
      PROVE  /\ status # "ok" => SeenValue(op, status, value) = value
             /\ status = "ok" =>
                  /\ op = "get-directories" =>
                       SeenValue(op, status, value) = {ObjectOf(d) : d \in Elements(value)}
                  /\ op \in PathOps \cup {"type"} => SeenValue(op, status, value) = ObjectOf(value)
                  /\ op = "entry" => SeenValue(op, status, value) = <<"node", origin[value]>>
                  /\ op \notin PathOps \cup {"type", "get-directories", "entry"} =>
                       SeenValue(op, status, value) = value
  <2> DEFINE a == [op |-> op, status |-> status, value |-> value]
             objects == {ObjectOf(d) : d \in Elements(a.value)}
  <2>1. a.op = op /\ a.status = status /\ a.value = value
    OBVIOUS
  <2>2. ValueOf(a) =
          IF a.status # "ok" THEN a.value
          ELSE IF a.op = "get-directories" THEN objects
          ELSE IF a.op \in PathOps \cup {"type"} THEN ObjectOf(a.value)
          ELSE IF a.op = "entry" THEN <<"node", origin[a.value]>>
          ELSE a.value
    BY DEF ValueOf, origin
  <2>3. SeenValue(op, status, value) = ValueOf(a)
    BY DEF SeenValue
  <2>4. {"get-directories", "entry"} \cap (PathOps \cup {"type"}) = {}
    BY DEF PathOps
  <2>10. objects = {ObjectOf(d) : d \in Elements(value)}
    BY <2>1
  <2> HIDE DEF a, objects
  <2>5. a.status # "ok" => ValueOf(a) = a.value
    BY <2>2
  <2>6. a.status = "ok" /\ a.op = "get-directories" =>
          ValueOf(a) = objects
    BY <2>2
  <2>7. a.status = "ok" /\ a.op \in PathOps \cup {"type"} => ValueOf(a) = ObjectOf(a.value)
    BY <2>2, <2>4
  <2>8. a.status = "ok" /\ a.op = "entry" => ValueOf(a) = <<"node", origin[a.value]>>
    BY <2>2, <2>4
  <2>9. a.status = "ok" /\ a.op \notin PathOps \cup {"type", "get-directories", "entry"} =>
          ValueOf(a) = a.value
    BY <2>2
  <2> QED
    BY <2>1, <2>3, <2>5, <2>6, <2>7, <2>8, <2>9, <2>10
<1>2. {"is-same-object", "modify", "get-flags", "advise", "read", "read-via-stream", "pread", "read-directory"}
        \cap (PathOps \cup {"type", "get-directories", "entry"}) = {}
  BY DEF PathOps
<1> QED
  BY <1>1, <1>2

LEMMA SeenObjects ==
  /\ \A k : ObjectOf(Static(k)) = <<"node", origin[k]>>
  /\ \A o : ObjectOf(Host(o)) = <<"host", o>>
  /\ \A k \in Nat : ObjectOf(Hash(k - 1)) = <<"node", origin[k]>>
  /\ \A dir, size : ObjectOf(Stat(dir, size)) = <<"stat", <<dir, size>>>>
<1>1. \A k : ObjectOf(Static(k)) = <<"node", origin[k]>>
  BY DEF ObjectOf, Static, origin
<1>2. \A o : ObjectOf(Host(o)) = <<"host", o>>
  BY DEF ObjectOf, Host
<1>3. \A k \in Nat : ObjectOf(Hash(k - 1)) = <<"node", origin[k]>>
  <2>1. \A k \in Nat : (k - 1) + 1 = k
    OBVIOUS
  <2> QED
    BY <2>1 DEF ObjectOf, Hash, origin
<1>4. \A dir, size : ObjectOf(Stat(dir, size)) = <<"stat", <<dir, size>>>>
  BY DEF ObjectOf, Stat
<1> QED
  BY <1>1, <1>2, <1>3, <1>4

LEMMA SeenDescriptor ==
  ASSUME NEW d \in Descriptor
  PROVE  \/ /\ d.kind = "static" /\ d.at \in 1..Len(index)
            /\ ObjectOf(d) = <<"node", origin[d.at]>>
            /\ Abstract!IsNode(ObjectOf(d)) /\ ObjectOf(d)[2] = origin[d.at]
         \/ /\ d.kind = "host" /\ d.at \in world.host_objects
            /\ ObjectOf(d) = <<"host", d.at>>
            /\ ~Abstract!IsNode(ObjectOf(d)) /\ ObjectOf(d)[2] = d.at
<1>1. CASE d.kind = "static" /\ d.at \in 1..Len(index) /\ d = Static(d.at)
  <2>1. ObjectOf(d) = <<"node", origin[d.at]>>
    BY <1>1, SeenObjects
  <2> QED
    BY <1>1, <2>1 DEF Abstract!IsNode
<1>2. CASE d.kind = "host" /\ d.at \in world.host_objects /\ d = Host(d.at)
  <2>1. ObjectOf(d) = <<"host", d.at>>
    BY <1>2, SeenObjects
  <2> QED
    BY <1>2, <2>1 DEF Abstract!IsNode
<1> QED
  BY <1>1, <1>2, DescriptorKinds

\* Different descriptors are of different objects.
LEMMA ObjectsDiffer ==
  ASSUME world \in Worlds, NEW d \in Descriptor, NEW e \in Descriptor, ObjectOf(d) = ObjectOf(e)
  PROVE  d = e
<1>1. \A p, q \in 1..Len(index) : origin[p] = origin[q] => p = q
  BY WorldsAssumption DEF Represents, index, origin
<1>2. /\ Abstract!IsNode(ObjectOf(d)) <=> Abstract!IsNode(ObjectOf(e))
      /\ ObjectOf(d)[2] = ObjectOf(e)[2]
  OBVIOUS
<1>3. CASE d.kind = "static"
  <2>1. /\ d.at \in 1..Len(index) /\ ObjectOf(d)[2] = origin[d.at]
        /\ Abstract!IsNode(ObjectOf(d)) /\ d = Static(d.at)
    BY <1>3, SeenDescriptor, DescriptorKinds
  <2>2. /\ e.at \in 1..Len(index) /\ ObjectOf(e)[2] = origin[e.at] /\ e = Static(e.at)
    BY <1>2, <2>1, SeenDescriptor, DescriptorKinds
  <2> QED
    BY <1>1, <1>2, <2>1, <2>2
<1>4. CASE d.kind = "host"
  <2>1. /\ ObjectOf(d)[2] = d.at /\ ~Abstract!IsNode(ObjectOf(d)) /\ d = Host(d.at)
    BY <1>4, SeenDescriptor, DescriptorKinds
  <2>2. /\ ObjectOf(e)[2] = e.at /\ e = Host(e.at)
    BY <1>2, <2>1, SeenDescriptor, DescriptorKinds
  <2> QED
    BY <1>2, <2>1, <2>2
<1> QED
  BY <1>3, <1>4, DescriptorKinds

LEMMA SeenGrant ==
  ASSUME UNCHANGED world, NEW ds, held' = held \cup ds
  PROVE  SeenHeld' = SeenHeld \cup {ObjectOf(d) : d \in ds}
BY DEF SeenHeld, ObjectOf

LEMMA SeenDrop ==
  ASSUME UNCHANGED world, world \in Worlds, held \subseteq Descriptor,
         NEW d \in held, held' = held \ {d}
  PROVE  SeenHeld' = SeenHeld \ {ObjectOf(d)}
<1>1. SeenHeld' = {ObjectOf(e) : e \in held \ {d}}
  BY SeenSame DEF SeenHeld
<1>2. \A e \in held : ObjectOf(e) = ObjectOf(d) => e = d
  BY ObjectsDiffer
<1> QED
  BY <1>1, <1>2 DEF SeenHeld

\* What the types of the index say of the tree.
LEMMA SeenTree ==
  ASSUME world \in Worlds, NEW k \in 1..Len(index)
  PROVE  /\ Abstract!IsRuntime(origin[k]) <=> Runtime(k)
         /\ Abstract!IsDir(origin[k]) <=> IsDirectory(index, k)
         /\ index[k].ty # "rfile" => Size(k) = world.tree.size[origin[k]]
         /\ Runtime(k) => index[k].data[1] = world.tree.host_path[origin[k]]
         /\ world.tree.ty[origin[k]] = "rfile" <=> index[k].ty = "rfile"
         /\ world.tree.ty[origin[k]] = "rdir" <=> index[k].ty = "rdir"
         /\ world.tree.ty[origin[k]] \in RuntimeTypes <=> Runtime(k)
         /\ index[k].ty = "passive" => world.tree.passive[origin[k]]
         /\ index[k].ty = "active" => ~world.tree.passive[origin[k]]
<1> DEFINE n == origin[k]
           ty == index[k].ty
<1>1. /\ Represents(index, origin, world.tree) /\ Sound(index, origin, world.tree)
      /\ k \in 1..Len(world.index)
  BY WorldsAssumption DEF index, origin
<1>2. /\ world.tree.ty[n] \in {"dir", "file", "rdir", "rfile"}
      /\ ty = IF world.tree.ty[n] # "file" THEN world.tree.ty[n]
              ELSE IF world.tree.passive[n] THEN "passive" ELSE "active"
      /\ world.tree.ty[n] = "file" => index[k].data[2] = world.tree.size[n]
      /\ world.tree.ty[n] \in RuntimeTypes => index[k].data[1] = world.tree.host_path[n]
  BY <1>1 DEF Represents, RuntimeTypes
<1>3. world.tree.ty[n] \in {"dir", "rdir"} => world.tree.size[n] = 0
  BY <1>1 DEF Sound, DirTypes
<1> HIDE DEF n, ty
<1>4. /\ ty \in RuntimeTypes <=> world.tree.ty[n] \in RuntimeTypes
      /\ ty = "rfile" <=> world.tree.ty[n] = "rfile"
      /\ ty = "rdir" <=> world.tree.ty[n] = "rdir"
      /\ ty \in DirTypes <=> world.tree.ty[n] \in {"dir", "rdir"}
      /\ ty # "rfile" /\ ty \notin DirTypes => world.tree.ty[n] = "file"
      /\ ty = "passive" => world.tree.passive[n]
      /\ ty = "active" => ~world.tree.passive[n]
  BY <1>2 DEF RuntimeTypes, DirTypes
<1>5. /\ Abstract!IsRuntime(n) <=> world.tree.ty[n] \in RuntimeTypes
      /\ Abstract!IsDir(n) <=> world.tree.ty[n] \in {"dir", "rdir"}
      /\ Runtime(k) <=> ty \in RuntimeTypes
      /\ IsDirectory(index, k) <=> ty \in DirTypes
      /\ Size(k) = IF ty \in DirTypes THEN 0 ELSE index[k].data[2]
  BY DEF Runtime, RuntimeTypes, IsDirectory, Size, Abstract!IsRuntime, Abstract!IsDir,
         Abstract!tree, ty
<1>6. ty # "rfile" => Size(k) = world.tree.size[n]
  BY <1>2, <1>3, <1>4, <1>5
<1> QED
  BY <1>2, <1>4, <1>5, <1>6 DEF n, ty

-----------------------------------------------------------------------------
(***************************************************************************)
(* The answers are those of VirtualFs.                                     *)
(***************************************************************************)
LEMMA SamePaths ==
  /\ \A s : Abstract!Components(s) = Components(s)
  /\ \A s : Abstract!Absolute(s) = Absolute(s)
  /\ \A s, t : Abstract!StartsWith(s, t) = StartsWith(s, t)
  /\ \A s, n : Abstract!Drop(s, n) = Drop(s, n)
<1>1. \A s : Abstract!Scan(s) = Scan(s)
  BY DEF Abstract!Closed, Closed, Abstract!Scan, Scan
<1>2. \A s, t : Abstract!Closed(s, t) = Closed(s, t)
  BY DEF Abstract!Closed, Closed
<1>3. \A s : Abstract!Components(s) = Components(s)
  BY <1>1, <1>2, Zenon DEF Abstract!Components, Components
<1> QED
  BY <1>3 DEF Abstract!Absolute, Absolute, Abstract!StartsWith, StartsWith,
              Abstract!Drop, Drop

LEMMA SeenGrants ==
  ASSUME UNCHANGED world, NEW op, NEW d,
         IF op = "open" THEN Grant({d}) ELSE UNCHANGED held
  PROVE  Abstract!Grant(op, ObjectOf(d))
<1>1. CASE op = "open"
  <2>1. held' = held \cup {d}
    BY <1>1 DEF Grant
  <2>2. SeenHeld' = SeenHeld \cup {ObjectOf(e) : e \in {d}}
    BY <2>1, SeenGrant
  <2>3. SeenHeld' = SeenHeld \cup {ObjectOf(d)}
    BY <2>2
  <2> QED
    BY <1>1, <2>3 DEF Abstract!Grant, SeenHeld
<1>2. CASE op # "open"
  <2>1. SeenHeld' = SeenHeld
    BY <1>2, SeenSame
  <2> QED
    BY <1>2, <2>1 DEF Abstract!Grant, SeenHeld
<1> QED
  BY <1>1, <1>2

LEMMA HostRefines ==
  ASSUME UNCHANGED world, NEW op \in PathOps \cup {"type"}, NEW objects,
         HostAnswers(op, objects)
  PROVE  Abstract!AnswerHost(op, objects)
<1>1. ASSUME NEW o \in objects \cap world.host_objects,
             IF op = "open" THEN Grant({Host(o)}) ELSE UNCHANGED held,
             Reply(op, "ok", Host(o))
      PROVE  Abstract!AnswerHost(op, objects)
  <2>1. ObjectOf(Host(o)) = Abstract!HostObject(o)
    BY SeenObjects DEF Abstract!HostObject
  <2>2. Abstract!Grant(op, Abstract!HostObject(o))
    BY <1>1, <2>1, SeenGrants
  <2>3. Abstract!Reply(op, "ok", Abstract!HostObject(o))
    BY <1>1, <2>1, SeenReply, SeenValues
  <2> QED
    BY <2>2, <2>3 DEF Abstract!AnswerHost
<1>2. CASE Reply(op, "host-error", <<>>) /\ UNCHANGED held
  <2>1. Abstract!Reply(op, "host-error", <<>>)
    BY <1>2, SeenReply, SeenValues
  <2>2. SeenHeld' = SeenHeld
    BY <1>2, SeenSame
  <2> QED
    BY <2>1, <2>2 DEF Abstract!AnswerHost, SeenHeld
<1> QED
  BY <1>1, <1>2 DEF HostAnswers

LEMMA StaticRefines ==
  ASSUME world \in Worlds, UNCHANGED world, NEW op \in PathOps \cup {"type"},
         NEW k \in 1..Len(index), FromIndex(op, k), AnswerStatic(op, k)
  PROVE  Abstract!AnswerNode(op, origin[k])
<1> DEFINE n == origin[k]
<1>1. ObjectOf(Static(k)) = Abstract!NodeObject(n)
  BY SeenObjects DEF Abstract!NodeObject
<1>2. CASE op = "open"
  <2>1. Grant({Static(k)}) /\ Reply(op, "ok", Static(k))
    BY <1>2 DEF AnswerStatic
  <2>2. Abstract!Grant(op, Abstract!NodeObject(n))
    BY <1>1, <1>2, <2>1, SeenGrants
  <2>3. Abstract!Reply(op, "ok", Abstract!NodeObject(n))
    BY <1>1, <2>1, SeenReply, SeenValues
  <2> QED
    BY <1>2, <2>2, <2>3 DEF Abstract!AnswerNode
<1>3. CASE op = "stat"
  <2>1. UNCHANGED held /\ Reply(op, "ok", Stat(IsDirectory(index, k), Size(k)))
    BY <1>3 DEF AnswerStatic, FromIndex
  <2>2. Abstract!Grant(op, Abstract!NodeObject(n))
    BY <1>1, <1>3, <2>1, SeenGrants
  <2>3. Abstract!Reply(op, "ok", <<"stat", <<IsDirectory(index, k), Size(k)>>>>)
    <3> DEFINE value == Stat(IsDirectory(index, k), Size(k))
    <3>1. SeenValue(op, "ok", value) = ObjectOf(value)
      BY SeenValues
    <3>2. ObjectOf(value) = <<"stat", <<IsDirectory(index, k), Size(k)>>>>
      BY SeenObjects
    <3>3. Abstract!Reply(op, "ok", SeenValue(op, "ok", value))
      BY <2>1, SeenReply
    <3> QED
      BY ONLY <3>1, <3>2, <3>3
  <2>4. Abstract!IsDir(n) = IsDirectory(index, k) /\ Abstract!tree.size[n] = Size(k)
    BY <1>3, SeenTree DEF FromIndex, Abstract!IsDir, IsDirectory, Abstract!tree
  <2>5. Abstract!Reply(op, "ok", <<"stat", <<Abstract!IsDir(n), Abstract!tree.size[n]>>>>)
    BY <2>3, <2>4
  <2> QED
    BY <1>3, <2>2, <2>5 DEF Abstract!AnswerNode
<1>4. CASE op = "hash"
  <2>1. UNCHANGED held /\ Reply(op, "ok", Hash(k - 1))
    BY <1>4 DEF AnswerStatic
  <2>2. Abstract!Grant(op, Abstract!NodeObject(n))
    BY <1>1, <1>4, <2>1, SeenGrants
  <2>3. k \in Nat
    BY WorldsAssumption DEF index
  <2>4. Abstract!Reply(op, "ok", Abstract!NodeObject(n))
    <3>1. ObjectOf(Hash(k - 1)) = Abstract!NodeObject(n)
      BY <2>3, SeenObjects DEF Abstract!NodeObject
    <3>2. Abstract!Reply(op, "ok", ObjectOf(Hash(k - 1)))
      BY <2>1, SeenReply, SeenValues
    <3> QED
      BY <3>1, <3>2
  <2> QED
    BY <1>4, <2>2, <2>4 DEF Abstract!AnswerNode
<1>5. CASE op = "readlink"
  <2>1. UNCHANGED held /\ Reply(op, "invalid", <<>>)
    BY <1>5 DEF AnswerStatic
  <2>2. Abstract!Grant(op, Abstract!NodeObject(n))
    BY <1>1, <1>5, <2>1, SeenGrants
  <2>3. Abstract!Reply(op, "invalid", <<>>)
    BY <2>1, SeenReply, SeenValues
  <2> QED
    BY <1>5, <2>2, <2>3 DEF Abstract!AnswerNode
<1>6. CASE op = "type"
  <2>1. UNCHANGED held /\ Reply(op, "ok", Stat(IsDirectory(index, k), 0))
    BY <1>6 DEF AnswerStatic
  <2>2. Abstract!Grant(op, Abstract!NodeObject(n))
    BY <1>1, <1>6, <2>1, SeenGrants
  <2>3. Abstract!Reply(op, "ok", <<"stat", <<IsDirectory(index, k), 0>>>>)
    <3> DEFINE value == Stat(IsDirectory(index, k), 0)
    <3>1. SeenValue(op, "ok", value) = ObjectOf(value)
      BY SeenValues
    <3>2. ObjectOf(value) = <<"stat", <<IsDirectory(index, k), 0>>>>
      BY SeenObjects
    <3>3. Abstract!Reply(op, "ok", SeenValue(op, "ok", value))
      BY <2>1, SeenReply
    <3> QED
      BY ONLY <3>1, <3>2, <3>3
  <2>4. Abstract!IsDir(n) = IsDirectory(index, k)
    BY SeenTree DEF Abstract!IsDir, IsDirectory
  <2>5. Abstract!Reply(op, "ok", <<"stat", <<Abstract!IsDir(n), 0>>>>)
    BY <2>3, <2>4
  <2> QED
    BY <1>6, <2>2, <2>5 DEF Abstract!AnswerNode
<1> QED
  BY <1>2, <1>3, <1>4, <1>5, <1>6 DEF PathOps

LEMMA DenotedBy ==
  ASSUME world \in Worlds, NEW path
  PROVE  Abstract!Denoted(path) =
           {HostMap(world.host_list)[name] \o Drop(Components(path), Len(Components(name))) :
              name \in {n \in DOMAIN HostMap(world.host_list) : Holds(n, path)}}
<1>1. world.host = HostMap(world.host_list)
  BY WorldsAssumption DEF HostSound
<1> QED
  BY <1>1, SamePaths DEF Abstract!Denoted, Holds

LEMMA LookupMisses ==
  ASSUME HostLookups, NEW w \in Worlds, NEW k \in 1..Len(w.index),
         w.index[k].ty \in RuntimeTypes, NEW p, p = w.index[k].data[1],
         Candidates(DOMAIN HostMap(w.host_list), p) = {}
  PROVE  \A n \in DOMAIN HostMap(w.host_list) : ~Holds(n, p)
<1> SUFFICES ASSUME NEW n \in DOMAIN HostMap(w.host_list), Holds(n, p)
             PROVE  FALSE
  OBVIOUS
<1>1. PICK i \in 1..Len(w.host_list) : n = w.host_list[i].name
  <2>1. Len(w.host_list) \in Nat
    BY WorldsAssumption DEF HostSound
  <2> QED
    BY <2>1, HostMapped
<1>2. n \in Path /\ PlainName(n) /\ p \in Path /\ PlainPath(p)
  BY <1>1 DEF HostLookups
<1>3. Try(n, p).kind # "skip"
  BY <1>2, TryFinds DEF Holds
<1> QED
  BY <1>3 DEF Candidates

\* A call that panics.
Panicked == answer'.status = "trap" /\ held' = held

LEMMA RuntimeRefines ==
  ASSUME HostLookups, TInv, initialized = TRUE, UNCHANGED world, NEW op \in PathOps,
         NEW k \in 1..Len(index), Runtime(k), AnswerRuntime(op, k)
  PROVE  Abstract!AtRuntime(op, origin[k]) \/ Panicked
<1> DEFINE path == index[k].data[1]
           map == HostMap(world.host_list)
           names == DOMAIN HostMap(world.host_list)
           name == GetHostPreopen(names, path)
           object == map[name] \o Components(Try(name, path).rest)
           denoted == Abstract!Denoted(path)
<1>1. world \in Worlds /\ path = Abstract!tree.host_path[origin[k]]
  BY SeenTree DEF TInv, Abstract!tree
<1>2. host_preopen_directories = map
  BY DEF TInv, HostDirectories, HostPassthrough
<1>3. /\ Candidates(names, path) = {} => \A n \in names : ~Holds(n, path)
      /\ Candidates(names, path) # {} =>
           /\ Try(name, path).kind \in {"found", "panic"}
           /\ name \in names /\ Holds(name, path)
           /\ Try(name, path).kind = "found" =>
                Components(Try(name, path).rest) = Drop(Components(path), Len(Components(name)))
  <2>1. world \in Worlds /\ world.index[k].ty \in RuntimeTypes
    BY DEF TInv, Runtime, index
  <2>2. path = world.index[k].data[1] /\ k \in 1..Len(world.index)
    BY DEF index
  <2> HIDE DEF path, names, name
  <2>3. Candidates(names, path) = {} => \A n \in names : ~Holds(n, path)
    BY <2>1, <2>2, LookupMisses DEF names
  <2>4. Candidates(names, path) # {} =>
          /\ Try(name, path).kind \in {"found", "panic"}
          /\ name \in names /\ Holds(name, path)
          /\ Try(name, path).kind = "found" =>
               Components(Try(name, path).rest) = Drop(Components(path), Len(Components(name)))
    BY <2>1, <2>2, LookupFinds DEF names, name
  <2> QED
    BY <2>3, <2>4
<1>4. denoted = {map[n] \o Drop(Components(path), Len(Components(n))) :
                   n \in {m \in names : Holds(m, path)}}
  BY <1>1, DenotedBy
<1>5. Abstract!AtRuntime(op, origin[k]) <=>
        \/ Abstract!AnswerHost(op, denoted)
        \/ denoted = {} /\ Abstract!Reply(op, "no-entry", <<>>) /\ SeenHeld' = SeenHeld
  BY <1>1 DEF Abstract!AtRuntime, SeenHeld
<1>6. CASE Candidates(names, path) = {}
  <2>1. Reply(op, "no-entry", <<>>) /\ UNCHANGED held
    BY <1>2, <1>6 DEF AnswerRuntime
  <2>2. Abstract!Reply(op, "no-entry", <<>>) /\ SeenHeld' = SeenHeld
    BY <2>1, SeenReply, SeenValues, SeenSame
  <2>3. denoted = {}
    BY <1>3, <1>4, <1>6
  <2> QED
    BY <1>5, <2>2, <2>3
<1>7. CASE Candidates(names, path) # {} /\ Try(name, path).kind = "found"
  <2>1. HostAnswers(op, {object})
    BY <1>2, <1>7 DEF AnswerRuntime
  <2>2. Abstract!AnswerHost(op, {object})
    BY <2>1, HostRefines
  <2>3. object \in denoted
    <3>1. /\ name \in {m \in names : Holds(m, path)}
          /\ object = map[name] \o Drop(Components(path), Len(Components(name)))
      BY <1>3, <1>7
    <3> HIDE DEF object, name, names, map, path, denoted
    <3> QED
      BY <1>4, <3>1
  <2> HIDE DEF object, denoted
  <2>4. Abstract!AnswerHost(op, denoted)
    BY <2>2, <2>3 DEF Abstract!AnswerHost
  <2> QED
    BY <1>5, <2>4 DEF denoted
<1>8. CASE Candidates(names, path) # {} /\ Try(name, path).kind = "panic"
  BY <1>2, <1>8 DEF AnswerRuntime, Reply, Panicked
<1> QED
  BY <1>3, <1>6, <1>7, <1>8

-----------------------------------------------------------------------------
(***************************************************************************)
(* The calls on descriptors are those of VirtualFs.                        *)
(***************************************************************************)
LEMMA RootsAre ==
  ASSUME world \in Worlds
  PROVE  {ObjectOf(d) : d \in Elements(HostEntries \o StaticEntries)} = Abstract!Roots
<1> DEFINE m == Len(world.preopens)
           n == Len(world.host_list)
           f(i) == Static(world.preopens[i])
           g(i) == Host(world.host_list[i].dir)
           E == Elements(HostEntries \o StaticEntries)
           roots == world.tree.roots
<1>1. E = {f(i) : i \in 1..m} \cup (IF world.host_preopens THEN {g(i) : i \in 1..n} ELSE {})
  BY EntriesAre
<1>2. m \in Nat /\ roots = [i \in 1..m |-> origin[world.preopens[i]]]
  BY WorldsAssumption DEF origin
<1>3. Len(roots) = m /\ \A i \in 1..m : roots[i] = origin[world.preopens[i]]
  BY <1>2
<1>4. \A i : ObjectOf(f(i)) = Abstract!NodeObject(origin[world.preopens[i]])
  BY SeenObjects DEF Abstract!NodeObject
<1>5. \A i : ObjectOf(g(i)) = Abstract!HostObject(world.host_list[i].dir)
  BY SeenObjects DEF Abstract!HostObject
<1>6. Abstract!HostRoots = {ObjectOf(g(i)) : i \in 1..n}
  BY <1>5 DEF Abstract!HostRoots
<1>7. Abstract!Roots = {ObjectOf(f(i)) : i \in 1..m}
                         \cup (IF world.host_preopens THEN Abstract!HostRoots ELSE {})
  <2>1. {Abstract!NodeObject(roots[i]) : i \in 1..m} = {ObjectOf(f(i)) : i \in 1..m}
    BY <1>3, <1>4
  <2> QED
    BY <1>3, <2>1 DEF Abstract!Roots, Abstract!tree
<1> HIDE DEF m, n, f, g, E
<1> QED
  BY <1>1, <1>6, <1>7 DEF E

LEMMA RGetDirectories ==
  ASSUME TInv, GetDirectories
  PROVE  Abstract!GetDirectories
<1> DEFINE E == Elements(preopen_directories')
<1>1. /\ Initialize /\ UNCHANGED <<world, streams>> /\ held' = held \cup E
      /\ Asks(<<>>, <<>>) /\ Reply("get-directories", "ok", preopen_directories')
  BY DEF GetDirectories, Grant
<1>2. {ObjectOf(d) : d \in E} = Abstract!Roots
  BY <1>1, Initialized, RootsAre DEF TInv
<1>3. SeenHeld' = SeenHeld \cup Abstract!Roots
  <2>1. SeenHeld' = SeenHeld \cup {ObjectOf(d) : d \in E}
    BY <1>1, SeenGrant
  <2> QED
    BY <1>2, <2>1
<1>4. Abstract!Reply("get-directories", "ok", Abstract!Roots)
  <2>1. SeenValue("get-directories", "ok", preopen_directories') = Abstract!Roots
    BY <1>2, SeenValues
  <2> QED
    BY <1>1, <2>1, SeenReply
<1>5. SeenStreams' = SeenStreams /\ Abstract!Asks(<<>>, <<>>)
  BY <1>1, SeenSame, SeenAsks
<1> QED
  BY <1>1, <1>3, <1>4, <1>5 DEF Abstract!GetDirectories, SeenHeld, SeenStreams

LEMMA RDropDescriptor ==
  ASSUME TInv, NEW d \in held, DropDescriptor(d)
  PROVE  Abstract!DropDescriptor
<1>1. UNCHANGED <<world, streams, call, answer>> /\ held' = held \ {d}
  BY DEF DropDescriptor
<1>2. SeenHeld' = SeenHeld \ {ObjectOf(d)}
  BY <1>1, SeenDrop DEF TInv
<1>3. SeenStreams' = SeenStreams /\ SeenCall' = SeenCall /\ SeenAnswer' = SeenAnswer
  BY <1>1, SeenSame
<1>4. ObjectOf(d) \in SeenHeld
  BY DEF SeenHeld
<1> QED
  BY <1>1, <1>2, <1>3, <1>4
  DEF Abstract!DropDescriptor, SeenHeld, SeenStreams, SeenCall, SeenAnswer

\* A call that panics changes nothing that can be seen.
LEMMA RPanics ==
  ASSUME UNCHANGED <<world, streams>>, Panicked
  PROVE  Abstract!Panics
<1>1. SeenHeld' = SeenHeld /\ SeenStreams' = SeenStreams
  BY SeenSame DEF Panicked
<1>2. SeenAnswer'.status = "trap"
  BY DEF Panicked, SeenAnswer
<1> QED
  BY <1>1, <1>2 DEF Abstract!Panics, SeenHeld, SeenStreams, SeenAnswer

\* Every answer names its operation.
LEMMA Answers ==
  /\ \A op, status, value : Reply(op, status, value) => answer'.op = op
  /\ \A op, objects : HostAnswers(op, objects) => answer'.op = op
  /\ \A op, k : AnswerRuntime(op, k) => answer'.op = op
  /\ \A op \in PathOps \cup {"type"} : \A k : AnswerStatic(op, k) => answer'.op = op
<1>1. ASSUME NEW op, NEW status, NEW value, Reply(op, status, value)
      PROVE  answer'.op = op
  BY <1>1 DEF Reply
<1>2. ASSUME NEW op, NEW objects, HostAnswers(op, objects)
      PROVE  answer'.op = op
  <2>1. \/ \E o : Reply(op, "ok", Host(o))
        \/ Reply(op, "host-error", <<>>)
    BY <1>2, Zenon DEF HostAnswers
  <2> QED
    BY <1>1, <2>1
<1>4. ASSUME NEW op, NEW k, AnswerRuntime(op, k)
      PROVE  answer'.op = op
  <2>1. \/ \E status, value : Reply(op, status, value)
        \/ \E objects : HostAnswers(op, objects)
    BY <1>4, Zenon DEF AnswerRuntime
  <2> QED
    BY <1>1, <1>2, <2>1
<1>3. ASSUME NEW op \in PathOps \cup {"type"}, NEW k, AnswerStatic(op, k)
      PROVE  answer'.op = op
  <2>1. CASE op = "open"
    <3>1. Reply(op, "ok", Static(k))
      BY <1>3, <2>1 DEF AnswerStatic
    <3> QED
      BY <1>1, <3>1
  <2>2. CASE op = "stat"
    <3>1. AnswerRuntime(op, k) \/ Reply(op, "ok", Stat(IsDirectory(index, k), Size(k)))
      BY <1>3, <2>2 DEF AnswerStatic
    <3> QED
      BY <1>1, <1>4, <3>1
  <2>3. CASE op = "hash"
    <3>1. Reply(op, "ok", Hash(k - 1))
      BY <1>3, <2>3 DEF AnswerStatic
    <3> QED
      BY <1>1, <3>1
  <2>4. CASE op = "readlink"
    <3>1. Reply(op, "invalid", <<>>)
      BY <1>3, <2>4 DEF AnswerStatic
    <3> QED
      BY <1>1, <3>1
  <2>5. CASE op = "type"
    <3>1. Reply(op, "ok", Stat(IsDirectory(index, k), 0))
      BY <1>3, <2>5 DEF AnswerStatic
    <3> QED
      BY <1>1, <3>1
  <2> QED
    BY <2>1, <2>2, <2>3, <2>4, <2>5 DEF PathOps
<1> QED
  BY <1>1, <1>2, <1>3, <1>4

LEMMA RAtPath ==
  ASSUME HostLookups, TInv, NEW d \in held, NEW op \in PathOps, NEW path \in Paths,
         AtPath(op, d, path)
  PROVE  Abstract!AtPath(op) \/ Abstract!Panics
<1> DEFINE o == ObjectOf(d)
<1>1. d \in Descriptor /\ initialized = TRUE /\ world \in Worlds
  BY DEF TInv
<1>2. UNCHANGED <<world, streams>> /\ Asks(<<d>>, <<"path", path>>)
  BY DEF AtPath
<1>3. /\ o \in SeenHeld /\ SeenStreams' = SeenStreams
      /\ Abstract!Asks(<<o>>, <<"path", path>>)
  BY <1>2, SeenSame, SeenAsks DEF SeenHeld
<1>4. SeenAnswer'.op = op
  <2>1. answer'.op = op
    BY Answers DEF AtPath, AnswerLookup
  <2> QED
    BY <2>1 DEF SeenAnswer
<1>5. CASE d.kind = "host"
  <2>1. ~Abstract!IsNode(o) /\ o[2] = d.at
    BY <1>1, <1>5, SeenDescriptor
  <2>2. HostAnswers(op, world.resolve[<<d.at, path>>])
    BY <1>5 DEF AtPath
  <2>3. Abstract!AnswerHost(op, world.resolve[<<o[2], path>>])
    BY <1>2, <2>1, <2>2, HostRefines
  <2> HIDE DEF o
  <2> QED
    BY <1>2, <1>3, <1>4, <2>1, <2>3
    DEF Abstract!AtPath, SeenHeld, SeenStreams, SeenCall, SeenAnswer
<1>6. CASE d.kind = "static" /\ d.at \in 1..Len(index)
  <2> DEFINE looked == DirLookup(index, d.at, path)
             reached == Abstract!Reached(o[2], Abstract!Trim(path))
  <2>1. Abstract!IsNode(o) /\ o[2] = origin[d.at]
    BY <1>1, <1>6, SeenDescriptor
  <2>2. AnswerLookup(op, looked)
    BY <1>6 DEF AtPath
  <2>3. looked.ok = FALSE /\ looked.err = "trap" => Panicked
    <3> HIDE DEF looked
    <3> QED
      BY <2>2 DEF AnswerLookup, Reply, Panicked
  <2>4. \/ looked.ok = FALSE /\ looked.err = "trap"
        \/ Agrees(looked, reached)
    <3>1. CASE path = <<Empty>>
      <4>1. looked = Trap
        BY <3>1 DEF DirLookup
      <4> HIDE DEF looked
      <4> QED
        BY <4>1 DEF Trap, Err
    <3>2. CASE path # <<Empty>>
      BY <1>1, <1>6, <2>1, <3>2, LookupReaches
    <3> QED
      BY <3>1, <3>2
  <2>5. SUFFICES ASSUME Agrees(looked, reached), ~Panicked
        PROVE
          \/ /\ reached = {}
             /\ \E e \in {"no-entry", "not-directory"} : Abstract!Reply(op, e, <<>>)
             /\ SeenHeld' = SeenHeld
          \/ \E n \in reached :
               IF Abstract!IsRuntime(n) THEN Abstract!AtRuntime(op, n)
               ELSE Abstract!AnswerNode(op, n)
    <3>1. Panicked => Abstract!Panics
      BY <1>2, RPanics
    <3>2. ASSUME \/ /\ reached = {}
                    /\ \E e \in {"no-entry", "not-directory"} : Abstract!Reply(op, e, <<>>)
                    /\ SeenHeld' = SeenHeld
                 \/ \E n \in reached :
                      IF Abstract!IsRuntime(n) THEN Abstract!AtRuntime(op, n)
                      ELSE Abstract!AnswerNode(op, n)
          PROVE  Abstract!AtPath(op)
      <4> HIDE DEF o
      <4> QED
        BY <1>2, <1>3, <1>4, <2>1, <3>2
        DEF Abstract!AtPath, SeenHeld, SeenStreams, SeenCall, SeenAnswer
    <3> HIDE DEF reached, looked
    <3> QED
      BY <2>3, <2>4, <3>1, <3>2
  <2> HIDE DEF looked, reached
  <2>6. CASE looked.ok = FALSE
    <3>1. Reply(op, looked.err, <<>>) /\ UNCHANGED held
      BY <2>2, <2>6 DEF AnswerLookup
    <3>2. reached = {} /\ looked.err \in {"no-entry", "not-directory"}
      BY <2>3, <2>5, <2>6 DEF Agrees
    <3>3. Abstract!Reply(op, looked.err, <<>>)
      BY <1>2, <3>1, <3>2, SeenReply, SeenValues
    <3>4. SeenHeld' = SeenHeld
      BY <1>2, <3>1, SeenSame
    <3> QED
      BY <3>2, <3>3, <3>4
  <2>7. CASE looked.ok = TRUE
    <3>1. looked.at \in 1..Len(index) /\ reached = {origin[looked.at]}
      BY <2>5, <2>7 DEF Agrees
    <3>2. Abstract!IsRuntime(origin[looked.at]) <=> Runtime(looked.at)
      BY <1>1, <3>1, SeenTree
    <3>3. CASE Runtime(looked.at)
      <4>1. AnswerRuntime(op, looked.at)
        BY <2>2, <2>7, <3>3 DEF AnswerLookup
      <4>2. Abstract!AtRuntime(op, origin[looked.at])
        BY <1>1, <1>2, <2>5, <3>1, <3>3, <4>1, RuntimeRefines
      <4> QED
        BY <3>1, <3>2, <3>3, <4>2
    <3>4. CASE ~Runtime(looked.at)
      <4>1. AnswerStatic(op, looked.at) /\ FromIndex(op, looked.at)
        BY <2>2, <2>7, <3>4 DEF AnswerLookup, FromIndex, Runtime, RuntimeTypes
      <4>2. Abstract!AnswerNode(op, origin[looked.at])
        BY <1>1, <1>2, <3>1, <4>1, StaticRefines
      <4> QED
        BY <3>1, <3>2, <3>4, <4>2
    <3> QED
      BY <3>3, <3>4
  <2> QED
    BY <2>5, <2>6, <2>7 DEF Agrees
<1> QED
  BY <1>1, <1>5, <1>6, DescriptorKinds

LEMMA RAtDescriptor ==
  ASSUME HostLookups, TInv, NEW d \in held, NEW op \in {"stat", "type", "hash"},
         AtDescriptor(op, d)
  PROVE  Abstract!AtDescriptor(op) \/ Abstract!Panics
<1> DEFINE o == ObjectOf(d)
<1>1. /\ d \in Descriptor /\ world \in Worlds /\ initialized = TRUE
      /\ op \in PathOps \cup {"type"}
  BY DEF TInv, PathOps
<1>2. UNCHANGED <<world, streams>> /\ Asks(<<d>>, <<>>)
  BY DEF AtDescriptor
<1>3. o \in SeenHeld /\ SeenStreams' = SeenStreams /\ Abstract!Asks(<<o>>, <<>>)
  BY <1>2, SeenSame, SeenAsks DEF SeenHeld
<1>4. SeenAnswer'.op = op
  <2>1. answer'.op = op
    BY <1>1, Answers DEF AtDescriptor
  <2> QED
    BY <2>1 DEF SeenAnswer
<1>5. SUFFICES \/ Panicked
               \/ IF ~Abstract!IsNode(o) THEN Abstract!AnswerHost(op, {o[2]})
                  ELSE IF op = "stat" /\ world.tree.ty[o[2]] = "rfile"
                    THEN Abstract!AtRuntime(op, o[2])
                  ELSE Abstract!AnswerNode(op, o[2])
  <2>1. Panicked => Abstract!Panics
    BY <1>2, RPanics
  <2> HIDE DEF o
  <2>2. ASSUME IF ~Abstract!IsNode(o) THEN Abstract!AnswerHost(op, {o[2]})
               ELSE IF op = "stat" /\ world.tree.ty[o[2]] = "rfile"
                 THEN Abstract!AtRuntime(op, o[2])
               ELSE Abstract!AnswerNode(op, o[2])
        PROVE  Abstract!AtDescriptor(op)
    BY <1>2, <1>3, <1>4, <2>2
    DEF Abstract!AtDescriptor, Abstract!tree, SeenHeld, SeenStreams, SeenCall, SeenAnswer
  <2> QED
    BY <2>1, <2>2
<1>6. CASE d.kind = "host"
  <2>1. ~Abstract!IsNode(o) /\ o[2] = d.at
    BY <1>1, <1>6, SeenDescriptor
  <2>2. HostAnswers(op, {d.at})
    BY <1>6 DEF AtDescriptor
  <2>3. Abstract!AnswerHost(op, {d.at})
    BY <1>1, <1>2, <2>2, HostRefines
  <2> HIDE DEF o
  <2> QED
    BY <2>1, <2>3
<1>7. CASE d.kind = "static" /\ d.at \in 1..Len(index)
  <2>1. Abstract!IsNode(o) /\ o[2] = origin[d.at]
    BY <1>1, <1>7, SeenDescriptor
  <2>2. AnswerStatic(op, d.at)
    BY <1>7 DEF AtDescriptor
  <2>3. FromIndex(op, d.at) <=> ~(op = "stat" /\ world.tree.ty[origin[d.at]] = "rfile")
    BY <1>1, <1>7, SeenTree DEF FromIndex
  <2>4. CASE FromIndex(op, d.at)
    <3>1. Abstract!AnswerNode(op, origin[d.at])
      BY <1>1, <1>2, <1>7, <2>2, <2>4, StaticRefines
    <3> HIDE DEF o
    <3> QED
      BY <2>1, <2>3, <2>4, <3>1
  <2>5. CASE ~FromIndex(op, d.at)
    <3>1. /\ op = "stat" /\ op \in PathOps /\ Runtime(d.at)
          /\ AnswerRuntime(op, d.at)
      BY <2>2, <2>5 DEF FromIndex, PathOps, Runtime, RuntimeTypes, AnswerStatic
    <3>2. Abstract!AtRuntime(op, origin[d.at]) \/ Panicked
      BY <1>1, <1>2, <1>7, <3>1, RuntimeRefines
    <3> HIDE DEF o
    <3> QED
      BY <2>1, <2>3, <2>5, <3>1, <3>2
  <2> QED
    BY <2>4, <2>5
<1> QED
  BY <1>1, <1>6, <1>7, DescriptorKinds

LEMMA RIsSame ==
  ASSUME TInv, NEW d \in held, NEW e \in held, IsSameObject(d, e)
  PROVE  Abstract!IsSame
<1> DEFINE o == ObjectOf(d)
           p == ObjectOf(e)
<1>1. d \in Descriptor /\ e \in Descriptor /\ world \in Worlds
  BY DEF TInv
<1>2. UNCHANGED <<world, held, streams>> /\ Abstract!Asks(<<o, p>>, <<>>)
  BY SeenAsks DEF IsSameObject
<1>3. PICK same \in CASE d.kind = "static" /\ e.kind = "static" -> {d.at = e.at}
                      [] d.kind = "host" /\ e.kind = "host" -> BOOLEAN
                      [] OTHER -> {FALSE} :
        Reply("is-same-object", "ok", same)
  BY DEF IsSameObject
<1>4. Abstract!Reply("is-same-object", "ok", same)
  <2>1. SeenValue("is-same-object", "ok", same) = same
    BY Zenon DEF SeenValue, ValueOf, PathOps
  <2> QED
    BY <1>2, <1>3, <2>1, SeenReply
<1>5. same \in IF Abstract!IsNode(o) \/ Abstract!IsNode(p) THEN {o = p} ELSE BOOLEAN
  <2>1. CASE d.kind = "static" /\ e.kind = "static"
    <3>1. same = (d.at = e.at)
      BY <1>3, <2>1
    <3>2. Abstract!IsNode(o)
      BY <1>1, <2>1, SeenDescriptor
    <3>3. d.at = e.at <=> o = p
      BY <1>1, <2>1, DescriptorKinds, ObjectsDiffer
    <3>4. (d.at = e.at) = (o = p)
      BY <3>3
    <3> QED
      BY <3>1, <3>2, <3>4
  <2>2. CASE d.kind = "host" /\ e.kind = "host"
    <3>1. same \in BOOLEAN
      BY <1>3, <2>2
    <3>2. ~Abstract!IsNode(o) /\ ~Abstract!IsNode(p)
      BY <1>1, <2>2, SeenDescriptor
    <3> QED
      BY <3>1, <3>2
  <2>3. CASE d.kind # e.kind
    <3>1. same = FALSE
      BY <1>1, <1>3, <2>3, DescriptorKinds
    <3>2. Abstract!IsNode(o) \/ Abstract!IsNode(p)
      BY <1>1, <2>3, SeenDescriptor
    <3>3. o # p
      BY <1>1, <2>3, ObjectsDiffer
    <3>4. (o = p) = FALSE
      BY <3>3
    <3> QED
      BY <3>1, <3>2, <3>4
  <2> QED
    BY <1>1, <2>1, <2>2, <2>3, DescriptorKinds
<1>6. o \in SeenHeld /\ p \in SeenHeld /\ SeenHeld' = SeenHeld /\ SeenStreams' = SeenStreams
  BY <1>2, SeenSame DEF SeenHeld
<1> HIDE DEF o, p
<1> QED
  BY <1>2, <1>4, <1>5, <1>6 DEF Abstract!IsSame, SeenHeld, SeenStreams

LEMMA RReadOnly ==
  ASSUME NEW d \in held, Modify(d) \/ GetFlags(d)
  PROVE  Abstract!ReadOnly
<1>1. UNCHANGED <<world, held, streams>> /\ Asks(<<d>>, <<>>)
  BY DEF Modify, GetFlags
<1>2. Reply("modify", "access", <<>>) \/ Reply("get-flags", "ok", "read")
  BY DEF Modify, GetFlags
<1>3. Abstract!Reply("modify", "access", <<>>) \/ Abstract!Reply("get-flags", "ok", "read")
  BY <1>1, <1>2, SeenReply, SeenValues
<1>4. /\ ObjectOf(d) \in SeenHeld /\ SeenHeld' = SeenHeld /\ SeenStreams' = SeenStreams
      /\ Abstract!Asks(<<ObjectOf(d)>>, <<>>)
  BY <1>1, SeenSame, SeenAsks DEF SeenHeld
<1> QED
  BY <1>1, <1>3, <1>4 DEF Abstract!ReadOnly, SeenHeld, SeenStreams

-----------------------------------------------------------------------------
(***************************************************************************)
(* The panics.                                                             *)
(***************************************************************************)
\* Two ways to follow names agree as far as the names do.
LEMMA ReachUnique ==
  ASSUME NEW n, NEW one, NEW two, NEW l \in Nat, NEW j \in 0..l,
         \A m \in 1..j : one[m] = two[m],
         NEW f, ReachOf(n, one, l, f), NEW g, ReachOf(n, two, j, g)
  PROVE  f[j] = g[j]
<1>1. f[0] = {n} /\ \A m \in 1..l : f[m] = NodeStep(f[m - 1], one[m])
  <2>1. f = [m \in 0..l |-> IF m = 0 THEN {n} ELSE NodeStep(f[m - 1], one[m])]
    BY DEF ReachOf
  <2>2. 0 \in 0..l /\ \A m \in 1..l : m \in 0..l /\ m # 0
    OBVIOUS
  <2> QED
    BY <2>1, <2>2
<1>2. g[0] = {n} /\ \A m \in 1..j : g[m] = NodeStep(g[m - 1], two[m])
  <2>1. g = [m \in 0..j |-> IF m = 0 THEN {n} ELSE NodeStep(g[m - 1], two[m])]
    BY DEF ReachOf
  <2>2. 0 \in 0..j /\ \A m \in 1..j : m \in 0..j /\ m # 0
    OBVIOUS
  <2> QED
    BY <2>1, <2>2
<1> DEFINE S == {m \in 0..j : f[m] = g[m]}
<1>3. 0 \in S
  <2>1. 0 \in 0..j
    OBVIOUS
  <2> QED
    BY <1>1, <1>2, <2>1
<1>4. ASSUME NEW m \in 0..(j - 1), m \in S
      PROVE  m + 1 \in S
  <2>1. m + 1 \in 1..j /\ (m + 1) - 1 = m /\ m + 1 \in 0..j /\ m + 1 \in 1..l
    OBVIOUS
  <2>2. f[m + 1] = NodeStep(f[m], one[m + 1]) /\ g[m + 1] = NodeStep(g[m], two[m + 1])
    BY <1>1, <1>2, <2>1
  <2>3. f[m] = g[m] /\ one[m + 1] = two[m + 1]
    BY <1>4, <2>1
  <2> QED
    BY <2>1, <2>2, <2>3
<1> HIDE DEF S
<1>5. j \in Nat
  OBVIOUS
<1>6. 0..j \subseteq S
  BY <1>3, <1>4, <1>5, Lookup!UpToInduction
<1> QED
  BY <1>5, <1>6 DEF S

Trapped(from) == from.ok = FALSE /\ from.err = "trap"

\* A name looked up from a runtime directory.
LooksBelow(from, path, m) ==
  /\ from.ok = TRUE /\ from.at \in 1..Len(index) /\ index[from.at].ty = "rdir"
  /\ ~(m = Len(path) /\ Stays(path[m]))

LEMMA StepTrapped ==
  ASSUME world \in Worlds, NEW from, Reaches(index, from), NEW path, NEW m,
         Trapped(StepAt(index, from, path, m))
  PROVE  Trapped(from) \/ LooksBelow(from, path, m)
<1> DEFINE part == path[m]
           k == from.at
           to == StepAt(index, from, path, m)
<1>1. CASE from.ok = FALSE
  BY <1>1 DEF StepAt, Step, Trapped
<1>2. CASE from.ok = TRUE /\ k \in 1..Len(index)
  <2>1. CASE m = Len(path) /\ Stays(part)
    <3>1. to = from
      BY <2>1 DEF StepAt, Step
    <3> QED
      BY <1>2, <3>1 DEF Trapped
  <2>2. CASE ~(m = Len(path) /\ Stays(part))
    <3>1. to = LookupChild(index, k, part)
      BY <1>2, <2>2 DEF StepAt, Step
    <3>2. index[k].ty \in {"dir", "rdir", "rfile", "active", "passive"}
          /\ (index[k].ty = "dir" => SliceInBounds(index, k))
      BY <1>2, IndexFacts DEF index
    <3>3. CASE index[k].ty = "rdir"
      BY <1>2, <2>2, <3>3 DEF LooksBelow
    <3>4. CASE index[k].ty \in {"rfile", "active", "passive"}
      <4>1. to = Err("not-directory")
        BY <3>1, <3>4 DEF LookupChild, IsDirectory, DirTypes
      <4> HIDE DEF to
      <4>2. to.err = "not-directory"
        BY <4>1 DEF Err
      <4> QED
        BY <4>2 DEF Trapped, to
    <3>5. CASE index[k].ty = "dir"
      <4>1. to = ChildNamed(index, k, part)
        BY <3>1, <3>2, <3>5 DEF LookupChild, IsDirectory, DirTypes
      <4>2. \/ to = Err("unspecified") \/ to = Err("no-entry")
            \/ \E c : to = Ok(c)
        BY <4>1 DEF ChildNamed, Unspecified
      <4> HIDE DEF to
      <4>3. to.err = "unspecified" \/ to.err = "no-entry" \/ to.ok = TRUE
        BY <4>2 DEF Err, Ok
      <4> QED
        BY <4>3 DEF Trapped, to
    <3> QED
      BY <3>2, <3>3, <3>4, <3>5
  <2> QED
    BY <2>1, <2>2
<1> QED
  BY <1>1, <1>2 DEF Reaches

LEMMA WalkTrapped ==
  ASSUME world \in Worlds, Bounded(index), NEW k \in 1..Len(index), NEW path, NEW n \in Nat,
         NEW W, WalkOf(index, k, path, n, W), Trapped(W[n])
  PROVE  \E j \in 0..(n - 1) : LooksBelow(W[j], path, j + 1)
<1>1. W[0] = Ok(k) /\ \A m \in 1..n : W[m] = StepAt(index, W[m - 1], path, m)
  BY WalkSteps
<1>2. \A m \in 0..n : Reaches(index, W[m])
  BY WalkReaches
<1> DEFINE S == {m \in 0..n : Trapped(W[m]) => \E j \in 0..(m - 1) : LooksBelow(W[j], path, j + 1)}
<1>3. 0 \in S
  <2>1. ~Trapped(W[0])
    BY <1>1 DEF Ok, Trapped
  <2> QED
    BY <2>1
<1>4. ASSUME NEW m \in 0..(n - 1), m \in S
      PROVE  m + 1 \in S
  <2>1. /\ m + 1 \in 1..n /\ (m + 1) - 1 = m /\ m + 1 \in 0..n /\ m \in 0..n
        /\ m \in 0..((m + 1) - 1) /\ \A j \in 0..(m - 1) : j \in 0..((m + 1) - 1)
    OBVIOUS
  <2>2. W[m + 1] = StepAt(index, W[m], path, m + 1) /\ Reaches(index, W[m])
    BY <1>1, <1>2, <2>1
  <2>3. Trapped(W[m + 1]) => Trapped(W[m]) \/ LooksBelow(W[m], path, m + 1)
    BY <2>2, StepTrapped
  <2> QED
    BY <1>4, <2>1, <2>3
<1> HIDE DEF S
<1>5. 0..n \subseteq S
  BY <1>3, <1>4, Lookup!UpToInduction
<1> QED
  BY <1>5 DEF S

\* A lookup traps on the empty path, and on one that goes on below a runtime
\* directory.
LEMMA LookupTraps ==
  ASSUME world \in Worlds, NEW k \in 1..Len(index), NEW path \in Paths,
         Trapped(DirLookup(index, k, path))
  PROVE  path = <<Empty>> \/ GoesBelowRuntime(origin[k], path)
<1> SUFFICES ASSUME path # <<Empty>>
             PROVE  GoesBelowRuntime(origin[k], path)
  OBVIOUS
<1> DEFINE n == Len(path)
           trimmed == Abstract!Trim(path)
           l == Len(trimmed)
           W == Walk(index, k, path)
           R == ReachTo(origin[k], trimmed)
<1>1. n \in Nat \ {0} /\ Trimmed(path, l, trimmed) /\ Ends(path, n)
  BY TrimDrops DEF Ends
<1>2. l \in Nat /\ l <= n /\ (l = n \/ (l = n - 1 /\ Stays(path[n])))
  BY <1>1 DEF Trimmed, Ends
<1>3. WalkOf(index, k, path, n, W) /\ DirLookup(index, k, path) = W[n]
  BY <1>1, WalkDef, WalkLast
<1>4. ReachOf(origin[k], trimmed, l, R)
  BY <1>2, ReachDef
<1>5. Bounded(index)
  BY IndexBounded DEF index
<1>6. PICK j \in 0..(n - 1) : LooksBelow(W[j], path, j + 1)
  <2> HIDE DEF n, W
  <2> QED
    BY <1>1, <1>3, <1>5, WalkTrapped
<1>7. j \in 0..(l - 1) /\ j \in 0..l
  <2>1. ~(j + 1 = n /\ Stays(path[j + 1]))
    BY <1>6 DEF LooksBelow
  <2> HIDE DEF n, l
  <2> QED
    BY <1>1, <1>2, <2>1
<1>8. Agrees(W[j], R[j])
  <2> HIDE DEF n, l, W, R, trimmed
  <2>1. \A m \in 0..l : Agrees(W[m], R[m])
    BY <1>1, <1>2, <1>3, <1>4, WalkAgrees
  <2> QED
    BY <1>7, <2>1
<1> DEFINE r == origin[W[j].at]
           sub == SubSeq(path, 1, j)
<1>9. r \in R[j] /\ world.tree.ty[r] = "rdir"
  <2>1. W[j].ok = TRUE /\ W[j].at \in 1..Len(index) /\ index[W[j].at].ty = "rdir"
    BY <1>6 DEF LooksBelow
  <2> HIDE DEF W, R
  <2>2. R[j] = {origin[W[j].at]}
    BY <1>8, <2>1 DEF Agrees
  <2>3. world.tree.ty[origin[W[j].at]] = "rdir"
    BY <2>1, SeenTree
  <2> QED
    BY <2>2, <2>3
<1>10. Len(sub) = j /\ \A m \in 1..j : sub[m] = path[m] /\ trimmed[m] = path[m]
  <2>1. \A m \in 1..j : trimmed[m] = path[m]
    <3> HIDE DEF n, l, trimmed
    <3>1. \A m \in 1..l : trimmed[m] = path[m]
      BY <1>1 DEF Trimmed
    <3>2. \A m \in 1..j : m \in 1..l
      BY <1>2, <1>7
    <3> QED
      BY <3>1, <3>2
  <2> DEFINE E == Elements(path)
  <2>2. path \in Seq(E) /\ j \in 0..Len(path)
    BY <1>6, CallsAssumption
  <2> HIDE DEF E, trimmed
  <2>3. Len(sub) = j /\ \A m \in 1..j : sub[m] = path[m]
    BY <2>2
  <2> QED
    BY <2>1, <2>3
<1>11. Abstract!Reached(origin[k], sub) = ReachTo(origin[k], sub)[j]
       /\ ReachOf(origin[k], sub, j, ReachTo(origin[k], sub))
  <2>1. Len(sub) \in Nat /\ Len(sub) = j
    BY <1>6, <1>10
  <2> HIDE DEF sub
  <2> QED
    BY <2>1, ReachDef, ReachLast
<1>12. R[j] = ReachTo(origin[k], sub)[j]
  <2> DEFINE root == origin[k]
             Q == ReachTo(origin[k], sub)
  <2>1. ReachOf(root, trimmed, l, R) /\ ReachOf(root, sub, j, Q)
    BY <1>4, <1>11
  <2>2. \A m \in 1..j : trimmed[m] = sub[m]
    BY <1>10
  <2> HIDE DEF root, Q, R, l, sub, trimmed
  <2>3. R[j] = Q[j]
    BY <1>2, <1>7, <2>1, <2>2, ReachUnique
  <2> QED
    BY <2>3 DEF Q
<1>13. r \in Abstract!Reached(origin[k], sub)
  BY <1>9, <1>11, <1>12
<1> QED
  BY <1>7, <1>9, <1>13 DEF GoesBelowRuntime

\* What is asked of the host about a runtime entry panics when nothing is left of
\* its path to look at.
LEMMA RuntimeTraps ==
  ASSUME HostLookups, TInv, initialized = TRUE, NEW op,
         NEW k \in 1..Len(index), Runtime(k), AnswerRuntime(op, k), answer'.status = "trap"
  PROVE  /\ Bare(world.tree.host_path[origin[k]])
         /\ Abstract!Denoted(world.tree.host_path[origin[k]]) # {}
<1> DEFINE path == index[k].data[1]
           map == HostMap(world.host_list)
           names == DOMAIN HostMap(world.host_list)
           name == GetHostPreopen(names, path)
           object == map[name] \o Components(Try(name, path).rest)
<1>1. world \in Worlds /\ path = world.tree.host_path[origin[k]]
  BY SeenTree DEF TInv
<1>2. host_preopen_directories = map
  BY DEF TInv, HostDirectories, HostPassthrough
<1>3. Candidates(names, path) # {} /\ Try(name, path).kind = "panic"
  <2>1. CASE Candidates(names, path) = {}
    BY <1>2, <2>1 DEF AnswerRuntime, Reply
  <2>2. CASE Candidates(names, path) # {} /\ Try(name, path).kind # "panic"
    <3>1. HostAnswers(op, {object})
      BY <1>2, <2>2 DEF AnswerRuntime
    <3>2. answer'.status \in {"ok", "host-error"}
      BY <3>1, HostOpens
    <3> QED
      BY <3>2
  <2> QED
    BY <2>1, <2>2
<1>4. name \in names /\ Holds(name, path) /\ Bare(path)
  <2>1. world \in Worlds /\ world.index[k].ty \in RuntimeTypes
    BY DEF TInv, Runtime, index
  <2>2. path = world.index[k].data[1] /\ k \in 1..Len(world.index)
    BY DEF index
  <2> HIDE DEF path, names, name
  <2> QED
    BY <1>3, <2>1, <2>2, LookupFinds DEF names, name
<1>5. map[name] \o Drop(Components(path), Len(Components(name))) \in Abstract!Denoted(path)
  <2>1. Abstract!Denoted(path) =
          {map[n] \o Drop(Components(path), Len(Components(n))) :
             n \in {m \in names : Holds(m, path)}}
    BY <1>1, DenotedBy
  <2>2. name \in {m \in names : Holds(m, path)}
    BY <1>4
  <2> HIDE DEF name, names, map, path
  <2> QED
    BY <2>1, <2>2
<1> QED
  BY <1>1, <1>4, <1>5

\* The causes, of a call and its answer.
Excused(on, args, op) ==
  \/ op = "advise"
  \/ \E d \in IF op \in {"read", "entry"} THEN {streams[args[2]].of} ELSE Elements(on) :
       d.kind = "static" /\ Runtime(d.at) /\ d.at \in Elements(world.preopens)
  \/ /\ op \in PathOps /\ args # <<>> /\ on[1].kind = "static"
     /\ LET n == world.origin[on[1].at]
            path == args[2]
        IN  path = <<Empty>> \/ GoesBelowRuntime(n, path) \/ LeadsToBare(n, path)

LEMMA SameCauses ==
  ASSUME UNCHANGED world
  PROVE  /\ \A k : Runtime(k)' <=> Runtime(k)
         /\ \A n, path : /\ GoesBelowRuntime(n, path)' <=> GoesBelowRuntime(n, path)
                         /\ LeadsToBare(n, path)' <=> LeadsToBare(n, path)
BY DEF Runtime, index, GoesBelowRuntime, LeadsToBare, Abstract!Reached, Abstract!ChildrenOf,
       Abstract!Denoted, Abstract!tree

LEMMA ExcusedCauses ==
  ASSUME UNCHANGED <<world, streams>>, NEW on, NEW args, NEW op,
         Asks(on, args), answer'.op = op, Excused(on, args, op)
  PROVE  TrapsForACause'
<1>1. call'.on = on /\ call'.args = args /\ streams' = streams /\ world' = world
  BY DEF Asks
<1>2. \A k : Runtime(k)' <=> Runtime(k)
  BY SameCauses
<1>3. \A n, path : /\ GoesBelowRuntime(n, path)' <=> GoesBelowRuntime(n, path)
                   /\ LeadsToBare(n, path)' <=> LeadsToBare(n, path)
  BY SameCauses
<1>4. Concerned' = IF op \in {"read", "entry"} THEN {streams[args[2]].of} ELSE Elements(on)
  BY <1>1 DEF Concerned, Elements
<1>5. CASE op = "advise"
  BY <1>5 DEF TrapsForACause
<1>6. CASE \E d \in IF op \in {"read", "entry"} THEN {streams[args[2]].of} ELSE Elements(on) :
             d.kind = "static" /\ Runtime(d.at) /\ d.at \in Elements(world.preopens)
  <2>1. PICK d \in Concerned' :
          d.kind = "static" /\ Runtime(d.at) /\ d.at \in Elements(world.preopens)
    BY <1>4, <1>6
  <2>2. Runtime(d.at)' /\ d.at \in Elements(world'.preopens)
    BY <1>1, <1>2, <2>1
  <2> QED
    BY <2>1, <2>2 DEF TrapsForACause
<1>7. CASE /\ op \in PathOps /\ args # <<>> /\ on[1].kind = "static"
           /\ LET n == world.origin[on[1].at]
                  path == args[2]
              IN  path = <<Empty>> \/ GoesBelowRuntime(n, path) \/ LeadsToBare(n, path)
  BY <1>1, <1>3, <1>7 DEF TrapsForACause
<1> QED
  BY <1>5, <1>6, <1>7 DEF Excused

\* A preopen that is a runtime entry, among what a call is made on.
LEMMA PreopenExcused ==
  ASSUME NEW d, d.kind = "static", Runtime(d.at), RootOnly(d), NEW args, NEW op
  PROVE  /\ op \notin {"read", "entry"} => Excused(<<d>>, args, op)
         /\ op \in {"read", "entry"} /\ d = streams[args[2]].of => Excused(<<>>, args, op)
<1>1. d.at \in Elements(world.preopens)
  BY DEF RootOnly
<1>2. d \in Elements(<<d>>)
  <2>1. Len(<<d>>) = 1 /\ <<d>>[1] = d /\ 1 \in 1..1
    OBVIOUS
  <2> QED
    BY <2>1 DEF Elements
<1> QED
  BY <1>1, <1>2 DEF Excused

LEMMA PathTraps ==
  ASSUME HostLookups, TInv, NEW d \in held, NEW op \in PathOps, NEW path \in Paths,
         AtPath(op, d, path), answer'.status = "trap"
  PROVE  Excused(<<d>>, <<"path", path>>, op) /\ answer'.op = op
<1>1. d \in Descriptor /\ world \in Worlds /\ initialized = TRUE
  BY DEF TInv
<1>2. CASE d.kind = "host"
  <2>1. HostAnswers(op, world.resolve[<<d.at, path>>])
    BY <1>2 DEF AtPath
  <2>2. answer'.status \in {"ok", "host-error"}
    BY <2>1, HostOpens
  <2> QED
    BY <2>2
<1>3. CASE d.kind = "static" /\ d.at \in 1..Len(index)
  <2> DEFINE k == d.at
             looked == DirLookup(index, k, path)
             n == origin[k]
  <2>1. AnswerLookup(op, looked)
    BY <1>3 DEF AtPath
  <2>2. answer'.op = op
    <3> HIDE DEF looked
    <3> QED
      BY <2>1, Answers DEF AnswerLookup
  <2>3. path = <<Empty>> \/ GoesBelowRuntime(n, path) \/ LeadsToBare(n, path)
    <3> SUFFICES ASSUME path # <<Empty>>
                 PROVE  GoesBelowRuntime(n, path) \/ LeadsToBare(n, path)
      OBVIOUS
    <3>1. Agrees(looked, Abstract!Reached(n, Abstract!Trim(path)))
      BY <1>1, <1>3, LookupReaches
    <3>2. CASE looked.ok = FALSE
      <4>1. Reply(op, looked.err, <<>>)
        BY <2>1, <3>2 DEF AnswerLookup
      <4>2. Trapped(looked)
        <5> HIDE DEF looked
        <5> QED
          BY <3>2, <4>1 DEF Reply, Trapped
      <4> QED
        BY <1>1, <1>3, <4>2, LookupTraps
    <3>3. CASE looked.ok = TRUE
      <4> DEFINE c == looked.at
                 m == origin[looked.at]
      <4>1. c \in 1..Len(index) /\ Abstract!Reached(n, Abstract!Trim(path)) = {m}
        BY <3>1, <3>3 DEF Agrees
      <4>2. CASE ~Runtime(c)
        <5>1. AnswerStatic(op, c)
          BY <2>1, <3>3, <4>2 DEF AnswerLookup
        <5>2. FromIndex(op, c)
          BY <4>2 DEF FromIndex, Runtime, RuntimeTypes
        <5>3. answer'.status \in {"ok", "invalid"}
          <6> HIDE DEF looked
          <6> QED
            BY <5>1, <5>2, StaticOpens
        <5> QED
          BY <5>3
      <4>3. CASE Runtime(c)
        <5>1. AnswerRuntime(op, c)
          BY <2>1, <3>3, <4>3 DEF AnswerLookup
        <5>2. /\ Bare(world.tree.host_path[m])
              /\ Abstract!Denoted(world.tree.host_path[m]) # {}
          <6> HIDE DEF looked
          <6> QED
            BY <1>1, <4>1, <4>3, <5>1, RuntimeTraps
        <5>3. world.tree.ty[m] \in RuntimeTypes
          <6> HIDE DEF looked
          <6> QED
            BY <1>1, <4>1, <4>3, SeenTree
        <5>4. m \in Abstract!Reached(n, Abstract!Trim(path))
          BY <4>1
        <5> HIDE DEF looked, m
        <5> QED
          BY <5>2, <5>3, <5>4 DEF LeadsToBare
      <4> QED
        BY <4>2, <4>3
    <3> QED
      BY <3>1, <3>2, <3>3 DEF Agrees
  <2>4. <<d>>[1] = d /\ <<"path", path>>[2] = path /\ <<"path", path>> # <<>>
    OBVIOUS
  <2>5. world.origin[d.at] = n
    BY DEF origin
  <2> HIDE DEF n, looked
  <2> QED
    BY <1>3, <2>2, <2>3, <2>4, <2>5 DEF Excused
<1> QED
  BY <1>1, <1>2, <1>3, DescriptorKinds

LEMMA DescriptorTraps ==
  ASSUME TInv, RootsOnly, NEW d \in held, NEW op \in {"stat", "type", "hash"},
         AtDescriptor(op, d), answer'.status = "trap"
  PROVE  Excused(<<d>>, <<>>, op) /\ answer'.op = op
<1>1. op \in PathOps \cup {"type"} /\ op \notin {"read", "entry"} /\ d \in Descriptor
  BY DEF PathOps, TInv
<1>2. CASE d.kind = "host"
  <2>1. HostAnswers(op, {d.at})
    BY <1>2 DEF AtDescriptor
  <2> QED
    BY <2>1, HostOpens
<1>3. CASE d.kind = "static"
  <2>1. AnswerStatic(op, d.at)
    BY <1>3 DEF AtDescriptor
  <2>2. ~FromIndex(op, d.at)
    BY <1>1, <2>1, StaticOpens
  <2>3. Runtime(d.at)
    BY <2>2 DEF FromIndex, Runtime, RuntimeTypes
  <2>4. answer'.op = op
    BY <1>1, <2>1, Answers
  <2>5. RootOnly(d)
    BY DEF RootsOnly
  <2> QED
    BY <1>1, <1>3, <2>3, <2>4, <2>5, PreopenExcused
<1> QED
  BY <1>1, <1>2, <1>3, DescriptorKinds

LEMMA ReadAtTraps ==
  ASSUME TInv, RootsOnly, NEW d \in held, NEW offset, NEW len,
         ReadAt(d, offset, len), answer'.status = "trap"
  PROVE  Excused(<<d>>, <<"from", offset, len>>, "pread") /\ answer'.op = "pread"
<1>1. d \in Descriptor /\ RootOnly(d)
  BY DEF TInv, RootsOnly
<1>2. d.kind = "static" /\ ReadError(d.at, offset) = "trap" /\ answer'.op = "pread"
  BY <1>1, DescriptorKinds DEF ReadAt, Reply
<1>3. Runtime(d.at)
  BY <1>2 DEF ReadError, Runtime, RuntimeTypes
<1> QED
  BY <1>1, <1>2, <1>3, PreopenExcused

LEMMA ReadStreamTraps ==
  ASSUME TInv, RootsOnly, NEW s \in Streams, NEW len, ReadStream(s, len),
         answer'.status = "trap"
  PROVE  /\ Excused(<<>>, <<"stream", s, len>>, "read") /\ answer'.op = "read"
         /\ UNCHANGED <<world, streams>>
<1> DEFINE d == streams[s].of
           error == ReadError(streams[s].of.at, streams[s].pos)
<1>1. streams[s] # Idle /\ UNCHANGED world
  BY DEF ReadStream, Idle
<1>2. d \in Descriptor /\ RootOnly(d)
  BY <1>1, StreamFields DEF RootsOnly
<1>3. d.kind = "static" /\ error = "trap" /\ answer'.op = "read" /\ UNCHANGED streams
  <2>1. /\ d.kind = "host" => Reply("read", "host", <<>>)
        /\ d.kind # "host" /\ error # "none" => Reply("read", error, <<>>) /\ UNCHANGED streams
        /\ d.kind # "host" /\ error = "none" => \E v : Reply("read", "ok", v)
    BY DEF ReadStream
  <2> HIDE DEF d, error
  <2> QED
    BY <1>2, <2>1, DescriptorKinds DEF Reply
<1>4. Runtime(d.at)
  BY <1>3 DEF ReadError, Runtime, RuntimeTypes
<1>5. <<"stream", s, len>>[2] = s
  OBVIOUS
<1>6. d = streams[<<"stream", s, len>>[2]].of
  BY <1>5
<1> HIDE DEF d, error
<1> QED
  BY <1>1, <1>2, <1>3, <1>4, <1>6, PreopenExcused

LEMMA EntryTraps ==
  ASSUME TInv, RootsOnly, NEW s \in Streams, ReadDirectoryEntry(s),
         answer'.status = "trap"
  PROVE  /\ Excused(<<>>, <<"stream", s>>, "entry") /\ answer'.op = "entry"
         /\ UNCHANGED <<world, streams>>
<1> DEFINE d == streams[s].of
<1>1. streams[s] # Idle /\ UNCHANGED world /\ streams[s].kind = "dir"
  BY DEF ReadDirectoryEntry, Idle
<1>2. d \in Descriptor /\ RootOnly(d)
  BY <1>1, StreamFields DEF RootsOnly
<1>3. d.kind = "static" /\ ~SliceInBounds(index, d.at) /\ answer'.op = "entry" /\ UNCHANGED streams
  <2>1. /\ d.kind = "host" => Reply("entry", "host", <<>>)
        /\ d.kind # "host" /\ ~SliceInBounds(index, d.at) =>
             Reply("entry", "trap", <<>>) /\ UNCHANGED streams
        /\ d.kind # "host" /\ SliceInBounds(index, d.at) =>
             \E status \in {"ok", "end"} : \E v : Reply("entry", status, v)
    BY DEF ReadDirectoryEntry
  <2> HIDE DEF d
  <2> QED
    BY <1>2, <2>1, DescriptorKinds DEF Reply
<1>4. Runtime(d.at)
  <2>1. IsDirectory(index, d.at) /\ d.at \in 1..Len(index) /\ world \in Worlds
    BY <1>1, <1>2, <1>3, DescriptorKinds DEF TInv
  <2>2. index[d.at].ty \in {"dir", "rdir"} /\ (index[d.at].ty = "dir" => SliceInBounds(index, d.at))
    BY <2>1, IndexFacts DEF index, IsDirectory, DirTypes
  <2> QED
    BY <1>3, <2>2 DEF Runtime, RuntimeTypes
<1>5. <<"stream", s>>[2] = s
  OBVIOUS
<1>6. d = streams[<<"stream", s>>[2]].of
  BY <1>5
<1> HIDE DEF d
<1> QED
  BY <1>1, <1>2, <1>3, <1>4, <1>6, PreopenExcused

LEMMA StepTraps ==
  ASSUME HostLookups, TInv, RootsOnly, TrapsForACause, [Next]_vars
  PROVE  TrapsForACause'
<1> SUFFICES ASSUME answer'.status = "trap"
             PROVE  TrapsForACause'
  BY DEF TrapsForACause, Alive
<1>1. CASE GetDirectories
  BY <1>1 DEF GetDirectories, Reply
<1>2. ASSUME NEW d \in held, OnDescriptor(d)
      PROVE  TrapsForACause'
  <2>1. CASE DropDescriptor(d)
    BY <2>1 DEF DropDescriptor, Alive
  <2>2. ASSUME NEW op \in PathOps, NEW path \in Paths, AtPath(op, d, path)
        PROVE  TrapsForACause'
    <3>1. UNCHANGED <<world, streams>> /\ Asks(<<d>>, <<"path", path>>)
      BY <2>2 DEF AtPath
    <3>2. Excused(<<d>>, <<"path", path>>, op) /\ answer'.op = op
      BY <2>2, PathTraps
    <3> QED
      BY <3>1, <3>2, ExcusedCauses
  <2>3. ASSUME NEW op \in {"stat", "type", "hash"}, AtDescriptor(op, d)
        PROVE  TrapsForACause'
    <3>1. UNCHANGED <<world, streams>> /\ Asks(<<d>>, <<>>)
      BY <2>3 DEF AtDescriptor
    <3>2. Excused(<<d>>, <<>>, op) /\ answer'.op = op
      BY <2>3, DescriptorTraps
    <3> QED
      BY <3>1, <3>2, ExcusedCauses
  <2>4. ASSUME NEW e \in held, IsSameObject(d, e)
        PROVE  FALSE
    BY <2>4 DEF IsSameObject, Reply
  <2>5. CASE Modify(d) \/ GetFlags(d)
    BY <2>5 DEF Modify, GetFlags, Reply
  <2>6. CASE Advise(d)
    BY <2>6 DEF Advise, Reply, TrapsForACause
  <2>7. ASSUME NEW s \in Streams, NEW offset \in Offsets, ReadViaStream(s, d, offset)
        PROVE  FALSE
    BY <2>7 DEF ReadViaStream, Reply
  <2>8. ASSUME NEW offset \in Offsets, NEW len \in Lens, ReadAt(d, offset, len)
        PROVE  TrapsForACause'
    <3>1. UNCHANGED <<world, streams>> /\ Asks(<<d>>, <<"from", offset, len>>)
      BY <2>8 DEF ReadAt
    <3>2. Excused(<<d>>, <<"from", offset, len>>, "pread") /\ answer'.op = "pread"
      BY <2>8, ReadAtTraps
    <3> QED
      BY <3>1, <3>2, ExcusedCauses
  <2>9. ASSUME NEW s \in Streams, ReadDirectory(s, d)
        PROVE  FALSE
    BY <2>9 DEF ReadDirectory, Reply
  <2> QED
    BY <1>2, <2>1, <2>2, <2>3, <2>4, <2>5, <2>6, <2>7, <2>8, <2>9 DEF OnDescriptor
<1>3. ASSUME NEW s \in Streams, OnStream(s)
      PROVE  TrapsForACause'
  <2>1. ASSUME NEW len \in Lens, ReadStream(s, len)
        PROVE  TrapsForACause'
    <3>1. Asks(<<>>, <<"stream", s, len>>)
      BY <2>1 DEF ReadStream
    <3>2. /\ Excused(<<>>, <<"stream", s, len>>, "read") /\ answer'.op = "read"
          /\ UNCHANGED <<world, streams>>
      BY <2>1, ReadStreamTraps
    <3> QED
      BY <3>1, <3>2, ExcusedCauses
  <2>2. CASE ReadDirectoryEntry(s)
    <3>1. Asks(<<>>, <<"stream", s>>)
      BY <2>2 DEF ReadDirectoryEntry
    <3>2. /\ Excused(<<>>, <<"stream", s>>, "entry") /\ answer'.op = "entry"
          /\ UNCHANGED <<world, streams>>
      BY <2>2, EntryTraps
    <3> QED
      BY <3>1, <3>2, ExcusedCauses
  <2>3. CASE DropStream(s)
    BY <2>3 DEF DropStream, Alive
  <2> QED
    BY <1>3, <2>1, <2>2, <2>3 DEF OnStream
<1>4. CASE UNCHANGED vars
  <2>1. UNCHANGED <<world, streams, call, answer>>
    BY <1>4 DEF vars
  <2>2. /\ Concerned' = Concerned /\ \A k : Runtime(k)' <=> Runtime(k)
        /\ \A n, path : /\ GoesBelowRuntime(n, path)' <=> GoesBelowRuntime(n, path)
                        /\ LeadsToBare(n, path)' <=> LeadsToBare(n, path)
    BY <2>1, SameCauses DEF Concerned, Elements
  <2>3. ~Alive
    BY <2>1 DEF Alive
  <2>4. CASE answer.op = "advise"
    BY <2>1, <2>4 DEF TrapsForACause
  <2>5. CASE \E d \in Concerned :
               d.kind = "static" /\ Runtime(d.at) /\ d.at \in Elements(world.preopens)
    BY <2>1, <2>2, <2>5 DEF TrapsForACause
  <2>6. CASE /\ answer.op \in PathOps /\ call.args # <<>> /\ call.on[1].kind = "static"
             /\ LET n == world.origin[call.on[1].at]
                    path == call.args[2]
                IN  path = <<Empty>> \/ GoesBelowRuntime(n, path) \/ LeadsToBare(n, path)
    BY <2>1, <2>2, <2>6 DEF TrapsForACause
  <2> QED
    BY <2>3, <2>4, <2>5, <2>6 DEF TrapsForACause
<1> QED
  BY <1>1, <1>2, <1>3, <1>4 DEF Next

\* The calls that panic the adapter are the known ones, whatever the index, the
\* host and the calls.
THEOREM TrapsAreKnown ==
  ASSUME HostLookups
  PROVE  Spec => []TrapsForACause
<1>1. Init => TrapsForACause
  BY DEF Init, TrapsForACause, Alive
<1>2. TInv /\ RootsOnly /\ [Next]_vars => RootsOnly'
  BY CallsAssumption, StepRootsOnly
<1>3. TInv /\ RootsOnly /\ TrapsForACause /\ [Next]_vars => TrapsForACause'
  BY StepTraps
<1> QED
  BY <1>1, <1>2, <1>3, InitRootsOnly, TypeCorrect, PTL DEF Spec
-----------------------------------------------------------------------------
(***************************************************************************)
(* The calls on streams are those of VirtualFs.                            *)
(***************************************************************************)
SeenPos(x) ==
  IF /\ x.kind = "dir" /\ x.of.kind = "static" /\ index[x.of.at].ty = "dir"
     /\ x.pos > ChildCount(index, x.of.at)
  THEN ChildCount(index, x.of.at)
  ELSE x.pos

SeenStream(x) ==
  [kind |-> x.kind, of |-> IF x = Idle THEN <<>> ELSE ObjectOf(x.of), pos |-> SeenPos(x)]

LEMMA StreamsSeen ==
  /\ SeenStreams = [s \in Streams |-> SeenStream(streams[s])]
  /\ SeenStream(Idle) = [kind |-> "none", of |-> <<>>, pos |-> 0]
  /\ \A d, offset :
       SeenStream(FileStream(d, offset)) =
         [kind |-> "file", of |-> ObjectOf(d), pos |-> offset]
<1>1. \A s : PosOf(s) = SeenPos(streams[s])
  BY DEF PosOf, SeenPos
<1>2. SeenStreams = [s \in Streams |-> SeenStream(streams[s])]
  BY <1>1 DEF SeenStreams, SeenStream
<1>3. SeenStream(Idle) = [kind |-> "none", of |-> <<>>, pos |-> 0]
  BY DEF SeenStream, SeenPos, Idle
<1>4. ASSUME NEW d, NEW offset
      PROVE  SeenStream(FileStream(d, offset)) =
               [kind |-> "file", of |-> ObjectOf(d), pos |-> offset]
  <2> DEFINE x == FileStream(d, offset)
  <2>1. x.kind = "file" /\ x.of = d /\ x.pos = offset
    BY DEF FileStream
  <2>2. x # Idle
    BY <2>1 DEF Idle
  <2> HIDE DEF x
  <2> QED
    BY <2>1, <2>2 DEF SeenStream, SeenPos, x
<1> QED
  BY <1>2, <1>3, <1>4

LEMMA DirSeen ==
  ASSUME world \in Worlds, NEW d \in Descriptor
  PROVE  SeenStream(DirStream(d)) = [kind |-> "dir", of |-> ObjectOf(d), pos |-> 0]
<1> DEFINE x == DirStream(d)
<1>1. x.kind = "dir" /\ x.of = d /\ x.pos = 0
  BY DEF DirStream
<1>2. x # Idle
  BY <1>1 DEF Idle
<1>3. d.kind = "static" /\ index[d.at].ty = "dir" => ~(0 > ChildCount(index, d.at))
  <2> SUFFICES ASSUME d.kind = "static", index[d.at].ty = "dir"
               PROVE  ~(0 > ChildCount(index, d.at))
    OBVIOUS
  <2>1. d.at \in 1..Len(index)
    BY DescriptorKinds
  <2>3. ChildCount(index, d.at) \in Nat
    BY <2>1, ListedAt
  <2> QED
    BY <2>3
<1> HIDE DEF x
<1>4. SeenPos(x) = 0
  BY <1>1, <1>3 DEF SeenPos
<1> QED
  BY <1>1, <1>2, <1>4 DEF SeenStream, x

LEMMA StreamMoved ==
  ASSUME TInv, UNCHANGED world, NEW s \in Streams, NEW x,
         streams' = [streams EXCEPT ![s] = x]
  PROVE  SeenStreams' = [SeenStreams EXCEPT ![s] = SeenStream(x)]
<1>1. \A y : SeenStream(y)' = SeenStream(y)
  BY SeenSame, SameWorld DEF SeenStream, SeenPos, ChildCount
<1>2. \A r \in Streams : streams'[r] = IF r = s THEN x ELSE streams[r]
  BY DEF TInv
<1>3. SeenStreams = [r \in Streams |-> SeenStream(streams[r])]
  BY StreamsSeen
<1>4. SeenStreams' = [r \in Streams |-> SeenStream(streams'[r])]
  <2>1. \A r : PosOf(r)' = SeenPos(streams'[r])
    BY SameWorld DEF PosOf, SeenPos, ChildCount
  <2>2. \A y : ObjectOf(y)' = ObjectOf(y)
    BY SeenSame
  <2> QED
    BY <2>1, <2>2 DEF SeenStreams, SeenStream
<1> QED
  BY <1>2, <1>3, <1>4

\* A stream whose position alone changes.
LEMMA PositionMoved ==
  ASSUME TInv, UNCHANGED world, NEW s \in Streams, streams[s] # Idle, NEW pos \in Nat,
         streams' = [streams EXCEPT ![s].pos = pos]
  PROVE  LET x == [streams[s] EXCEPT !.pos = pos]
         IN  /\ x.kind = streams[s].kind /\ x.of = streams[s].of /\ x.pos = pos
             /\ SeenStreams' = [SeenStreams EXCEPT ![s].pos = SeenPos(x)]
<1> DEFINE x == [streams[s] EXCEPT !.pos = pos]
<1>1. streams[s].kind \in {"file", "dir"}
  BY StreamFields
<1>2. x.kind = streams[s].kind /\ x.of = streams[s].of /\ x.pos = pos
  BY <1>1, StreamMovesFields
<1>3. streams' = [streams EXCEPT ![s] = x]
  OBVIOUS
<1>4. x # Idle
  BY <1>1, <1>2 DEF Idle
<1> HIDE DEF x
<1>5. SeenStreams' = [SeenStreams EXCEPT ![s] = SeenStream(x)]
  BY <1>3, StreamMoved
<1>6. SeenStreams[s] = SeenStream(streams[s])
  BY StreamsSeen
<1>7. SeenStream(x) = [SeenStream(streams[s]) EXCEPT !.pos = SeenPos(x)]
  BY <1>2, <1>4 DEF SeenStream
<1>8. SeenStreams' = [SeenStreams EXCEPT ![s].pos = SeenPos(x)]
  BY <1>5, <1>6, <1>7
<1> QED
  BY <1>2, <1>8 DEF x

LEMMA StreamOpen ==
  ASSUME TInv, NEW s \in Streams, streams[s] # Idle
  PROVE  /\ streams[s].of \in Descriptor
         /\ SeenStreams[s].kind = streams[s].kind
         /\ SeenStreams[s].of = ObjectOf(streams[s].of)
         /\ SeenStreams[s].pos = SeenPos(streams[s])
         /\ streams[s].kind = "file" => SeenStreams[s].pos = streams[s].pos
<1>1. SeenStreams[s] = SeenStream(streams[s])
  BY StreamsSeen
<1>2. streams[s].of \in Descriptor
  BY StreamFields
<1>3. streams[s].kind = "file" => SeenPos(streams[s]) = streams[s].pos
  BY DEF SeenPos
<1> QED
  BY <1>1, <1>2, <1>3 DEF SeenStream

LEMMA StreamIdle ==
  ASSUME NEW s \in Streams, streams[s] = Idle
  PROVE  SeenStreams[s].kind = "none"
BY StreamsSeen

\* What a read delivers, and what stops it, when its offset and its length are
\* words.
LEMMA ReadAgrees ==
  ASSUME world \in Worlds, NEW k \in 1..Len(index), index[k].ty # "rfile",
         NEW offset \in 0..(UsizeMod - 1), NEW len \in 0..(UsizeMod - 1)
  PROVE  LET n == origin[k]
             size == world.tree.size[n]
             error == ReadError(k, offset)
         IN  \/ Abstract!IsDir(n) /\ error = "is-directory"
             \/ /\ ~Abstract!IsDir(n) /\ offset >= size
                /\ error = IF offset > size /\ ~world.tree.passive[n]
                           THEN "invalid-seek" ELSE "closed"
             \/ /\ ~Abstract!IsDir(n) /\ ~(offset >= size) /\ offset < size
                /\ error = "none"
                /\ ReadBytes(k, offset, len) = Abstract!Delivered(n, offset, len)
                /\ Advance(k, offset, len) = Abstract!Delivered(n, offset, len)[2]
                /\ Advance(k, offset, len) \in Nat
<1> DEFINE n == origin[k]
           size == world.tree.size[n]
           error == ReadError(k, offset)
<1>1. /\ index[k].ty \in DirTypes \cup {"active", "passive"}
      /\ index[k].ty \notin DirTypes => index[k].data[2] \in 0..(UsizeMod - 1)
  BY IndexFacts DEF index, RuntimeTypes, DirTypes
<1>2. /\ index[k].ty \in DirTypes <=> Abstract!IsDir(n)
      /\ index[k].ty = "passive" => world.tree.passive[n]
      /\ index[k].ty = "active" => ~world.tree.passive[n]
      /\ Size(k) = size
  BY SeenTree DEF IsDirectory
<1>3. AsUsize(offset) = offset /\ AsUsize(len) = len
  BY WorldsAssumption DEF AsUsize
<1>4. CASE index[k].ty \in DirTypes
  <2>1. ReadError(k, offset) = "is-directory"
    BY <1>4 DEF ReadError, DirTypes
  <2> QED
    BY <1>2, <1>4, <2>1
<1>5. CASE index[k].ty \in {"active", "passive"}
  <2>1. size = index[k].data[2] /\ size \in 0..(UsizeMod - 1)
    BY <1>1, <1>2, <1>5 DEF Size, DirTypes
  <2>2. ~Abstract!IsDir(n)
    BY <1>2, <1>5 DEF DirTypes
  <2>3. CASE offset >= size
    <3>1. CASE index[k].ty = "passive"
      <4>1. error = "closed"
        BY <1>3, <2>1, <2>3, <3>1 DEF ReadError, DirTypes
      <4> QED
        BY <1>2, <2>2, <2>3, <3>1, <4>1
    <3>2. CASE index[k].ty = "active" /\ offset = size
      <4>1. error = "closed"
        BY <1>3, <2>1, <3>2 DEF ReadError, DirTypes
      <4>2. ~(offset > size)
        BY <2>1, <3>2
      <4> QED
        BY <1>2, <2>2, <2>3, <4>1, <4>2
    <3>3. CASE index[k].ty = "active" /\ offset > size
      <4>1. error = "invalid-seek"
        BY <1>3, <2>1, <3>3 DEF ReadError, DirTypes
      <4> QED
        BY <1>2, <2>2, <2>3, <3>3, <4>1
    <3> QED
      BY <1>5, <2>1, <2>3, <3>1, <3>2, <3>3
  <2>4. CASE ~(offset >= size)
    <3>1. offset < size
      BY <2>1, <2>4
    <3>2. error = "none"
      BY <1>3, <1>5, <2>1, <3>1 DEF ReadError, DirTypes
    <3>3. ReadLen(k, offset, len) = IF size - offset <= len THEN size - offset ELSE len
      BY <1>3, <2>1 DEF ReadLen
    <3>4. Abstract!Delivered(n, offset, len) =
            <<offset, IF offset + len <= size THEN offset + len ELSE size>>
      BY DEF Abstract!Delivered, Abstract!tree
    <3>5. /\ ReadBytes(k, offset, len) = <<offset, offset + ReadLen(k, offset, len)>>
          /\ Advance(k, offset, len) = offset + ReadLen(k, offset, len)
      BY <1>3 DEF ReadBytes, Advance
    <3> HIDE DEF size
    <3>6. /\ offset + ReadLen(k, offset, len) =
               IF offset + len <= size THEN offset + len ELSE size
          /\ offset + ReadLen(k, offset, len) \in Nat
      <4>1. offset \in Nat /\ len \in Nat /\ size \in Nat
        BY <2>1, WorldsAssumption
      <4>2. ASSUME NEW l, l = IF size - offset <= len THEN size - offset ELSE len
            PROVE  /\ offset + l = IF offset + len <= size THEN offset + len ELSE size
                   /\ offset + l \in Nat
        BY <3>1, <4>1, <4>2
      <4> QED
        BY <3>3, <4>2
    <3> QED
      BY <2>2, <2>4, <3>1, <3>2, <3>4, <3>5, <3>6 DEF size
  <2> QED
    BY <2>3, <2>4
<1> QED
  BY <1>1, <1>4, <1>5

\* An answer that is no object is seen as it is.
LEMMA SeenPlain ==
  ASSUME UNCHANGED world,
         NEW op \in {"is-same-object", "modify", "get-flags", "read", "read-via-stream", "pread",
                    "read-directory"},
         NEW status, NEW value, Reply(op, status, value)
  PROVE  Abstract!Reply(op, status, value)
<1>1. SeenValue(op, status, value) = value
  <2>1. CASE status = "ok"
    BY <2>1, SeenValues, Zenon
  <2>2. CASE status # "ok"
    BY <2>2, SeenValues
  <2> QED
    BY <2>1, <2>2
<1> QED
  BY <1>1, SeenReply

LEMMA RReadStream ==
  ASSUME GuestReads, TInv, NEW s \in Streams, Within(s), NEW len \in Lens,
         ReadStream(s, len)
  PROVE  Abstract!ReadStream \/ Abstract!Panics
<1> DEFINE k == streams[s].of.at
           offset == streams[s].pos
           error == ReadError(k, offset)
           o == ObjectOf(streams[s].of)
<1>1. /\ streams[s].kind = "file" /\ UNCHANGED <<world, held>>
      /\ IF streams[s].of.kind = "host"
         THEN Reply("read", "host", <<>>) /\ UNCHANGED streams
         ELSE IF error # "none" THEN Reply("read", error, <<>>) /\ UNCHANGED streams
         ELSE /\ Reply("read", "ok", ReadBytes(k, offset, len))
              /\ streams' = [streams EXCEPT ![s].pos = Advance(k, offset, len)]
  BY DEF ReadStream
<1>2. streams[s] # Idle
  BY <1>1 DEF Idle
<1>3. /\ streams[s].of \in Descriptor
      /\ SeenStreams[s].kind = "file" /\ SeenStreams[s].of = o /\ SeenStreams[s].pos = offset
  BY <1>1, <1>2, StreamOpen
<1>4. /\ SeenHeld' = SeenHeld /\ (UNCHANGED streams => SeenStreams' = SeenStreams)
      /\ Abstract!Asks(<<>>, <<"stream", s, len>>)
  BY <1>1, SeenSame, SeenAsks DEF ReadStream
<1>5. SUFFICES
        \/ UNCHANGED streams /\ Panicked
        \/ IF Abstract!IsNode(o) THEN Abstract!Read(s, o[2], offset, len)
           ELSE Abstract!Reply("read", "host", <<>>) /\ SeenStreams' = SeenStreams
  <2>1. UNCHANGED streams /\ Panicked => Abstract!Panics
    BY <1>1, RPanics
  <2> HIDE DEF o, offset
  <2>2. ASSUME IF Abstract!IsNode(o) THEN Abstract!Read(s, o[2], offset, len)
               ELSE Abstract!Reply("read", "host", <<>>) /\ SeenStreams' = SeenStreams
        PROVE  Abstract!ReadStream
    BY <1>1, <1>3, <1>4, <2>2
    DEF Abstract!ReadStream, SeenHeld, SeenStreams, SeenCall, SeenAnswer
  <2> QED
    BY <2>1, <2>2
<1>6. \A status, value : Reply("read", status, value) => Abstract!Reply("read", status, value)
  BY <1>1, SeenPlain
<1>7. CASE streams[s].of.kind = "host"
  <2>1. ~Abstract!IsNode(o)
    BY <1>3, <1>7, SeenDescriptor
  <2> QED
    BY <1>1, <1>4, <1>6, <1>7, <2>1
<1>9. CASE streams[s].of.kind = "static" /\ index[k].ty = "rfile"
  <2>1. error = "trap"
    BY <1>9 DEF ReadError, DirTypes
  <2>2. Reply("read", "trap", <<>>) /\ UNCHANGED streams
    BY <1>1, <1>9, <2>1
  <2> QED
    BY <1>1, <2>2 DEF Reply, Panicked
<1>8. CASE streams[s].of.kind = "static" /\ index[k].ty # "rfile"
  <2> DEFINE n == origin[k]
             size == world.tree.size[n]
  <2>1. Abstract!IsNode(o) /\ o[2] = n /\ k \in 1..Len(index) /\ index[k].ty # "rfile"
    BY <1>3, <1>8, SeenDescriptor
  <2>2. /\ IF error # "none" THEN Reply("read", error, <<>>) /\ UNCHANGED streams
           ELSE /\ Reply("read", "ok", ReadBytes(k, offset, len))
                /\ streams' = [streams EXCEPT ![s].pos = Advance(k, offset, len)]
    BY <1>1, <1>8
  <2>3. world \in Worlds /\ offset \in 0..(UsizeMod - 1) /\ len \in 0..(UsizeMod - 1)
    BY <1>1, <1>8 DEF TInv, Within, GuestReads
  <2>4. \/ Abstract!IsDir(n) /\ error = "is-directory"
        \/ /\ ~Abstract!IsDir(n) /\ offset >= size
           /\ error = IF offset > size /\ ~world.tree.passive[n]
                      THEN "invalid-seek" ELSE "closed"
        \/ /\ ~Abstract!IsDir(n) /\ ~(offset >= size) /\ offset < size
           /\ error = "none"
           /\ ReadBytes(k, offset, len) = Abstract!Delivered(n, offset, len)
           /\ Advance(k, offset, len) = Abstract!Delivered(n, offset, len)[2]
           /\ Advance(k, offset, len) \in Nat
    <3> HIDE DEF k, offset
    <3> QED
      BY <2>1, <2>3, ReadAgrees
  <2>5. Abstract!Read(s, n, offset, len) <=>
          IF Abstract!IsDir(n) THEN
            Abstract!Reply("read", "is-directory", <<>>) /\ SeenStreams' = SeenStreams
          ELSE IF offset >= size THEN
            /\ Abstract!Reply("read", IF offset > size /\ ~world.tree.passive[n]
                                      THEN "invalid-seek" ELSE "closed", <<>>)
            /\ SeenStreams' = SeenStreams
          ELSE /\ Abstract!Reply("read", "ok", Abstract!Delivered(n, offset, len))
               /\ SeenStreams' = [SeenStreams EXCEPT ![s].pos =
                                    Abstract!Delivered(n, offset, len)[2]]
    BY DEF Abstract!Read, SeenStreams, Abstract!tree
  <2>6. CASE error # "none"
    <3>1. Abstract!Reply("read", error, <<>>) /\ SeenStreams' = SeenStreams
      BY <1>4, <1>6, <2>2, <2>6
    <3> HIDE DEF error, n, offset, size, o
    <3> QED
      BY <2>1, <2>4, <2>5, <2>6, <3>1
  <2>7. CASE error = "none"
    <3> DEFINE x == [streams[s] EXCEPT !.pos = Advance(k, offset, len)]
    <3>1. /\ ~Abstract!IsDir(n) /\ ~(offset >= size)
          /\ ReadBytes(k, offset, len) = Abstract!Delivered(n, offset, len)
          /\ Advance(k, offset, len) = Abstract!Delivered(n, offset, len)[2]
          /\ Advance(k, offset, len) \in Nat
      BY <2>4, <2>7
    <3>2. Abstract!Reply("read", "ok", Abstract!Delivered(n, offset, len))
      BY <1>6, <2>2, <2>7, <3>1
    <3>3. SeenStreams' = [SeenStreams EXCEPT ![s].pos = Advance(k, offset, len)]
      <4> DEFINE pos == Advance(k, offset, len)
      <4>1. pos \in Nat /\ streams' = [streams EXCEPT ![s].pos = pos]
        BY <2>2, <2>7, <3>1
      <4> HIDE DEF pos
      <4>2. LET y == [streams[s] EXCEPT !.pos = pos]
            IN  /\ y.kind = streams[s].kind /\ y.pos = pos
                /\ SeenStreams' = [SeenStreams EXCEPT ![s].pos = SeenPos(y)]
        BY <1>1, <1>2, <4>1, PositionMoved
      <4>3. \A y : y.kind = "file" => SeenPos(y) = y.pos
        BY DEF SeenPos
      <4>4. SeenStreams' = [SeenStreams EXCEPT ![s].pos = pos]
        BY <1>1, <4>2, <4>3
      <4> QED
        BY <4>4 DEF pos
    <3> HIDE DEF n, offset, size, o
    <3> QED
      BY <2>1, <2>5, <3>1, <3>2, <3>3
  <2> QED
    BY <2>6, <2>7
<1> QED
  BY <1>3, <1>7, <1>8, <1>9, DescriptorKinds

LEMMA RReadAt ==
  ASSUME GuestReads, TInv, NEW d \in held, NEW offset \in Offsets, NEW len \in Lens,
         ReadAt(d, offset, len)
  PROVE  Abstract!ReadAt \/ Abstract!Panics
<1> DEFINE k == d.at
           error == ReadError(k, offset)
           o == ObjectOf(d)
<1>1. /\ UNCHANGED <<world, held, streams>>
      /\ d \in Descriptor /\ world \in Worlds
  BY DEF ReadAt, TInv
<1>2. /\ o \in SeenHeld /\ SeenHeld' = SeenHeld /\ SeenStreams' = SeenStreams
      /\ Abstract!Asks(<<o>>, <<"from", offset, len>>)
  BY <1>1, SeenSame, SeenAsks DEF SeenHeld, ReadAt
<1>3. \A status, value : Reply("pread", status, value) => Abstract!Reply("pread", status, value)
  BY <1>1, SeenPlain
<1>4. CASE d.kind = "host"
  <2>1. ~Abstract!IsNode(o)
    BY <1>1, <1>4, SeenDescriptor
  <2>2. Reply("pread", "host", <<>>) \/ Reply("pread", "host-error", <<>>)
    BY <1>4 DEF ReadAt
  <2>3. Abstract!Reply("pread", "host", <<>>) \/ Abstract!Reply("pread", "host-error", <<>>)
    BY <1>3, <2>2
  <2> HIDE DEF o
  <2> QED
    BY <1>1, <1>2, <2>1, <2>3
    DEF Abstract!ReadAt, SeenHeld, SeenStreams, SeenCall, SeenAnswer
<1>6. CASE d.kind = "static" /\ index[k].ty = "rfile"
  <2>1. error = "trap"
    BY <1>6 DEF ReadError, DirTypes
  <2>2. Reply("pread", "trap", <<>>)
    BY <1>6, <2>1 DEF ReadAt
  <2>3. Panicked
    BY <1>1, <2>2 DEF Reply, Panicked
  <2> QED
    BY <1>1, <2>3, RPanics
<1>5. CASE d.kind = "static" /\ index[k].ty # "rfile"
  <2> DEFINE n == origin[k]
             size == world.tree.size[n]
  <2>1. Abstract!IsNode(o) /\ o[2] = n /\ k \in 1..Len(index) /\ index[k].ty # "rfile"
    BY <1>1, <1>5, SeenDescriptor
  <2>2. /\ error = "none" => Reply("pread", "ok", ReadBytes(k, offset, len))
        /\ error = "closed" => Reply("pread", "ok", <<>>)
        /\ error \in {"is-directory", "invalid-seek"} => Reply("pread", "io", <<>>)
    BY <1>5 DEF ReadAt
  <2>3. offset \in 0..(UsizeMod - 1) /\ len \in 0..(UsizeMod - 1)
    BY DEF GuestReads
  <2>4. \/ Abstract!IsDir(n) /\ error = "is-directory"
        \/ /\ ~Abstract!IsDir(n) /\ offset >= size
           /\ error = IF offset > size /\ ~world.tree.passive[n]
                      THEN "invalid-seek" ELSE "closed"
        \/ /\ ~Abstract!IsDir(n) /\ ~(offset >= size) /\ offset < size
           /\ error = "none"
           /\ ReadBytes(k, offset, len) = Abstract!Delivered(n, offset, len)
    <3> HIDE DEF k
    <3> QED
      BY <1>1, <2>1, <2>3, ReadAgrees
  <2>5. SUFFICES
          IF Abstract!IsDir(n) THEN Abstract!Reply("pread", "io", <<>>)
          ELSE IF offset < size
            THEN Abstract!Reply("pread", "ok", Abstract!Delivered(n, offset, len))
          ELSE Abstract!Reply("pread", IF offset > size /\ ~world.tree.passive[n]
                                       THEN "io" ELSE "ok", <<>>)
    <3>1. o[2] = n /\ size = Abstract!tree.size[o[2]]
          /\ world.tree.passive[n] = Abstract!tree.passive[o[2]]
      BY <2>1 DEF Abstract!tree
    <3> HIDE DEF o, n, size
    <3> QED
      BY <1>1, <1>2, <2>1, <3>1
      DEF Abstract!ReadAt, SeenHeld, SeenStreams, SeenCall, SeenAnswer
  <2>6. /\ error = "none" => Abstract!Reply("pread", "ok", ReadBytes(k, offset, len))
        /\ error = "closed" => Abstract!Reply("pread", "ok", <<>>)
        /\ error \in {"is-directory", "invalid-seek"} => Abstract!Reply("pread", "io", <<>>)
    BY <1>3, <2>2
  <2>7. offset >= size => ~(offset < size)
    <3>1. index[k].ty \notin DirTypes => Size(k) \in 0..(UsizeMod - 1)
      BY <1>1, <2>1, IndexFacts DEF index, RuntimeTypes, DirTypes, Size
    <3>2. index[k].ty \in DirTypes => Size(k) = 0
      BY DEF Size
    <3>3. Size(k) = size
      BY <1>1, <2>1, SeenTree
    <3> HIDE DEF size, k
    <3> QED
      BY <2>3, <3>1, <3>2, <3>3
  <2> HIDE DEF error, n, size, k
  <2> QED
    BY <2>4, <2>6, <2>7
<1> QED
  BY <1>1, <1>4, <1>5, <1>6, DescriptorKinds

LEMMA RReadViaStream ==
  ASSUME TInv, NEW d \in held, NEW s \in Streams, NEW offset \in Offsets,
         ReadViaStream(s, d, offset)
  PROVE  Abstract!OpenStream
<1> DEFINE o == ObjectOf(d)
<1>1. UNCHANGED <<world, held>> /\ streams[s] = Idle /\ d \in Descriptor
  BY DEF ReadViaStream, TInv
<1>2. /\ o \in SeenHeld /\ SeenHeld' = SeenHeld /\ SeenStreams[s].kind = "none"
      /\ Abstract!Asks(<<o>>, <<"from", offset>>)
  BY <1>1, SeenSame, SeenAsks, StreamIdle DEF SeenHeld, ReadViaStream
<1>3. \A status, value :
        Reply("read-via-stream", status, value) =>
          Abstract!Reply("read-via-stream", status, value)
  BY <1>1, SeenPlain
<1>4. CASE /\ streams' = [streams EXCEPT ![s] = [kind |-> "file", of |-> d, pos |-> offset]]
           /\ Reply("read-via-stream", "ok", <<>>)
  <2>1. SeenStreams' = [SeenStreams EXCEPT ![s] = SeenStream(FileStream(d, offset))]
    BY <1>1, <1>4, StreamMoved DEF FileStream
  <2>2. SeenStreams' = [SeenStreams EXCEPT ![s] = [kind |-> "file", of |-> o, pos |-> offset]]
    BY <2>1, StreamsSeen
  <2>3. Abstract!Reply("read-via-stream", "ok", <<>>)
    BY <1>3, <1>4
  <2> HIDE DEF o
  <2> QED
    BY <1>1, <1>2, <2>2, <2>3
    DEF Abstract!OpenStream, SeenHeld, SeenStreams, SeenCall, SeenAnswer
<1>5. CASE d.kind = "host" /\ UNCHANGED streams /\ Reply("read-via-stream", "host-error", <<>>)
  <2>1. ~Abstract!IsNode(o)
    BY <1>1, <1>5, SeenDescriptor
  <2>2. SeenStreams' = SeenStreams /\ Abstract!Reply("read-via-stream", "host-error", <<>>)
    BY <1>1, <1>3, <1>5, SeenSame
  <2> HIDE DEF o
  <2> QED
    BY <1>1, <1>2, <2>1, <2>2
    DEF Abstract!OpenStream, SeenHeld, SeenStreams, SeenCall, SeenAnswer
<1> QED
  BY <1>4, <1>5 DEF ReadViaStream

LEMMA RReadDirectory ==
  ASSUME TInv, NEW d \in held, NEW s \in Streams, ReadDirectory(s, d)
  PROVE  Abstract!OpenDirectory
<1> DEFINE o == ObjectOf(d)
<1>1. /\ UNCHANGED <<world, held>> /\ streams[s] = Idle
      /\ d \in Descriptor /\ world \in Worlds
  BY DEF ReadDirectory, TInv
<1>2. /\ o \in SeenHeld /\ SeenHeld' = SeenHeld /\ SeenStreams[s].kind = "none"
      /\ Abstract!Asks(<<o>>, <<>>)
  BY <1>1, SeenSame, SeenAsks, StreamIdle DEF SeenHeld, ReadDirectory
<1>3. \A status, value :
        Reply("read-directory", status, value) => Abstract!Reply("read-directory", status, value)
  BY <1>1, SeenPlain
<1>4. UNCHANGED streams => SeenStreams' = SeenStreams
  BY <1>1, SeenSame
<1>5. CASE d.kind = "static" /\ ~IsDirectory(index, d.at)
  <2>1. Abstract!IsNode(o) /\ ~Abstract!IsDir(o[2])
    BY <1>1, <1>5, SeenDescriptor, SeenTree
  <2>2. SeenStreams' = SeenStreams /\ Abstract!Reply("read-directory", "not-directory", <<>>)
    BY <1>3, <1>4, <1>5 DEF ReadDirectory
  <2> HIDE DEF o
  <2> QED
    BY <1>1, <1>2, <2>1, <2>2
    DEF Abstract!OpenDirectory, SeenHeld, SeenStreams, SeenCall, SeenAnswer
<1>6. CASE /\ d.kind = "static" => IsDirectory(index, d.at)
           /\ streams' = [streams EXCEPT ![s] = DirStream(d)]
           /\ Reply("read-directory", "ok", <<>>)
  <2>1. ~Abstract!IsNode(o) \/ Abstract!IsDir(o[2])
    <3>1. CASE d.kind = "static"
      BY <1>1, <1>6, <3>1, SeenDescriptor, SeenTree
    <3>2. CASE d.kind = "host"
      BY <1>1, <3>2, SeenDescriptor
    <3> QED
      BY <1>1, <3>1, <3>2, DescriptorKinds
  <2>2. SeenStreams' = [SeenStreams EXCEPT ![s] = SeenStream(DirStream(d))]
    BY <1>1, <1>6, StreamMoved
  <2>3. SeenStreams' = [SeenStreams EXCEPT ![s] = [kind |-> "dir", of |-> o, pos |-> 0]]
    BY <1>1, <1>6, <2>2, DirSeen
  <2>4. Abstract!Reply("read-directory", "ok", <<>>)
    BY <1>3, <1>6
  <2> HIDE DEF o
  <2> QED
    BY <1>1, <1>2, <2>1, <2>3, <2>4
    DEF Abstract!OpenDirectory, SeenHeld, SeenStreams, SeenCall, SeenAnswer
<1>7. ASSUME NEW status \in {"host-error", "not-directory"}, d.kind = "host",
             UNCHANGED streams, Reply("read-directory", status, <<>>)
      PROVE  Abstract!OpenDirectory
  <2>1. ~Abstract!IsNode(o)
    BY <1>1, <1>7, SeenDescriptor
  <2>2. SeenStreams' = SeenStreams /\ Abstract!Reply("read-directory", status, <<>>)
    BY <1>3, <1>4, <1>7
  <2> HIDE DEF o
  <2>3. CASE status = "host-error"
    BY <1>1, <1>2, <2>1, <2>2, <2>3
    DEF Abstract!OpenDirectory, SeenHeld, SeenStreams, SeenCall, SeenAnswer
  <2>4. CASE status = "not-directory"
    BY <1>1, <1>2, <2>1, <2>2, <2>4
    DEF Abstract!OpenDirectory, SeenHeld, SeenStreams, SeenCall, SeenAnswer
  <2> QED
    BY <2>3, <2>4
<1> QED
  BY <1>5, <1>6, <1>7 DEF ReadDirectory, DirStream

\* The entry a cursor stands on is the child of that rank, until the last.
LEMMA REntry ==
  ASSUME TInv, NEW s \in Streams, streams[s].of.kind = "static",
         index[streams[s].of.at].ty = "dir", ReadDirectoryEntry(s)
  PROVE  LET o == ObjectOf(streams[s].of)
             listed == world.tree.children[o[2]]
             next == SeenStreams[s].pos + 1
         IN  /\ Abstract!IsNode(o)
             /\ IF next <= Len(listed)
                THEN /\ Abstract!Reply("entry", "ok", Abstract!NodeObject(listed[next]))
                     /\ SeenStreams' = [SeenStreams EXCEPT ![s].pos = next]
                ELSE /\ Abstract!Reply("entry", "end", <<>>)
                     /\ SeenStreams' = SeenStreams
<1> DEFINE k == streams[s].of.at
           pos == streams[s].pos
           first == ChildFirst(index, k)
           o == ObjectOf(streams[s].of)
           listed == world.tree.children[o[2]]
           n == Len(listed)
<1>1. UNCHANGED <<world, held>> /\ streams[s].kind = "dir" /\ world \in Worlds
  BY DEF ReadDirectoryEntry, TInv
<1>2. streams[s] # Idle
  BY <1>1 DEF Idle
<1>3. /\ streams[s].of \in Descriptor /\ pos \in Nat
      /\ SeenStreams[s].pos = SeenPos(streams[s])
  BY <1>2, StreamOpen, StreamFields
<1>4. Abstract!IsNode(o) /\ o[2] = origin[k] /\ k \in 1..Len(index)
  BY <1>3, SeenDescriptor
<1>5. index[k].ty = "dir"
  OBVIOUS
<1>6. /\ SliceInBounds(index, k) /\ first \in Nat /\ n \in Nat /\ ChildCount(index, k) = n
      /\ \A j \in 1..n : origin[first + j - 1] = listed[j]
  <2> DEFINE l == world.tree.children[origin[k]]
  <2>1. /\ SliceInBounds(index, k) /\ first \in Nat /\ Len(l) \in Nat
        /\ ChildCount(index, k) = Len(l)
        /\ \A j \in 1..Len(l) : origin[first + j - 1] = l[j]
    BY <1>1, <1>4, <1>5, ListedAt
  <2>2. listed = l
    BY <1>4
  <2> HIDE DEF listed, l, first
  <2> QED
    BY <2>1, <2>2
<1>7. /\ streams' = [streams EXCEPT ![s].pos = pos + 1]
      /\ IF pos < n THEN Reply("entry", "ok", first + pos) ELSE Reply("entry", "end", <<>>)
  <2>1. /\ streams' = [streams EXCEPT ![s].pos = @ + 1]
        /\ IF pos < ChildCount(index, k) THEN Reply("entry", "ok", first + pos)
           ELSE Reply("entry", "end", <<>>)
    BY <1>6 DEF ReadDirectoryEntry
  <2>2. streams' = [streams EXCEPT ![s].pos = pos + 1]
    BY <2>1
  <2> QED
    BY <1>6, <2>1, <2>2
<1>8. SeenPos(streams[s]) = IF pos > n THEN n ELSE pos
  BY <1>1, <1>5, <1>6 DEF SeenPos
<1>9. SeenStreams' = [SeenStreams EXCEPT ![s].pos = IF pos + 1 > n THEN n ELSE pos + 1]
  <2> DEFINE x == [streams[s] EXCEPT !.pos = pos + 1]
  <2>1. pos + 1 \in Nat
    BY <1>3
  <2>2. /\ x.kind = streams[s].kind /\ x.of = streams[s].of /\ x.pos = pos + 1
        /\ SeenStreams' = [SeenStreams EXCEPT ![s].pos = SeenPos(x)]
    BY <1>1, <1>2, <1>7, <2>1, PositionMoved
  <2> HIDE DEF x, n
  <2>3. SeenPos(x) = IF pos + 1 > n THEN n ELSE pos + 1
    BY <1>1, <1>5, <1>6, <2>2 DEF SeenPos
  <2> QED
    BY <2>2, <2>3
<1>10. CASE pos < n
  <2>1. SeenStreams[s].pos = pos
    <3> HIDE DEF n, pos
    <3> QED
      BY <1>3, <1>6, <1>8, <1>10
  <2>2. pos + 1 \in 1..n /\ ~(pos + 1 > n)
    <3> HIDE DEF n, pos
    <3> QED
      BY <1>3, <1>6, <1>10
  <2>3. SeenStreams' = [SeenStreams EXCEPT ![s].pos = pos + 1]
    BY <1>9, <2>2
  <2>4. Abstract!Reply("entry", "ok", Abstract!NodeObject(listed[pos + 1]))
    <3>1. Abstract!Reply("entry", "ok", <<"node", origin[first + pos]>>)
      <4>1. Reply("entry", "ok", first + pos)
        BY <1>7, <1>10
      <4>2. SeenValue("entry", "ok", first + pos) = <<"node", origin[first + pos]>>
        BY SeenValues
      <4> QED
        BY <1>1, <4>1, <4>2, SeenReply
    <3>2. origin[first + (pos + 1) - 1] = listed[pos + 1]
      <4> HIDE DEF n, listed, first, pos
      <4> QED
        BY <1>6, <2>2
    <3>3. first + (pos + 1) - 1 = first + pos
      <4> HIDE DEF first, pos
      <4> QED
        BY <1>3, <1>6
    <3> QED
      BY <3>1, <3>2, <3>3 DEF Abstract!NodeObject
  <2>5. pos + 1 <= n
    <3> HIDE DEF n, pos
    <3> QED
      BY <2>2
  <2> DEFINE next == SeenStreams[s].pos + 1
  <2>6. next = pos + 1
    BY <2>1
  <2>7. /\ Abstract!IsNode(o) /\ next <= n
        /\ Abstract!Reply("entry", "ok", Abstract!NodeObject(listed[next]))
        /\ SeenStreams' = [SeenStreams EXCEPT ![s].pos = next]
    BY <1>4, <2>3, <2>4, <2>5, <2>6
  <2> HIDE DEF next
  <2> QED
    BY <2>7, Zenon DEF next
<1>11. CASE ~(pos < n)
  <2>1. SeenStreams[s].pos = n /\ ~(n + 1 <= n)
    <3> HIDE DEF n, pos
    <3> QED
      BY <1>3, <1>6, <1>8, <1>11
  <2>2. (IF pos + 1 > n THEN n ELSE pos + 1) = n
    <3> HIDE DEF n, pos
    <3> QED
      BY <1>3, <1>6, <1>11
  <2>3. SeenStreams' = SeenStreams
    <3>1. SeenStreams' = [SeenStreams EXCEPT ![s].pos = n]
      BY <1>9, <2>2
    <3>2. SeenStreams = [r \in Streams |-> SeenStream(streams[r])]
      BY StreamsSeen
    <3>3. [SeenStream(streams[s]) EXCEPT !.pos = n] = SeenStream(streams[s])
      <4>1. SeenStream(streams[s]).pos = n
        BY <2>1, <3>2
      <4> HIDE DEF n
      <4> QED
        BY <4>1 DEF SeenStream
    <3> HIDE DEF n
    <3> QED
      BY <3>1, <3>2, <3>3
  <2>4. Abstract!Reply("entry", "end", <<>>)
    <3>1. Reply("entry", "end", <<>>)
      BY <1>7, <1>11
    <3>2. SeenValue("entry", "end", <<>>) = <<>>
      BY SeenValues
    <3> QED
      BY <1>1, <3>1, <3>2, SeenReply
  <2> DEFINE next == SeenStreams[s].pos + 1
  <2>5. next = n + 1
    BY <2>1
  <2>6. Abstract!IsNode(o) /\ ~(next <= n)
    BY <1>4, <2>1, <2>5
  <2> HIDE DEF next
  <2> QED
    BY <2>3, <2>4, <2>6, Zenon DEF next
<1> QED
  BY <1>10, <1>11

LEMMA RReadDirectoryEntry ==
  ASSUME TInv, NEW s \in Streams, ReadDirectoryEntry(s)
  PROVE  Abstract!NextEntry \/ Abstract!Panics
<1> DEFINE o == ObjectOf(streams[s].of)
<1>1. UNCHANGED <<world, held>> /\ streams[s].kind = "dir"
  BY DEF ReadDirectoryEntry
<1>2. streams[s] # Idle
  BY <1>1 DEF Idle
<1>3. /\ streams[s].of \in Descriptor
      /\ SeenStreams[s].kind = "dir" /\ SeenStreams[s].of = o
  BY <1>1, <1>2, StreamOpen
<1>4. SeenHeld' = SeenHeld /\ Abstract!Asks(<<>>, <<"stream", s>>)
  BY <1>1, SeenSame, SeenAsks DEF ReadDirectoryEntry
<1>5. CASE streams[s].of.kind = "host"
  <2>1. ~Abstract!IsNode(o)
    BY <1>3, <1>5, SeenDescriptor
  <2>2. Reply("entry", "host", <<>>) /\ UNCHANGED streams
    BY <1>5 DEF ReadDirectoryEntry
  <2>3. Abstract!Reply("entry", "host", <<>>) /\ SeenStreams' = SeenStreams
    BY <1>1, <2>2, SeenReply, SeenValues, SeenSame
  <2> HIDE DEF o
  <2> QED
    BY <1>1, <1>3, <1>4, <2>1, <2>3
    DEF Abstract!NextEntry, SeenHeld, SeenStreams, SeenCall, SeenAnswer
<1>7. CASE streams[s].of.kind = "static" /\ index[streams[s].of.at].ty # "dir"
  <2>1. Reply("entry", "trap", <<>>) /\ UNCHANGED streams
    BY <1>7 DEF ReadDirectoryEntry, SliceInBounds
  <2>2. Panicked
    BY <1>1, <2>1 DEF Reply, Panicked
  <2> QED
    BY <1>1, <2>1, <2>2, RPanics
<1>6. CASE streams[s].of.kind = "static" /\ index[streams[s].of.at].ty = "dir"
  <2> DEFINE listed == world.tree.children[o[2]]
             next == SeenStreams[s].pos + 1
  <2>1. /\ Abstract!IsNode(o)
        /\ IF next <= Len(listed)
           THEN /\ Abstract!Reply("entry", "ok", Abstract!NodeObject(listed[next]))
                /\ SeenStreams' = [SeenStreams EXCEPT ![s].pos = next]
           ELSE /\ Abstract!Reply("entry", "end", <<>>)
                /\ SeenStreams' = SeenStreams
    BY <1>6, REntry
  <2>2. listed = Abstract!tree.children[SeenStreams[s].of[2]]
    BY <1>3 DEF Abstract!tree
  <2> HIDE DEF o, listed
  <2> QED
    BY <1>1, <1>3, <1>4, <2>1, <2>2
    DEF Abstract!NextEntry, SeenHeld, SeenStreams, SeenCall, SeenAnswer
<1> QED
  BY <1>3, <1>5, <1>6, <1>7, DescriptorKinds

LEMMA RDropStream ==
  ASSUME TInv, NEW s \in Streams, DropStream(s)
  PROVE  Abstract!DropStream
<1>1. UNCHANGED <<world, held, call, answer>> /\ streams' = [streams EXCEPT ![s] = Idle]
  BY DEF DropStream
<1>2. SeenStreams' = [SeenStreams EXCEPT ![s] = [kind |-> "none", of |-> <<>>, pos |-> 0]]
  BY <1>1, StreamMoved, StreamsSeen
<1>3. SeenHeld' = SeenHeld /\ SeenCall' = SeenCall /\ SeenAnswer' = SeenAnswer
  BY <1>1, SeenSame
<1> QED
  BY <1>1, <1>2, <1>3
  DEF Abstract!DropStream, SeenHeld, SeenStreams, SeenCall, SeenAnswer

LEMMA RInit == Init => Abstract!Init
<1> SUFFICES ASSUME Init PROVE Abstract!Init
  OBVIOUS
<1>1. SeenHeld = {}
  BY DEF Init, SeenHeld
<1>2. SeenStreams = [s \in Streams |-> [kind |-> "none", of |-> <<>>, pos |-> 0]]
  <2>1. \A s \in Streams : streams[s] = Idle
    BY DEF Init
  <2> QED
    BY <2>1, StreamsSeen
<1>3. SeenAnswer = [op |-> "none", status |-> "ok", value |-> <<>>]
  <2>1. answer = [op |-> "none", status |-> "ok", value |-> <<>>]
    BY DEF Init
  <2>2. answer.op = "none" /\ answer.status = "ok" /\ answer.value = <<>>
    BY <2>1
  <2>3. "none" \notin PathOps \cup {"type"}
    BY DEF PathOps
  <2>4. ValueOf(answer) = <<>>
    BY <2>2, <2>3 DEF ValueOf
  <2> QED
    BY <2>2, <2>4 DEF SeenAnswer
<1>4. SeenCall = [on |-> <<>>, args |-> <<>>]
  <2>1. call.on = <<>> /\ call.args = <<>>
    BY DEF Init
  <2>2. [i \in 1..Len(<<>>) |-> ObjectOf(<<>>[i])] = <<>>
    OBVIOUS
  <2> QED
    BY <2>1, <2>2 DEF SeenCall
<1> QED
  BY <1>1, <1>2, <1>3, <1>4 DEF Abstract!Init, SeenHeld, SeenStreams, SeenCall, SeenAnswer

\* Every step of the adapter is one of VirtualFs, or none.
LEMMA StepRefines ==
  ASSUME GuestReads, HostLookups, TInv,
         \A s \in Streams : Within(s), [Next]_vars
  PROVE  [Abstract!Next]_(Abstract!vars)
<1>1. CASE GetDirectories
  <2>1. Abstract!GetDirectories
    BY <1>1, RGetDirectories
  <2> QED
    BY <2>1 DEF Abstract!Next
<1>2. ASSUME NEW d \in held, OnDescriptor(d)
      PROVE  Abstract!Next
  <2>1. CASE DropDescriptor(d)
    <3>1. Abstract!DropDescriptor
      BY <2>1, RDropDescriptor
    <3> QED
      BY <3>1 DEF Abstract!Next
  <2>2. ASSUME NEW op \in PathOps, NEW path \in Paths, AtPath(op, d, path)
        PROVE  Abstract!Next
    <3>1. /\ op \in {"open", "stat", "readlink", "hash"}
          /\ Abstract!AtPath(op) \/ Abstract!Panics
      BY <2>2, RAtPath DEF PathOps
    <3> QED
      BY <3>1 DEF Abstract!Next
  <2>3. ASSUME NEW op \in {"stat", "type", "hash"}, AtDescriptor(op, d)
        PROVE  Abstract!Next
    <3>1. Abstract!AtDescriptor(op) \/ Abstract!Panics
      BY <2>3, RAtDescriptor
    <3> QED
      BY <3>1 DEF Abstract!Next
  <2>4. ASSUME NEW e \in held, IsSameObject(d, e)
        PROVE  Abstract!Next
    <3>1. Abstract!IsSame
      BY <2>4, RIsSame
    <3> QED
      BY <3>1 DEF Abstract!Next
  <2>5. CASE Modify(d) \/ GetFlags(d)
    <3>1. Abstract!ReadOnly
      BY <2>5, RReadOnly
    <3> QED
      BY <3>1 DEF Abstract!Next
  <2>6. ASSUME NEW s \in Streams, NEW offset \in Offsets, ReadViaStream(s, d, offset)
        PROVE  Abstract!Next
    <3>1. Abstract!OpenStream
      BY <2>6, RReadViaStream
    <3> QED
      BY <3>1 DEF Abstract!Next
  <2>7. ASSUME NEW offset \in Offsets, NEW len \in Lens, ReadAt(d, offset, len)
        PROVE  Abstract!Next
    <3>1. Abstract!ReadAt \/ Abstract!Panics
      BY <2>7, RReadAt
    <3> QED
      BY <3>1 DEF Abstract!Next
  <2>8. ASSUME NEW s \in Streams, ReadDirectory(s, d)
        PROVE  Abstract!Next
    <3>1. Abstract!OpenDirectory
      BY <2>8, RReadDirectory
    <3> QED
      BY <3>1 DEF Abstract!Next
  <2>9. CASE Advise(d)
    <3>1. UNCHANGED <<world, streams>> /\ Panicked
      BY <2>9 DEF Advise, Reply, Panicked
    <3>2. Abstract!Panics
      BY <3>1, RPanics
    <3> QED
      BY <3>2 DEF Abstract!Next
  <2> QED
    BY <1>2, <2>1, <2>2, <2>3, <2>4, <2>5, <2>6, <2>7, <2>8, <2>9 DEF OnDescriptor
<1>3. ASSUME NEW s \in Streams, OnStream(s)
      PROVE  Abstract!Next
  <2>1. ASSUME NEW len \in Lens, ReadStream(s, len)
        PROVE  Abstract!Next
    <3>1. Abstract!ReadStream \/ Abstract!Panics
      BY <2>1, RReadStream
    <3> QED
      BY <3>1 DEF Abstract!Next
  <2>2. CASE ReadDirectoryEntry(s)
    <3>1. Abstract!NextEntry \/ Abstract!Panics
      BY <2>2, RReadDirectoryEntry
    <3> QED
      BY <3>1 DEF Abstract!Next
  <2>3. CASE DropStream(s)
    <3>1. Abstract!DropStream
      BY <2>3, RDropStream
    <3> QED
      BY <3>1 DEF Abstract!Next
  <2> QED
    BY <1>3, <2>1, <2>2, <2>3 DEF OnStream
<1>4. CASE UNCHANGED vars
  <2>1. UNCHANGED <<world, held, streams, call, answer>>
    BY <1>4 DEF vars
  <2>2. /\ SeenHeld' = SeenHeld /\ SeenStreams' = SeenStreams
        /\ SeenCall' = SeenCall /\ SeenAnswer' = SeenAnswer
    BY <2>1, SeenSame
  <2> QED
    BY <2>1, <2>2 DEF Abstract!vars, SeenHeld, SeenStreams, SeenCall, SeenAnswer
<1> QED
  BY <1>1, <1>2, <1>3, <1>4 DEF Next

\* The adapter behaves as the configured tree: whatever the index, as long as
\* it represents the tree, whatever the calls and however many, what a call is
\* answered is what VirtualFs allows on the object and with the path, the offset
\* and the length of that very call.
THEOREM BehavesAsTree ==
  ASSUME GuestReads, HostLookups
  PROVE  Spec => ImplementsVirtualFs
<1> DEFINE WithinInv == \A s \in Streams : Within(s)
<1>1. Init => WithinInv
  BY DEF Init, Within, Idle
<1>2. TInv /\ WithinInv /\ [Next]_vars => WithinInv'
  <2> SUFFICES ASSUME TInv, WithinInv, [Next]_vars, NEW s \in Streams
               PROVE  Within(s)'
    OBVIOUS
  <2> QED
    BY CallsAssumption, StepWithin
<1>3. TInv /\ WithinInv /\ [Next]_vars => [Abstract!Next]_(Abstract!vars)
  BY StepRefines
<1> HIDE DEF WithinInv
<1> QED
  BY <1>1, <1>2, <1>3, RInit, TypeCorrect, PTL
  DEF Spec, ImplementsVirtualFs, Abstract!Spec

=============================================================================

