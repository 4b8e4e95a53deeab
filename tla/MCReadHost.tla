----------------------------- MODULE MCReadHost -----------------------------
(***************************************************************************)
(* ReadHost, and FsIndex behind it, on three kinds of instances:           *)
(*   - every filesystem of five entries configured inline, and of four     *)
(*     with a symlink configured among them;                               *)
(*   - a preopen read from every host tree of four files and directories;  *)
(*   - small hosts with what a host may have besides: a cycle, a dangling  *)
(*     and a second link to a directory, a device, a name that is not      *)
(*     UTF-8; these change up to twice at any moment, and are read by a preopen,  *)
(*     by two that overlap, and by entries of an inline directory.         *)
(* Siblings are named by their rank, so that different directories contain *)
(* the same names.                                                         *)
(***************************************************************************)
EXTENDS ReadHost, FiniteSets

MCNames == <<"a", "b", "c", "d", "e", "?">>
MCByteOrder ==
  {<<MCNames[i], MCNames[j]>> : <<i, j>> \in {p \in (1..6) \X (1..6) : p[1] < p[2]}}
MCPreopens == <<"/", "/a", "/b", "/c", "/d">>
MCAt == [p \in Elements(MCPreopens) |->
           CASE p = "/" -> <<>> [] p = "/a" -> <<"a">> [] p = "/b" -> <<"b">>
             [] p = "/c" -> <<"c">> [] p = "/d" -> <<"d">>]

MCHostNode == 0..4

(***************************************************************************)
(* Trees of the numbers 1..k: up[n] is the parent of n, 0 at the top.      *)
(***************************************************************************)
Shapes(k) == {u \in [1..k -> 0..(k - 1)] : \A n \in 1..k : u[n] < n}
Below(up, n) == {m \in DOMAIN up : up[m] = n}
Rank(up, n) == Cardinality({m \in Below(up, up[n]) : m <= n})
Leaves(up) == {n \in DOMAIN up : Below(up, n) = {}}

\* The guest path of n: its preopen, then names.
GuestPath(up, n) ==
  LET path[m \in 0..n] ==
        IF m = 0 THEN <<>>
        ELSE IF up[m] = 0 THEN <<MCPreopens[Rank(up, m)]>>
        ELSE Append(path[up[m]], MCNames[Rank(up, m)])
  IN  path[n]

InlineTree(up, empty) ==
  [p \in {GuestPath(up, n) : n \in DOMAIN up} |->
     LET n == CHOOSE m \in DOMAIN up : GuestPath(up, m) = p
     IN  Inline(IF Below(up, n) # {} \/ n \in empty THEN "dir" ELSE "source")]

\* The host whose root is 1 and whose other nodes are under it.
HostTree(up, empty) ==
  [n \in MCHostNode |->
     IF n = 0 THEN [kind |-> "gone", entries |-> [x \in {} |-> 0]]
     ELSE [kind |-> IF n = 1 \/ Below(up, n) # {} \/ n \in empty THEN "dir" ELSE "file",
           entries |-> [x \in {MCNames[Rank(up, m)] : m \in Below(up, n)} |->
                          CHOOSE m \in Below(up, n) : MCNames[Rank(up, m)] = x]]]

\* A host of root, a directory, a file and a device, with the given entries.
Dir(entries) == [kind |-> "dir", entries |-> entries]
No == [x \in {} |-> 0]
One(x, n) == [y \in {x} |-> n]
Two(n, m) == [y \in {"a", "b"} |-> IF y = "a" THEN n ELSE m]
SmallHost(root, dir) ==
  [n \in MCHostNode |->
     CASE n = 0 -> [kind |-> "gone", entries |-> No]
       [] n = 1 -> Dir(root)
       [] n = 2 -> Dir(dir)
       [] n = 3 -> [kind |-> "file", entries |-> No]
       [] n = 4 -> [kind |-> "device", entries |-> No]]

SmallHosts ==
  {SmallHost(root, dir) :
     root \in {Two(2, 3), Two(2, 2), Two(3, 0), Two(2, 4), One("?", 3)},
     dir \in {One("a", 3), One("a", 1), One("b", 2), No}}

Slash == <<"/">>
Overlapping ==
  [n \in {<<"/">>, <<"/a">>} |->
     IF n = Slash THEN Virtualize(<<>>, FALSE) ELSE Virtualize(<<"b">>, FALSE)]
WithEntries ==
  [n \in {<<"/">>, <<"/", "a">>, <<"/", "b">>, <<"/", "b", "a">>} |->
     CASE n = Slash -> Inline("dir")
       [] n = <<"/", "a">> -> Virtualize(<<"a">>, FALSE)
       [] n = <<"/", "b">> -> Inline("dir")
       [] n = <<"/", "b", "a">> -> Virtualize(<<"b">>, FALSE)]
WholeHost == [n \in {<<"/">>} |-> Virtualize(<<>>, FALSE)]

MCSetups ==
  UNION {{[tree |-> InlineTree(up, empty), host |-> SmallHost(No, No), changes |-> 0] :
            empty \in SUBSET Leaves(up)} : up \in Shapes(5)}
  \cup UNION {{[tree |-> [InlineTree(up, {}) EXCEPT ![GuestPath(up, n)].ty = "symlink"],
                host |-> SmallHost(No, No), changes |-> 0] :
                 n \in Leaves(up)} : up \in Shapes(4)}
  \cup UNION {{[tree |-> WholeHost, host |-> HostTree(up, empty), changes |-> 0] :
                 empty \in SUBSET (Leaves(up) \ {1})} :
              up \in {u \in Shapes(4) : \A n \in 2..4 : u[n] # 0}}
  \cup {[tree |-> t, host |-> h, changes |-> 2] :
          t \in {WholeHost, Overlapping, WithEntries}, h \in SmallHosts}

\* The guest paths that these can have.
Ranked == UNION {{GuestPath(up, n) : n \in 1..5} : up \in Shapes(5)}
UpTo(depth) == UNION {[1..k -> {"a", "b", "c"}] : k \in 0..depth}
MCNode ==
  Ranked \cup {<<"/">> \o p : p \in UpTo(4)} \cup {<<"/a">> \o p : p \in UpTo(3)}
    \cup {<<"/", "b", "a">> \o p : p \in UpTo(3)}

Some == {"a", "b", "c"}
MCPaths ==
  {<<x>> : x \in Some} \cup (Some \X Some) \cup (Some \X {"a", "b"} \X {"a"})

(***************************************************************************)
(* What FsIndexProofs supposes of the filesystems and the paths.           *)
(***************************************************************************)
ASSUME MCPlainLookups == PlainLookups /\ PlainTrees

=============================================================================
