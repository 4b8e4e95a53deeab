------------------------------ MODULE FsIndex ------------------------------
(***************************************************************************)
(* How the virtualizer linearizes the virtual filesystem: create_io_virt   *)
(* walks every preopen breadth first (visit_bfs, visit_bfs_level of        *)
(* src/virt_io.rs) and pushes one static index entry per visit.  The entry *)
(* of a directory does not list its children: it stores how far ahead in   *)
(* the index they will start, a prediction made before they are visited,   *)
(* which child_offset tracks while a level is emitted.                     *)
(*                                                                         *)
(* Each loop of the code is unrolled to one action per iteration.          *)
(***************************************************************************)
EXTENDS StaticIndex

CONSTANTS
  Node,     (* the entries of the virtual filesystem                       *)
  Forests,  (* the virtual filesystems to linearize                        *)
  Paths     (* bound: the paths looked up in the finished index            *)

\* What an entry can be that the closure of visit_bfs is called for.
EntryTypes == FileTypes \cup DirTypes \cup {"symlink"}

(***************************************************************************)
(* A forest has its preopens and the children of every node in the order   *)
(* of their names (both are BTreeMaps); only directories have children.    *)
(***************************************************************************)
Forest(f) ==
  /\ f.preopens \in Seq(Node)
  /\ f.children \in [Node -> Seq(Node)]
  /\ f.ty \in [Node -> EntryTypes]
  /\ f.name \in [Node -> STRING]
  /\ \A n \in Node : f.ty[n] # "dir" => f.children[n] = <<>>

ASSUME ForestsAssumption == \A f \in Forests : Forest(f)

VARIABLES
  fs,                (* the filesystem being linearized                     *)
  pc,                (* "preopen", "count", "emit", "done" or "panicked"    *)
  visits,            (* the visits so far: [node, child_offset]             *)
  preopen_indices,   (* the position of each preopen's root                 *)
  children_of,       (* the parents of the level, in order                  *)
  next_children_of,  (* the entries of the level emitted so far             *)
  parent, child,     (* loop cursors in children_of and its children        *)
  child_offset       (* the offset the next visit is given                  *)

level == <<children_of, next_children_of, parent, child>>
vars == <<fs, pc, visits, preopen_indices, level, child_offset>>

Children(n) == fs.children[n]
Size(n) == Len(Children(n))

\* The static index entry pushed by a visit.  What the other types store is the
\* subject of DataSection.
EntryFor(v) ==
  [name |-> fs.name[v.node], ty |-> fs.ty[v.node],
   data |-> IF fs.ty[v.node] = "dir" THEN <<v.child_offset, Size(v.node)>>
            ELSE <<0, 0>>]

Index == [p \in 1..Len(visits) |-> EntryFor(visits[p])]

Origin == [p \in 1..Len(visits) |-> visits[p].node]

Visit(n, offset) ==
  visits' = Append(visits, [node |-> n, child_offset |-> offset])

\* Enter a level: its children are counted first.
BeginLevel(parents) ==
  /\ pc' = "count"
  /\ children_of' = parents
  /\ next_children_of' = <<>>
  /\ parent' = 1
  /\ child' = 1
  /\ child_offset' = 0

\* The next preopen: its root is visited with the offset 1, as the first level
\* comes right after it.
StartPreopen ==
  LET done == Len(preopen_indices)
      root == fs.preopens[done + 1]
  IN  /\ pc = "preopen"
      /\ done < Len(fs.preopens) /\ fs.ty[root] # "symlink"
      /\ preopen_indices' = Append(preopen_indices, Len(visits) + 1)
      /\ Visit(root, 1)
      /\ BeginLevel(<<root>>)
      /\ UNCHANGED fs

Complete ==
  /\ pc = "preopen"
  /\ Len(preopen_indices) = Len(fs.preopens)
  /\ pc' = "done"
  /\ UNCHANGED <<fs, visits, preopen_indices, level, child_offset>>

Counted(n) == Size(n)

\* The count loop over the parents of the level.
CountParent ==
  /\ pc = "count"
  /\ parent <= Len(children_of)
  /\ child_offset' = child_offset + Counted(children_of[parent])
  /\ parent' = parent + 1
  /\ UNCHANGED <<fs, pc, visits, preopen_indices, children_of,
                 next_children_of, child>>

CountDone ==
  /\ pc = "count"
  /\ parent > Len(children_of)
  /\ pc' = "emit"
  /\ parent' = 1
  /\ UNCHANGED <<fs, visits, preopen_indices, children_of, next_children_of,
                 child, child_offset>>

\* Mutant: the offset is lowered before the visit is given it.
OffsetEarly(n) == child_offset - 1
OffsetFor(n) == child_offset
AfterVisit(n) == child_offset - 1 + Size(n)

\* The emission loop: visit the next child of the current parent.
EmitChild ==
  /\ pc = "emit"
  /\ parent <= Len(children_of)
  /\ child <= Size(children_of[parent])
  /\ LET n == Children(children_of[parent])[child]
     IN  /\ fs.ty[n] # "symlink"
         /\ Visit(n, OffsetFor(n))
         /\ child_offset' = AfterVisit(n)
         /\ next_children_of' = Append(next_children_of, n)
  /\ child' = child + 1
  /\ UNCHANGED <<fs, pc, preopen_indices, children_of, parent>>

\* A symlink is still to be done: the closure panics when it is visited.
MeetSymlink ==
  /\ \/ /\ pc = "preopen" /\ Len(preopen_indices) < Len(fs.preopens)
        /\ fs.ty[fs.preopens[Len(preopen_indices) + 1]] = "symlink"
     \/ /\ pc = "emit" /\ parent <= Len(children_of)
        /\ child <= Size(children_of[parent])
        /\ fs.ty[Children(children_of[parent])[child]] = "symlink"
  /\ pc' = "panicked"
  /\ UNCHANGED <<fs, visits, preopen_indices, level, child_offset>>

NextParent ==
  /\ pc = "emit"
  /\ parent <= Len(children_of)
  /\ child > Size(children_of[parent])
  /\ parent' = parent + 1
  /\ child' = 1
  /\ UNCHANGED <<fs, pc, visits, preopen_indices, children_of,
                 next_children_of, child_offset>>

\* Mutant: an empty level is entered like any other.
LevelDoneAlways ==
  /\ pc = "emit"
  /\ parent > Len(children_of)
  /\ BeginLevel(next_children_of)
  /\ UNCHANGED <<fs, visits, preopen_indices>>

\* The level is finished: the entries it emitted are the next one's parents.
LevelDone ==
  /\ pc = "emit"
  /\ parent > Len(children_of)
  /\ IF Len(next_children_of) > 0
     THEN BeginLevel(next_children_of)
     ELSE pc' = "preopen" /\ UNCHANGED <<level, child_offset>>
  /\ UNCHANGED <<fs, visits, preopen_indices>>

Init ==
  /\ fs \in Forests
  /\ pc = "preopen"
  /\ visits = <<>>
  /\ preopen_indices = <<>>
  /\ children_of = <<>>
  /\ next_children_of = <<>>
  /\ parent = 1
  /\ child = 1
  /\ child_offset = 0

Next ==
  \/ StartPreopen
  \/ Complete
  \/ CountParent
  \/ CountDone
  \/ EmitChild
  \/ MeetSymlink
  \/ NextParent
  \/ LevelDone

Spec == Init /\ [][Next]_vars

-----------------------------------------------------------------------------
(***************************************************************************)
(* Properties.                                                             *)
(***************************************************************************)

\* The offset is a usize of the code, decremented at every visit: it never
\* goes below zero.
TypeOK ==
  /\ Forest(fs)
  /\ pc \in {"preopen", "count", "emit", "done", "panicked"}
  /\ visits \in Seq([node : Node, child_offset : Nat])
  /\ preopen_indices \in Seq(Nat \ {0})
  /\ children_of \in Seq(Node) /\ next_children_of \in Seq(Node)
  /\ parent \in Nat \ {0} /\ child \in Nat \ {0}
  /\ child_offset \in Nat

\* The slice that the adapter's child_list takes of a directory entry, with
\* the offset predicted before anything below it was visited, lies in the index
\* and holds the directory's children, in the order of their names.
ChildListsExact ==
  pc = "done" => ListsChildren(Index, Origin, fs.children)

\* The entries that a path of names leads to from a root: names are unique in a
\* directory, so there is one at most.
Named(n, name) ==
  {Children(n)[c] : c \in {d \in 1..Size(n) : fs.name[Children(n)[d]] = name}}

Reached(root, path) ==
  LET at[m \in 0..Len(path)] ==
        IF m = 0 THEN {root} ELSE UNION {Named(n, path[m]) : n \in at[m - 1]}
  IN  at[Len(path)]

\* Siblings are keys of one map, in their order; what has a host path has no
\* slice, on which child_list of a runtime directory traps.
PlainForest(f) ==
  \A n \in Node :
    /\ f.ty[n] # "rdir"
    /\ \A c, d \in 1..Len(f.children[n]) :
         LET one == f.name[f.children[n][c]]
             two == f.name[f.children[n][d]]
         IN  (one = two => c = d) /\ (c < d => <<one, two>> \in ByteOrder)

\* A path names something: its parts are what slashes separate.
PlainPath(path) ==
  /\ path \in Seq(STRING) /\ path # <<>>
  /\ \A m \in 1..Len(path) : ~Stays(path[m])

PlainLookups ==
  /\ \A f \in Forests : PlainForest(f)
  /\ \A path \in Paths : PlainPath(path)

\* The adapter's dir_lookup, on the index the virtualizer wrote, finds what the
\* configured tree has under that path from a preopen and nothing else; it
\* never traps, never searches names that are out of order, and a trailing slash
\* changes nothing.
LookupAgrees ==
  pc = "done" =>
    \A i \in 1..Len(preopen_indices), path \in Paths :
      LET found == DirLookup(Index, preopen_indices[i], path)
          reached == Reached(fs.preopens[i], path)
      IN  /\ found \notin {Trap, Unspecified}
          /\ reached = IF found.ok THEN {visits[found.at].node} ELSE {}
          /\ DirLookup(Index, preopen_indices[i], Append(path, Empty)) = found

=============================================================================
