---------------------------- MODULE StaticIndex ----------------------------
(***************************************************************************)
(* The static filesystem index shared by the two halves of WASI-Virt: the  *)
(* virtualizer writes it (FsIndex), the adapter inside the component reads *)
(* it (AdapterFs).  This module holds what the adapter computes from it,   *)
(* the methods of StaticIndexEntry, as operators on a whole index.         *)
(*                                                                         *)
(* An index is a sequence of entries [name, ty, data].  data is the union  *)
(* StaticFileData as the pair of words it is stored as:                    *)
(*   dir       <<child_offset, number of children>>                        *)
(*   active, passive  <<address or passive segment, length>>               *)
(*   rdir, rfile      <<host path, whatever the unset word holds>>         *)
(* An entry is named by its position, from 1; idx() is that minus one.     *)
(***************************************************************************)
EXTENDS Integers, Sequences

CONSTANT ByteOrder  (* the pairs of names of which the first is less *)

FileTypes == {"active", "passive", "rfile"}
DirTypes == {"dir", "rdir"}
RuntimeTypes == {"rdir", "rfile"}

(***************************************************************************)
(* Results.  A trap is a Rust panic: the component instance is gone.       *)
(***************************************************************************)
Ok(k) == [ok |-> TRUE, at |-> k, err |-> "none"]
Err(e) == [ok |-> FALSE, at |-> 0, err |-> e]
Trap == Err("trap")

IsDirectory(index, k) == index[k].ty \in DirTypes

(***************************************************************************)
(* child_list: the slice static_index[idx + offset .. idx + offset + len], *)
(* as the set of positions it covers.  A slice that leaves the index traps.*)
(* For a runtime directory the words are the address of the path and the   *)
(* unset one: an address in the data is greater than the number of entries,*)
(* so the slice leaves the index whatever the other word is.               *)
(***************************************************************************)
ChildFirst(index, k) == k + index[k].data[1]
ChildCount(index, k) == index[k].data[2]
SliceInBounds(index, k) ==
  /\ index[k].ty = "dir"
  /\ ChildFirst(index, k) + ChildCount(index, k) - 1 <= Len(index)

ChildPositions(index, k) ==
  ChildFirst(index, k) .. (ChildFirst(index, k) + ChildCount(index, k) - 1)

Sorted(index, k) ==
  \A c, d \in ChildPositions(index, k) :
    c < d => <<index[c].name, index[d].name>> \in ByteOrder

(***************************************************************************)
(* The binary search of dir_lookup: on a slice sorted by name it finds the *)
(* child of that name; on another one what it finds is not specified.      *)
(***************************************************************************)
Unspecified == Err("unspecified")

\* Mutant: where a name would be inserted is taken for where it was found.
ChildNamedNearest(index, k, name) ==
  LET from == {c \in ChildPositions(index, k) :
                 index[c].name = name \/ <<name, index[c].name>> \in ByteOrder}
  IN  IF ~Sorted(index, k) THEN Unspecified
      ELSE IF from = {} THEN Err("no-entry")
      ELSE Ok(CHOOSE c \in from : \A d \in from : c <= d)

ChildNamed(index, k, name) ==
  LET found == {c \in ChildPositions(index, k) : index[c].name = name}
  IN  IF ~Sorted(index, k) THEN Unspecified
      ELSE IF found = {} THEN Err("no-entry")
      ELSE Ok(CHOOSE c \in found : TRUE)

LookupChild(index, k, name) ==
  IF ~IsDirectory(index, k) THEN Err("not-directory")
  ELSE IF ~SliceInBounds(index, k) THEN Trap
  ELSE ChildNamed(index, k, name)

(***************************************************************************)
(* dir_lookup.  A path is the sequence of its parts between slashes, so an *)
(* empty part is a doubled, leading or trailing slash, and <<"">> is the   *)
(* empty path, on which the code asserts.  A part "." counts as the entry  *)
(* itself only at the end; a trailing slash is dropped after any entry.    *)
(***************************************************************************)
Empty == ""
Stays(part) == part \in {".", Empty}

Step(index, from, part, last) ==
  IF ~from.ok \/ (last /\ Stays(part)) THEN from
  ELSE LookupChild(index, from.at, part)

DirLookup(index, k, path) ==
  LET at[m \in 0..Len(path)] ==
        IF m = 0 THEN Ok(k)
        ELSE Step(index, at[m - 1], path[m], m = Len(path))
  IN  IF path = <<Empty>> THEN Trap ELSE at[Len(path)]

(***************************************************************************)
(* What the virtualizer owes the adapter: every directory's slice holds    *)
(* its children, in order.  origin says which entry of the configured tree *)
(* each position stands for, children what a directory there contains.     *)
(***************************************************************************)
ListsChildren(index, origin, children) ==
  \A p \in 1..Len(index) :
    index[p].ty = "dir" =>
      /\ SliceInBounds(index, p)
      /\ ChildCount(index, p) = Len(children[origin[p]])
      /\ \A c \in 1..Len(children[origin[p]]) :
           origin[ChildFirst(index, p) + c - 1] = children[origin[p]][c]

=============================================================================
