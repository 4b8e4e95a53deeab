---------------------------- MODULE FsIndexProofs ----------------------------
(***************************************************************************)
(* Proofs about FsIndex, for every forest: however deep and wide it is,    *)
(* the offsets predicted by visit_bfs_level designate the children, and a  *)
(* path looked up in the index is found as in the tree.  Then proofs about *)
(* ReadHost, which makes the forest: for every configuration and every     *)
(* host, whatever changes under it, what is read is what is there.         *)
(***************************************************************************)
EXTENDS ReadHost, SequenceTheorems, WellFoundedInduction, TLAPS

(***************************************************************************)
(* Where the children of the entry at a position start, and where they     *)
(* end, according to its offset.                                           *)
(***************************************************************************)
Count(p) == Size(visits[p].node)
Start(p) == p + visits[p].child_offset
End(p) == Start(p) + Count(p)

\* The first k children of the entry at p are where its offset says; if it has
\* none, the empty slice is still not beyond the end of the index.
InPlace(p, k) ==
  /\ Start(p) + k <= Len(visits) + 1
  /\ \A c \in 1..k :
       /\ Start(p) + c - 1 \in 1..Len(visits)
       /\ visits[Start(p) + c - 1].node = Children(visits[p].node)[c]

\* The last position before those of the parents of the level.
Base == Len(visits) - Len(next_children_of) - Len(children_of)

(***************************************************************************)
(* The parents of the level, then the entries it has emitted, are the last *)
(* positions of the index.  From one of them to the next the children      *)
(* follow on without a gap: this chain, and not a sum over the level, is   *)
(* what a visit can see.  Every earlier entry's children are in place.     *)
(***************************************************************************)
Chain ==
  /\ \A p \in (Base + 1)..(Len(visits) - 1) : Start(p + 1) = End(p)
  /\ \A p, q \in (Base + 1)..Len(visits) : p <= q => End(p) <= End(q)

LevelOK ==
  /\ Len(children_of) >= 1
  /\ Base >= 0
  /\ \A i \in 1..Len(children_of) : visits[Base + i].node = children_of[i]
  /\ \A j \in 1..Len(next_children_of) :
       visits[Base + Len(children_of) + j].node = next_children_of[j]
  /\ Chain
  /\ \A p \in 1..Base : InPlace(p, Count(p))
  /\ parent <= Len(children_of) + 1

\* While counting, the offset has reached the children of the next parent.
CountOK ==
  /\ Len(next_children_of) = 0
  /\ child = 1
  /\ Start(Base + 1) = Len(visits) + 1
  /\ parent <= Len(children_of) =>
       Len(visits) + 1 + child_offset = Start(Base + parent)
  /\ parent > Len(children_of) =>
       Len(visits) + 1 + child_offset = End(Len(visits))

\* While emitting, the next visit's children come after everyone else's, and
\* the visit itself comes where its parent expects it.
EmitOK ==
  /\ Len(visits) + 1 + child_offset = End(Len(visits))
  /\ \A p \in (Base + 1)..(Base + parent - 1) : InPlace(p, Count(p))
  /\ parent <= Len(children_of) =>
       /\ child <= Count(Base + parent) + 1
       /\ Len(visits) + 1 = Start(Base + parent) + child - 1
       /\ InPlace(Base + parent, child - 1)
  /\ parent > Len(children_of) =>
       /\ child = 1
       /\ Len(visits) + 1 = End(Base + Len(children_of))

IInv ==
  /\ TypeOK
  /\ pc \in {"count", "emit"} => LevelOK
  /\ pc = "count" => CountOK
  /\ pc = "emit" => EmitOK
  /\ pc \in {"preopen", "done"} =>
       \A p \in 1..Len(visits) : InPlace(p, Count(p))

-----------------------------------------------------------------------------
(***************************************************************************)
(* A visit only appends: what is known of the positions before it stays.   *)
(***************************************************************************)
VisitRecord == [node : Node, child_offset : Nat]

LEMMA Sizes ==
  ASSUME TypeOK, NEW x \in Node
  PROVE  /\ Children(x) \in Seq(Node)
         /\ Size(x) \in Nat
         /\ \A c \in 1..Size(x) : Children(x)[c] \in Node
<1>1. Children(x) \in Seq(Node)
  BY DEF TypeOK, Forest, Children
<1> QED
  BY <1>1 DEF Size

LEMMA Positions ==
  ASSUME TypeOK, NEW p \in 1..Len(visits)
  PROVE  /\ Len(visits) \in Nat
         /\ p \in Nat
         /\ visits[p].node \in Node
         /\ Start(p) \in Nat /\ Start(p) >= p
         /\ Count(p) \in Nat
         /\ End(p) \in Nat /\ End(p) = Start(p) + Count(p)
<1> DEFINE VR == VisitRecord
<1>1. visits[p] \in VR
  <2>1. visits \in Seq(VR)
    BY DEF TypeOK, VisitRecord
  <2> HIDE DEF VR
  <2> QED
    BY <2>1
<1>2. visits[p].node \in Node /\ visits[p].child_offset \in Nat
  BY <1>1 DEF VisitRecord
<1>3. Count(p) \in Nat
  BY <1>2, Sizes DEF Count
<1>4. Len(visits) \in Nat /\ p \in Nat
  BY DEF TypeOK
<1>5. Start(p) \in Nat /\ Start(p) >= p
  BY <1>2, <1>4 DEF Start
<1> QED
  BY <1>2, <1>3, <1>4, <1>5 DEF End

LEMMA VisitAppends ==
  ASSUME TypeOK, NEW x \in Node, NEW o \in Nat, Visit(x, o), UNCHANGED fs,
         NEW n \in Nat, n = Len(visits)
  PROVE  /\ visits' \in Seq(VisitRecord)
         /\ Len(visits') = n + 1
         /\ Start(n + 1)' = n + 1 + o
         /\ Count(n + 1)' = Size(x)
         /\ End(n + 1)' = n + 1 + o + Size(x)
         /\ visits'[n + 1].node = x
         /\ \A p \in 1..n : visits'[p] = visits[p]
<1> DEFINE v == [node |-> x, child_offset |-> o]
<1>1. v \in VisitRecord /\ v.node = x /\ v.child_offset = o
  BY DEF VisitRecord
<1>2. visits \in Seq(VisitRecord) /\ visits' = Append(visits, v)
  BY DEF TypeOK, VisitRecord, Visit
<1> HIDE DEF v
<1>3. /\ visits' \in Seq(VisitRecord)
      /\ Len(visits') = n + 1
      /\ \A p \in 1..n : visits'[p] = visits[p]
      /\ visits'[n + 1] = v
  BY <1>1, <1>2
<1>4. Start(n + 1)' = n + 1 + o
  BY <1>1, <1>3 DEF Start
<1>5. Count(n + 1)' = Size(x)
  BY <1>1, <1>3 DEF Count, Size, Children
<1> QED
  BY <1>1, <1>3, <1>4, <1>5 DEF End

LEMMA VisitKeeps ==
  ASSUME TypeOK, NEW x \in Node, NEW o \in Nat, Visit(x, o), UNCHANGED fs,
         NEW p \in 1..Len(visits)
  PROVE  /\ Start(p)' = Start(p)
         /\ Count(p)' = Count(p)
         /\ End(p)' = End(p)
         /\ \A k \in Nat : InPlace(p, k) => InPlace(p, k)'
<1>1. PICK n \in Nat : n = Len(visits)
  BY DEF TypeOK
<1>2. Len(visits') = n + 1 /\ \A q \in 1..n : visits'[q] = visits[q]
  BY <1>1, VisitAppends
<1>3. visits'[p] = visits[p]
  BY <1>1, <1>2
<1>4. Start(p)' = Start(p) /\ Count(p)' = Count(p)
  BY <1>3 DEF Start, Count, Size, Children
<1>5. ASSUME NEW k \in Nat, InPlace(p, k), NEW c \in 1..k
      PROVE  /\ (Start(p) + c - 1 \in 1..Len(visits))'
             /\ (visits[Start(p) + c - 1].node = Children(visits[p].node)[c])'
  <2> DEFINE q == Start(p) + c - 1
  <2>1. q \in 1..n /\ visits[q].node = Children(visits[p].node)[c]
    BY <1>1, <1>5 DEF InPlace
  <2>2. q' = q
    BY <1>4
  <2>3. q \in 1..(n + 1) /\ visits'[q] = visits[q]
    BY <1>2, <2>1
  <2>4. Children(visits[p].node)' = Children(visits[p].node)
    BY <1>3 DEF Children
  <2> QED
    BY <1>2, <2>1, <2>2, <2>3, <2>4
<1>6. ASSUME NEW k \in Nat, Start(p) + k <= n + 1
      PROVE  Start(p)' + k <= Len(visits') + 1
  BY <1>1, <1>2, <1>4, <1>6, Positions
<1>7. \A k \in Nat : InPlace(p, k) => InPlace(p, k)'
  BY <1>1, <1>5, <1>6 DEF InPlace
<1> QED
  BY <1>4, <1>7 DEF End

LEMMA NoVisit ==
  ASSUME UNCHANGED <<fs, visits>>, NEW p
  PROVE  /\ Start(p)' = Start(p)
         /\ Count(p)' = Count(p)
         /\ End(p)' = End(p)
         /\ \A k : InPlace(p, k)' <=> InPlace(p, k)
<1>1. Start(p)' = Start(p)
  BY DEF Start
<1>2. Count(p)' = Count(p)
  BY DEF Count, Size, Children
<1> QED
  BY <1>1, <1>2 DEF End, InPlace, Children

LEMMA NoneListed ==
  ASSUME NEW p, Len(visits) \in Nat, Start(p) = Len(visits) + 1
  PROVE  InPlace(p, 0)
BY DEF InPlace

\* Where the parents of the level are, and what they count.
LEMMA Parents ==
  ASSUME TypeOK, LevelOK, NEW i \in 1..Len(children_of)
  PROVE  /\ Base \in Nat /\ Len(children_of) \in Nat /\ i \in Nat
         /\ Len(next_children_of) \in Nat
         /\ Len(visits) = Base + Len(children_of) + Len(next_children_of)
         /\ Base + i \in 1..Len(visits)
         /\ Base + i \in (Base + 1)..Len(visits)
         /\ children_of[i] \in Node
         /\ visits[Base + i].node = children_of[i]
         /\ Count(Base + i) = Size(children_of[i])
<1>1. /\ Base \in Nat /\ Len(children_of) \in Nat /\ i \in Nat
      /\ Len(next_children_of) \in Nat
      /\ Len(visits) = Base + Len(children_of) + Len(next_children_of)
  BY SMTT(30) DEF TypeOK, LevelOK, Base
<1>2. children_of[i] \in Node
  BY DEF TypeOK
<1>3. visits[Base + i].node = children_of[i]
  BY DEF LevelOK
<1> QED
  BY <1>1, <1>2, <1>3 DEF Count

-----------------------------------------------------------------------------
(***************************************************************************)
(* The inductive invariant, one action at a time.                          *)
(***************************************************************************)
Starting ==
  /\ Forest(fs) /\ pc = "preopen"
  /\ visits = <<>> /\ preopen_indices = <<>>
  /\ children_of = <<>> /\ next_children_of = <<>>
  /\ parent = 1 /\ child = 1 /\ child_offset = 0

LEMMA StartingIInv == Starting => IInv
<1> SUFFICES ASSUME Starting PROVE IInv
  OBVIOUS
<1>1. TypeOK
  BY DEF Starting, TypeOK
<1>2. pc = "preopen" /\ Len(visits) = 0
  BY DEF Starting
<1> QED
  BY <1>1, <1>2 DEF IInv

LEMMA InitStarts == Init => Starting
BY ForestsAssumption DEF Init, Starting

LEMMA CompleteStep == IInv /\ Complete => IInv'
<1> SUFFICES ASSUME IInv, Complete PROVE IInv'
  OBVIOUS
<1>1. TypeOK'
  BY DEF IInv, TypeOK, Complete, level
<1>2. \A p \in 1..Len(visits) : InPlace(p, Count(p))
  BY DEF IInv, Complete
<1>3. \A p \in 1..Len(visits') : (InPlace(p, Count(p)))'
  BY <1>2 DEF Complete, InPlace, Count, Start, Size, Children
<1> QED
  BY <1>1, <1>3 DEF IInv, Complete

LEMMA CountParentStep == IInv /\ CountParent => IInv'
<1> SUFFICES ASSUME IInv, CountParent PROVE IInv'
  OBVIOUS
<1> USE DEF Counted
<1>1. TypeOK /\ LevelOK /\ CountOK /\ parent \in 1..Len(children_of)
  BY DEF IInv, CountParent, TypeOK
<1>2. Size(children_of[parent]) \in Nat
  BY <1>1, Parents, Sizes
<1>3. TypeOK'
  BY <1>1, <1>2 DEF CountParent, TypeOK
<1>4. UNCHANGED <<fs, visits>> /\ Base' = Base
  BY DEF CountParent, Base
<1>5. LevelOK'
  BY <1>1, <1>4, NoVisit DEF LevelOK, Chain, CountParent, TypeOK, Base, InPlace,
     Start, Count, End, Size, Children
<1>6. Len(visits) + 1 + child_offset' = End(Base + parent)
  <2>1. Len(visits) + 1 + child_offset = Start(Base + parent)
    BY <1>1 DEF CountOK
  <2>2. /\ Base + parent \in 1..Len(visits)
        /\ Count(Base + parent) = Size(children_of[parent])
    BY <1>1, Parents
  <2>3. /\ Len(visits) \in Nat
        /\ Start(Base + parent) \in Nat
        /\ End(Base + parent) = Start(Base + parent) + Count(Base + parent)
    BY <1>1, <2>2, Positions
  <2>4. child_offset \in Nat /\ child_offset' = child_offset + Size(children_of[parent])
    BY <1>1 DEF CountParent, TypeOK
  <2> QED
    BY <1>2, <2>1, <2>2, <2>3, <2>4
<1>7. CASE parent < Len(children_of)
  <2>1. End(Base + parent) = Start(Base + parent + 1)
    <3>1. Base + parent \in (Base + 1)..(Len(visits) - 1)
      BY <1>1, <1>7, Parents
    <3> QED
      BY <1>1, <3>1 DEF LevelOK, Chain
  <2>2. Base + parent + 1 = Base + (parent + 1)
    BY <1>1, Parents
  <2>3. CountOK'
    <3>1. Len(visits) + 1 + child_offset' = Start(Base + (parent + 1))
      BY <1>6, <2>1, <2>2
    <3>2. (Start(Base + 1) = Len(visits) + 1)'
      BY <1>1, <1>4 DEF CountOK, Start
    <3>3. (Len(visits) + 1 + child_offset = Start(Base + parent))'
      BY <1>4, <3>1 DEF CountParent, Start
    <3> QED
      BY <1>1, <1>7, <3>2, <3>3 DEF CountOK, CountParent, TypeOK
  <2> QED
    BY <1>3, <1>5, <2>3 DEF IInv, CountParent
<1>8. CASE parent = Len(children_of)
  <2>1. Base + parent = Len(visits)
    BY <1>1, <1>8, Parents DEF CountOK
  <2>2. CountOK'
    <3>1. Len(visits) + 1 + child_offset' = End(Len(visits))
      BY <1>6, <2>1
    <3>2. (Start(Base + 1) = Len(visits) + 1)'
      BY <1>1, <1>4 DEF CountOK, Start
    <3>3. (Len(visits) + 1 + child_offset = End(Len(visits)))'
      BY <1>4, <3>1 DEF End, Start, Count, Size, Children
    <3> QED
      BY <1>1, <1>8, <3>2, <3>3 DEF CountOK, CountParent, TypeOK
  <2> QED
    BY <1>3, <1>5, <2>2 DEF IInv, CountParent
<1> QED
  BY <1>1, <1>7, <1>8 DEF TypeOK

LEMMA CountDoneStep == IInv /\ CountDone => IInv'
<1> SUFFICES ASSUME IInv, CountDone PROVE IInv'
  OBVIOUS
<1>1. TypeOK /\ LevelOK /\ CountOK /\ parent > Len(children_of)
  BY DEF IInv, CountDone
<1>2. 1 \in 1..Len(children_of)
  BY <1>1 DEF TypeOK, LevelOK
<1>3. TypeOK'
  BY <1>1 DEF CountDone, TypeOK
<1>4. UNCHANGED <<fs, visits>> /\ Base' = Base /\ parent' = 1
  BY DEF CountDone, Base
<1>5. LevelOK'
  <2>1. UNCHANGED <<children_of, next_children_of>>
    BY DEF CountDone
  <2>2. (\A p : Start(p)' = Start(p) /\ End(p)' = End(p)) /\ (\A p : Count(p)' = Count(p))
    BY <1>4 DEF Start, End, Count, Size, Children
  <2>3. \A p, k : InPlace(p, k)' <=> InPlace(p, k)
    BY <1>4 DEF InPlace, Start, Children
  <2>4. Chain'
    BY <1>1, <1>4, <2>2 DEF LevelOK, Chain
  <2>5. 1 <= Len(children_of) + 1
    BY <1>1 DEF LevelOK
  <2>6. (\A p \in 1..Base : InPlace(p, Count(p)))'
    BY <1>1, <1>4, <2>2, <2>3 DEF LevelOK
  <2> QED
    BY <1>1, <1>4, <2>1, <2>4, <2>5, <2>6 DEF LevelOK
<1>6. Len(visits) + 1 + child_offset = End(Len(visits))
  BY <1>1 DEF CountOK
<1>7. Base + 1 \in 1..Len(visits) /\ Start(Base + 1) = Len(visits) + 1
  BY <1>1, <1>2, Parents DEF CountOK
<1>8. Count(Base + 1) \in Nat /\ Base \in Nat /\ Len(visits) \in Nat
  BY <1>1, <1>2, <1>7, Positions, Parents
<1>9. EmitOK'
  <2>1. (Len(visits) + 1 + child_offset = End(Len(visits)))'
    BY <1>4, <1>6 DEF CountDone, End, Start, Count, Size, Children
  <2>2. (Base + 1)..(Base + 1 - 1) = {}
    BY <1>8
  <2>3. (\A p \in (Base + 1)..(Base + parent - 1) : InPlace(p, Count(p)))'
    BY <1>4, <2>2
  <2>4. child = 1 /\ child' = 1
    BY <1>1 DEF CountOK, CountDone
  <2>5. /\ 1 <= Count(Base + 1) + 1
        /\ Len(visits) + 1 = Start(Base + 1) + 1 - 1
        /\ InPlace(Base + 1, 1 - 1)
    BY <1>7, <1>8, NoneListed
  <2>6. (/\ 1 <= Count(Base + 1) + 1
         /\ Len(visits) + 1 = Start(Base + 1) + 1 - 1
         /\ InPlace(Base + 1, 1 - 1))'
    BY <1>4, <2>5 DEF Start, Count, Size, Children, InPlace
  <2> QED
    BY <1>2, <1>4, <2>1, <2>3, <2>4, <2>6 DEF EmitOK, CountDone
<1> QED
  BY <1>3, <1>5, <1>9 DEF IInv, CountDone

LEMMA StartPreopenStep == IInv /\ StartPreopen => IInv'
<1> SUFFICES ASSUME IInv, StartPreopen PROVE IInv'
  OBVIOUS
<1> DEFINE root == fs.preopens[Len(preopen_indices) + 1]
<1>1. TypeOK /\ \A p \in 1..Len(visits) : InPlace(p, Count(p))
  BY DEF IInv, StartPreopen
<1>2. root \in Node
  BY <1>1 DEF TypeOK, Forest, StartPreopen
<1>3. PICK n \in Nat : n = Len(visits)
  BY <1>1 DEF TypeOK
<1>4. Visit(root, 1) /\ UNCHANGED fs
  BY DEF StartPreopen
<1>5. /\ visits' \in Seq(VisitRecord)
      /\ Len(visits') = n + 1
      /\ Start(n + 1)' = n + 1 + 1
      /\ End(n + 1)' = n + 1 + 1 + Size(root)
      /\ visits'[n + 1].node = root
  <2> HIDE DEF root
  <2>1. 1 \in Nat
    OBVIOUS
  <2> QED
    BY <1>1, <1>2, <1>3, <1>4, <2>1, VisitAppends
<1>6. TypeOK'
  <2>1. preopen_indices' \in Seq(Nat \ {0})
    <3>1. Len(visits) + 1 \in Nat \ {0}
      BY <1>3
    <3> QED
      BY <1>1, <3>1 DEF TypeOK, StartPreopen
  <2>2. children_of' \in Seq(Node)
    BY <1>2 DEF StartPreopen, BeginLevel
  <2> QED
    BY <1>1, <1>5, <2>1, <2>2
    DEF TypeOK, StartPreopen, BeginLevel, VisitRecord
<1>7. /\ Len(children_of') = 1 /\ children_of'[1] = root
      /\ Len(next_children_of') = 0
      /\ parent' = 1 /\ child' = 1 /\ child_offset' = 0
      /\ pc' = "count"
  BY DEF StartPreopen, BeginLevel
<1>8. Base' = n
  BY <1>5, <1>7 DEF Base
<1>9. \A p \in 1..n : InPlace(p, Count(p))'
  <2> TAKE p \in 1..n
  <2>1. p \in 1..Len(visits)
    BY <1>3
  <2>2. Count(p) \in Nat
    BY <1>1, <2>1, Positions
  <2> QED
    BY <1>1, <1>2, <1>4, <2>1, <2>2, VisitKeeps
<1>10. End(n + 1)' \in Nat
  BY <1>1, <1>2, <1>5, Sizes
<1>11. LevelOK'
  <2>1. Chain'
    BY <1>5, <1>8, <1>10 DEF Chain
  <2>2. (\A p \in 1..Base : InPlace(p, Count(p)))'
    BY <1>8, <1>9
  <2> QED
    BY <1>3, <1>5, <1>7, <1>8, <2>1, <2>2 DEF LevelOK
<1>12. CountOK'
  BY <1>5, <1>7, <1>8 DEF CountOK
<1> QED
  BY <1>6, <1>7, <1>11, <1>12 DEF IInv

LEMMA NextParentStep == IInv /\ NextParent => IInv'
<1> SUFFICES ASSUME IInv, NextParent PROVE IInv'
  OBVIOUS
<1>1. TypeOK /\ LevelOK /\ EmitOK /\ parent \in 1..Len(children_of)
  BY DEF IInv, NextParent, TypeOK
<1>2. TypeOK'
  BY <1>1 DEF NextParent, TypeOK
<1>3. UNCHANGED <<fs, visits>> /\ Base' = Base
  BY DEF NextParent, Base
<1>4. LevelOK'
  <2>1. UNCHANGED <<children_of, next_children_of>> /\ parent' = parent + 1
    BY DEF NextParent
  <2>2. Chain'
    BY <1>1, <1>3 DEF LevelOK, Chain, Start, Count, End, Size, Children
  <2>3. (\A p \in 1..Base : InPlace(p, Count(p)))'
    BY <1>1, <1>3 DEF LevelOK, InPlace, Start, Count, Size, Children
  <2>4. parent' <= Len(children_of') + 1
    BY <1>1, <2>1
  <2> QED
    BY <1>1, <1>3, <2>1, <2>2, <2>3, <2>4 DEF LevelOK
<1> DEFINE at == Base + parent
<1>5. /\ at \in 1..Len(visits) /\ at \in (Base + 1)..Len(visits)
      /\ Count(at) = Size(children_of[parent])
      /\ Base \in Nat /\ parent \in Nat
      /\ Len(visits) = Base + Len(children_of) + Len(next_children_of)
      /\ Len(children_of) \in Nat /\ Len(next_children_of) \in Nat
  BY <1>1, Parents
<1>6. /\ Count(at) \in Nat /\ Start(at) \in Nat
      /\ End(at) = Start(at) + Count(at)
  BY <1>1, <1>5, Positions
<1>7. child - 1 = Count(at) /\ InPlace(at, child - 1)
  <2>1. child <= Count(at) + 1 /\ InPlace(at, child - 1)
    BY <1>1, <1>5 DEF EmitOK
  <2>2. child > Count(at) /\ child \in Nat
    BY <1>1, <1>5 DEF NextParent, TypeOK
  <2> QED
    BY <1>6, <2>1, <2>2
<1>8. Len(visits) + 1 = End(at)
  BY <1>1, <1>6, <1>7 DEF EmitOK
<1>9. \A p \in (Base + 1)..at : InPlace(p, Count(p))
  <2> SUFFICES ASSUME NEW p \in (Base + 1)..at PROVE InPlace(p, Count(p))
    OBVIOUS
  <2>1. CASE p = at
    BY <1>7, <2>1
  <2>2. CASE p # at
    <3>1. p \in (Base + 1)..(Base + parent - 1)
      BY <1>5, <2>2
    <3> QED
      BY <1>1, <3>1 DEF EmitOK
  <2> QED
    BY <2>1, <2>2
<1>10. (\A p \in (Base + 1)..(Base + parent - 1) : InPlace(p, Count(p)))'
  <2>1. (Base + parent - 1)' = at
    BY <1>3, <1>5 DEF NextParent
  <2>2. \A p \in (Base + 1)..at : InPlace(p, Count(p))'
    BY <1>3, <1>9 DEF InPlace, Start, Count, Size, Children
  <2> QED
    BY <1>3, <2>1, <2>2
<1>11. (Len(visits) + 1 + child_offset = End(Len(visits)))'
  BY <1>1, <1>3 DEF EmitOK, NextParent, End, Start, Count, Size, Children
<1>12. EmitOK'
  <2>1. CASE parent < Len(children_of)
    <3>1. at \in (Base + 1)..(Len(visits) - 1)
      BY <1>5, <2>1
    <3>2. Start(at + 1) = Len(visits) + 1
      BY <1>1, <1>8, <3>1 DEF LevelOK, Chain
    <3>3. at + 1 \in 1..Len(visits) /\ Base + (parent + 1) = at + 1
      BY <1>5, <2>1
    <3>4. Count(at + 1) \in Nat /\ Len(visits) \in Nat
      BY <1>1, <3>3, Positions
    <3>5. /\ 1 <= Count(at + 1) + 1
          /\ Len(visits) + 1 = Start(at + 1) + 1 - 1
          /\ InPlace(at + 1, 1 - 1)
      BY <3>2, <3>4, NoneListed
    <3>6. (Base + parent)' = at + 1
      BY <1>3, <3>3 DEF NextParent
    <3>7. child' = 1 /\ ~(parent' > Len(children_of'))
      BY <1>5, <2>1 DEF NextParent
    <3>8. (/\ child <= Count(Base + parent) + 1
           /\ Len(visits) + 1 = Start(Base + parent) + child - 1
           /\ InPlace(Base + parent, child - 1))'
      BY <1>3, <3>5, <3>6, <3>7 DEF Start, Count, Size, Children, InPlace
    <3> QED
      BY <1>5, <1>10, <1>11, <3>7, <3>8 DEF EmitOK
  <2>2. CASE parent = Len(children_of)
    <3>1. (Len(visits) + 1 = End(Base + Len(children_of)))'
      BY <1>3, <1>8, <2>2 DEF NextParent, End, Start, Count, Size, Children
    <3>2. child' = 1 /\ ~(parent' <= Len(children_of'))
      BY <1>5, <2>2 DEF NextParent
    <3> QED
      BY <1>10, <1>11, <3>1, <3>2 DEF EmitOK
  <2> QED
    BY <1>1, <1>5, <2>1, <2>2
<1> QED
  BY <1>2, <1>4, <1>12 DEF IInv, NextParent

LEMMA LevelDoneStep == IInv /\ LevelDone => IInv'
<1> SUFFICES ASSUME IInv, LevelDone PROVE IInv'
  OBVIOUS
<1> DEFINE last == Base + Len(children_of)
<1>1. /\ TypeOK /\ LevelOK /\ EmitOK
      /\ parent = Len(children_of) + 1
  BY DEF IInv, LevelDone, TypeOK, LevelOK
<1>2. 1 \in 1..Len(children_of) /\ Len(children_of) \in 1..Len(children_of)
  BY <1>1 DEF TypeOK, LevelOK
<1>3. /\ Base \in Nat /\ Len(children_of) \in Nat
      /\ Len(next_children_of) \in Nat
      /\ Len(visits) = last + Len(next_children_of)
      /\ last \in 1..Len(visits)
  BY <1>1, <1>2, Parents
<1>4. \A p \in 1..last : InPlace(p, Count(p))
  <2> SUFFICES ASSUME NEW p \in 1..last PROVE InPlace(p, Count(p))
    OBVIOUS
  <2>1. CASE p \in 1..Base
    BY <1>1, <2>1 DEF LevelOK
  <2>2. CASE p \in (Base + 1)..(Base + parent - 1)
    BY <1>1, <2>2 DEF EmitOK
  <2> QED
    BY <1>1, <1>3, <2>1, <2>2
<1>5. UNCHANGED <<fs, visits>>
  BY DEF LevelDone
<1>6. CASE Len(next_children_of) > 0
  <2>1. BeginLevel(next_children_of)
    BY <1>6 DEF LevelDone
  <2>2. TypeOK'
    BY <1>1, <1>5, <2>1 DEF TypeOK, LevelDone, BeginLevel
  <2>3. Base' = last /\ Len(children_of') = Len(next_children_of)
    BY <1>3, <1>5, <2>1 DEF Base, BeginLevel
  <2>4. Chain'
    <3>1. \A p \in (last + 1)..(Len(visits) - 1) : Start(p + 1) = End(p)
      BY <1>1, <1>3 DEF LevelOK, Chain
    <3>2. \A p, q \in (last + 1)..Len(visits) : p <= q => End(p) <= End(q)
      BY <1>1, <1>3 DEF LevelOK, Chain
    <3> QED
      BY <1>5, <2>3, <3>1, <3>2 DEF Chain, Start, End, Count, Size, Children
  <2>5. LevelOK'
    <3>1. \A j \in 1..Len(next_children_of) :
            visits[last + j].node = next_children_of[j]
      BY <1>1 DEF LevelOK
    <3>2. (\A p \in 1..Base : InPlace(p, Count(p)))'
      BY <1>4, <1>5, <2>3 DEF InPlace, Start, Count, Size, Children
    <3> QED
      BY <1>3, <1>5, <1>6, <2>1, <2>3, <2>4, <3>1, <3>2
      DEF LevelOK, BeginLevel
  <2>6. Start(last + 1) = Len(visits) + 1
    <3>1. last \in (Base + 1)..(Len(visits) - 1)
      BY <1>1, <1>3, <1>6 DEF LevelOK
    <3>2. Len(visits) + 1 = End(last)
      BY <1>1 DEF EmitOK
    <3> QED
      BY <1>1, <3>1, <3>2 DEF LevelOK, Chain
  <2>7. (Start(Base + 1) = Len(visits) + 1)'
    BY <1>5, <2>3, <2>6 DEF Start
  <2>8. CountOK'
    BY <1>3, <1>5, <1>6, <2>1, <2>3, <2>7 DEF CountOK, BeginLevel
  <2> QED
    BY <2>1, <2>2, <2>5, <2>8 DEF IInv, BeginLevel
<1>7. CASE ~(Len(next_children_of) > 0)
  <2>1. TypeOK' /\ pc' = "preopen"
    BY <1>1, <1>5, <1>7 DEF TypeOK, LevelDone, level
  <2>2. last = Len(visits)
    BY <1>3, <1>7
  <2>3. (\A p \in 1..Len(visits) : InPlace(p, Count(p)))'
    BY <1>4, <1>5, <2>2 DEF InPlace, Start, Count, Size, Children
  <2> QED
    BY <2>1, <2>3 DEF IInv
<1> QED
  BY <1>6, <1>7

\* A visit of a level: the chain of its offsets grows by one link.
LEMMA ChainGrows ==
  ASSUME TypeOK, LevelOK, EmitOK, NEW x \in Node, Visit(x, child_offset),
         UNCHANGED fs, NEW n \in Nat, n = Len(visits),
         NEW b \in Nat, b = Base
  PROVE  /\ \A p \in (b + 1)..n : Start(p + 1)' = End(p)'
         /\ \A p, q \in (b + 1)..(n + 1) : p <= q => End(p)' <= End(q)'
<1>1. child_offset \in Nat /\ n \in 1..Len(visits) /\ n \in (b + 1)..n
  <2>1. 1 \in 1..Len(children_of)
    BY DEF TypeOK, LevelOK
  <2> QED
    BY <2>1, Parents DEF TypeOK
<1>2. \A p \in 1..n : Start(p)' = Start(p) /\ End(p)' = End(p)
  BY <1>1, VisitKeeps
<1>3. /\ Start(n + 1)' = n + 1 + child_offset
      /\ End(n + 1)' = n + 1 + child_offset + Size(x)
  BY <1>1, VisitAppends, ZenonT(60)
<1>4. Size(x) \in Nat
  BY Sizes
<1>5. End(n) = n + 1 + child_offset
  BY DEF EmitOK
<1>6. \A p \in (b + 1)..n : Start(p + 1)' = End(p)'
  <2> SUFFICES ASSUME NEW p \in (b + 1)..n PROVE Start(p + 1)' = End(p)'
    OBVIOUS
  <2>1. CASE p = n
    BY <1>1, <1>2, <1>3, <1>5, <2>1
  <2>2. CASE p # n
    <3>1. p \in (b + 1)..(n - 1) /\ p \in 1..n /\ p + 1 \in 1..n
      BY <2>2
    <3> QED
      BY <1>2, <3>1 DEF LevelOK, Chain
  <2> QED
    BY <2>1, <2>2
<1>7. ASSUME NEW p \in (b + 1)..(n + 1), NEW q \in (b + 1)..(n + 1), p <= q
      PROVE  End(p)' <= End(q)'
  <2>1. CASE q <= n
    <3>1. p \in (b + 1)..n /\ q \in (b + 1)..n /\ p \in 1..n /\ q \in 1..n
      BY <1>7, <2>1
    <3> QED
      BY <1>2, <1>7, <3>1 DEF LevelOK, Chain
  <2>2. CASE q = n + 1 /\ p <= n
    <3>1. p \in (b + 1)..n /\ p \in 1..n
      BY <2>2
    <3>2. End(p) <= End(n)
      BY <1>1, <3>1 DEF LevelOK, Chain
    <3>3. End(p) \in Nat
      BY <3>1, Positions
    <3> QED
      BY <1>1, <1>2, <1>3, <1>4, <1>5, <2>2, <3>1, <3>2, <3>3
  <2>3. CASE q = n + 1 /\ p = n + 1
    BY <1>1, <1>3, <1>4, <2>3
  <2> QED
    BY <1>7, <2>1, <2>2, <2>3
<1> QED
  BY <1>6, <1>7

LEMMA EmitChildStep == IInv /\ EmitChild => IInv'
<1> SUFFICES ASSUME IInv, EmitChild PROVE IInv'
  OBVIOUS
<1> USE DEF OffsetFor, AfterVisit
<1> DEFINE x == Children(children_of[parent])[child]
<1>1. /\ TypeOK /\ LevelOK /\ EmitOK
      /\ parent \in 1..Len(children_of)
      /\ child \in 1..Size(children_of[parent])
  <2>1. TypeOK /\ LevelOK /\ EmitOK /\ parent \in 1..Len(children_of)
    BY DEF IInv, EmitChild, TypeOK
  <2>2. Size(children_of[parent]) \in Nat
    BY <2>1, Parents, Sizes
  <2> QED
    BY <2>1, <2>2, SMTT(30) DEF EmitChild, TypeOK
<1>2. PICK n \in Nat, b \in Nat, a \in Nat, k \in Nat, L \in Nat, M \in Nat :
        /\ n = Len(visits) /\ b = Base /\ a = Base + parent /\ k = child
        /\ L = Len(children_of) /\ M = Len(next_children_of)
  <2>1. /\ Len(visits) \in Nat /\ Base \in Nat /\ Base + parent \in Nat
        /\ child \in Nat
        /\ Len(children_of) \in Nat /\ Len(next_children_of) \in Nat
    BY <1>1, Parents, SMTT(30) DEF TypeOK
  <2> QED
    BY <2>1, Zenon
<1>3. /\ a \in 1..n /\ a \in (b + 1)..n /\ a = b + parent
      /\ visits[a].node = children_of[parent]
      /\ Count(a) = Size(children_of[parent])
      /\ n = b + L + M /\ parent \in Nat
      /\ children_of[parent] \in Node
  BY <1>1, <1>2, Parents
<1>4. x \in Node /\ Size(x) \in Nat
  BY <1>1, <1>3, Sizes
<1>5. Visit(x, child_offset) /\ UNCHANGED fs
  BY DEF EmitChild
<1> HIDE DEF x
<1>7. /\ visits' \in Seq(VisitRecord)
      /\ Len(visits') = n + 1
      /\ Start(n + 1)' = n + 1 + child_offset
      /\ End(n + 1)' = n + 1 + child_offset + Size(x)
      /\ visits'[n + 1].node = x
      /\ \A p \in 1..n : visits'[p] = visits[p]
  <2>1. child_offset \in Nat
    BY <1>1 DEF TypeOK
  <2> QED
    BY <1>1, <1>2, <1>4, <1>5, <2>1, VisitAppends, ZenonT(60)
<1>8. \A p \in 1..n : /\ Start(p)' = Start(p)
                      /\ Count(p)' = Count(p)
                      /\ \A c \in Nat : InPlace(p, c) => InPlace(p, c)'
  <2>1. child_offset \in Nat
    BY <1>1 DEF TypeOK
  <2> QED
    BY <1>1, <1>2, <1>4, <1>5, <2>1, VisitKeeps
<1>9. \A p \in 1..n : Count(p) \in Nat
  BY <1>1, <1>2, Positions
<1>10. /\ next_children_of' = Append(next_children_of, x)
       /\ child_offset' = child_offset - 1 + Size(x)
       /\ child' = child + 1
       /\ UNCHANGED <<pc, preopen_indices, children_of, parent>>
  BY DEF EmitChild, x
<1>11. child_offset - 1 \in Nat
  <2>1. n + 1 = Start(a) + k - 1 /\ k <= Count(a)
    BY <1>1, <1>2, <1>3 DEF EmitOK
  <2>2. End(a) <= End(n) /\ End(n) = n + 1 + child_offset
    <3>1. n \in (b + 1)..n /\ a <= n
      BY <1>3
    <3> QED
      BY <1>1, <1>2, <1>3, <3>1 DEF LevelOK, Chain, EmitOK
  <2>3. Start(a) \in Nat /\ Count(a) \in Nat /\ End(a) = Start(a) + Count(a)
    BY <1>1, <1>2, <1>3, Positions
  <2> QED
    BY <1>1, <1>3, <2>1, <2>2, <2>3, SMTT(30) DEF TypeOK
<1>12. TypeOK'
  <2>1. child_offset' \in Nat
    BY <1>4, <1>10, <1>11
  <2>2. next_children_of' \in Seq(Node)
    BY <1>1, <1>4, <1>10 DEF TypeOK
  <2>3. Forest(fs)' /\ child' \in Nat \ {0}
    BY <1>1, <1>3, <1>5, <1>10 DEF TypeOK
  <2> QED
    BY <1>1, <1>7, <1>10, <2>1, <2>2, <2>3 DEF TypeOK, VisitRecord
<1>13. Len(next_children_of') = Len(next_children_of) + 1 /\ Base' = b
  <2>1. Len(next_children_of') = Len(next_children_of) + 1
    BY <1>1, <1>10 DEF TypeOK
  <2> QED
    BY <1>2, <1>3, <1>7, <1>10, <2>1 DEF Base
<1>14. LevelOK'
  <2>1. Chain'
    <3>1. /\ \A p \in (b + 1)..n : Start(p + 1)' = End(p)'
          /\ \A p, q \in (b + 1)..(n + 1) : p <= q => End(p)' <= End(q)'
      BY <1>1, <1>2, <1>4, <1>5, ChainGrows
    <3>2. Len(visits') - 1 = n
      BY <1>7
    <3> QED
      BY <1>7, <1>13, <3>1, <3>2 DEF Chain
  <2>2. (\A p \in 1..Base : InPlace(p, Count(p)))'
    <3>1. \A p \in 1..b : p \in 1..n /\ InPlace(p, Count(p))
      BY <1>1, <1>2, <1>3 DEF LevelOK
    <3> QED
      BY <1>8, <1>9, <1>13, <3>1
  <2>3. (\A i \in 1..Len(children_of) : visits[Base + i].node = children_of[i])'
    <3>1. \A i \in 1..Len(children_of) :
            b + i \in 1..n /\ visits[b + i].node = children_of[i]
      BY <1>1, <1>2, <1>3 DEF LevelOK
    <3> QED
      BY <1>7, <1>10, <1>13, <3>1
  <2>4. \A j \in 1..(M + 1) : visits'[b + L + j].node = next_children_of'[j]
    <3> SUFFICES ASSUME NEW j \in 1..(M + 1)
                 PROVE  visits'[b + L + j].node = next_children_of'[j]
      OBVIOUS
    <3>1. CASE j = M + 1
      <4>1. b + L + j = n + 1
        BY <1>3, <3>1
      <4>2. next_children_of'[j] = x
        BY <1>1, <1>2, <1>10, <3>1 DEF TypeOK
      <4> QED
        BY <1>7, <4>1, <4>2
    <3>2. CASE j # M + 1
      <4>1. j \in 1..M
        BY <3>2
      <4>2. b + L + j \in 1..n
        BY <1>3, <4>1
      <4>3. next_children_of'[j] = next_children_of[j]
        BY <1>1, <1>2, <1>10, <4>1 DEF TypeOK
      <4>4. visits[b + L + j].node = next_children_of[j]
        BY <1>1, <1>2, <4>1 DEF LevelOK
      <4> QED
        BY <1>7, <4>2, <4>3, <4>4
    <3> QED
      BY <3>1, <3>2
  <2>5. Len(next_children_of') = M + 1 /\ Len(children_of') = L
    BY <1>2, <1>10, <1>13
  <2> QED
    BY <1>1, <1>2, <1>10, <1>13, <2>1, <2>2, <2>3, <2>4, <2>5 DEF LevelOK
<1>15. EmitOK'
  <2>1. Len(visits') + 1 + child_offset' = End(n + 1)'
    BY <1>1, <1>4, <1>7, <1>10, SMTT(30) DEF TypeOK
  <2>2. (Len(visits) + 1 + child_offset = End(Len(visits)))'
    BY <1>7, <2>1 DEF End, Start, Count
  <2>3. (\A p \in (Base + 1)..(Base + parent - 1) : InPlace(p, Count(p)))'
    <3>1. \A p \in (b + 1)..(b + parent - 1) :
            p \in 1..n /\ InPlace(p, Count(p))
      BY <1>1, <1>2, <1>3 DEF EmitOK
    <3> QED
      BY <1>8, <1>9, <1>10, <1>13, <3>1
  <2>4. /\ n + 1 = Start(a) + k - 1 /\ k - 1 \in Nat
        /\ InPlace(a, k - 1) /\ k <= Count(a)
    BY <1>1, <1>2, <1>3 DEF EmitOK
  <2>5. /\ Start(a)' = Start(a) /\ Start(a) \in Nat
        /\ Count(a)' = Count(a) /\ Count(a) \in Nat
    BY <1>1, <1>2, <1>3, <1>8, Positions
  <2>6. InPlace(a, k)'
    <3>1. InPlace(a, k - 1)'
      BY <1>3, <1>8, <2>4
    <3>2. Start(a)' + k - 1 = n + 1
      BY <2>4, <2>5
    <3>3. (visits[n + 1].node = Children(visits[a].node)[k])'
      BY <1>2, <1>3, <1>5, <1>7 DEF x, Children
    <3>4. Start(a)' + k <= Len(visits') + 1
      BY <1>7, <2>5, <3>2
    <3>5. ASSUME NEW c \in 1..k
          PROVE  (/\ Start(a) + c - 1 \in 1..Len(visits)
                  /\ visits[Start(a) + c - 1].node
                       = Children(visits[a].node)[c])'
      <4>1. CASE c = k
        BY <1>7, <3>2, <3>3, <4>1
      <4>2. CASE c # k
        <5>1. c \in 1..(k - 1)
          BY <4>2
        <5> QED
          BY <3>1, <5>1 DEF InPlace
      <4> QED
        BY <4>1, <4>2
    <3> QED
      BY <3>4, <3>5 DEF InPlace
  <2>7. /\ k + 1 <= Count(a)' + 1
        /\ Len(visits') + 1 = Start(a)' + (k + 1) - 1
        /\ k + 1 - 1 = k
    BY <1>7, <2>4, <2>5
  <2>8. (Base + parent)' = a /\ child' = k + 1
    BY <1>2, <1>3, <1>10, <1>13
  <2>9. (/\ child <= Count(Base + parent) + 1
         /\ Len(visits) + 1 = Start(Base + parent) + child - 1
         /\ InPlace(Base + parent, child - 1))'
    BY <2>6, <2>7, <2>8, SMTT(30) DEF Start, Count, InPlace
  <2>10. ~(parent' > Len(children_of'))
    BY <1>1, <1>3, <1>10
  <2> QED
    BY <2>2, <2>3, <2>9, <2>10 DEF EmitOK
<1> QED
  BY <1>1, <1>12, <1>14, <1>15 DEF IInv, EmitChild

LEMMA MeetSymlinkStep == IInv /\ MeetSymlink => IInv'
<1> SUFFICES ASSUME IInv, MeetSymlink PROVE IInv'
  OBVIOUS
<1>1. TypeOK'
  BY DEF IInv, TypeOK, MeetSymlink, level
<1> QED
  BY <1>1 DEF IInv, MeetSymlink

LEMMA StepIInv == IInv /\ [Next]_vars => IInv'
<1> SUFFICES ASSUME IInv, [Next]_vars PROVE IInv'
  OBVIOUS
<1>1. CASE UNCHANGED vars
  <2>1. /\ fs' = fs /\ pc' = pc /\ visits' = visits /\ child_offset' = child_offset
        /\ preopen_indices' = preopen_indices
        /\ children_of' = children_of /\ next_children_of' = next_children_of
        /\ parent' = parent /\ child' = child
    BY <1>1 DEF vars, level
  <2>2. TypeOK'
    BY <2>1 DEF IInv, TypeOK
  <2>3. (Chain <=> Chain') /\ Base' = Base
    BY <2>1 DEF Chain, Base, Start, End, Count, Size, Children
  <2>4. \A p, k : InPlace(p, k)' <=> InPlace(p, k)
    BY <2>1 DEF InPlace, Start, Children
  <2>5. (pc \in {"count", "emit"} => LevelOK)'
    BY <2>1, <2>3, <2>4 DEF IInv, LevelOK, Count, Size, Children
  <2>6. (pc = "count" => CountOK)'
    BY <2>1, <2>3 DEF IInv, CountOK, Start, Count, End, Size, Children
  <2>7. (pc = "emit" => EmitOK)'
    BY <2>1, <2>3, <2>4 DEF IInv, EmitOK, Start, Count, End, Size, Children
  <2>8. (pc \in {"preopen", "done"} => \A p \in 1..Len(visits) : InPlace(p, Count(p)))'
    BY <2>1, <2>4 DEF IInv, Count, Size, Children
  <2> QED
    BY <2>2, <2>5, <2>6, <2>7, <2>8 DEF IInv
<1> QED
  BY <1>1, StartPreopenStep, CompleteStep, CountParentStep, CountDoneStep,
     EmitChildStep, MeetSymlinkStep, NextParentStep, LevelDoneStep DEF Next

LEMMA Invariance == Spec => []IInv
BY InitStarts, StartingIInv, StepIInv, PTL DEF Spec

-----------------------------------------------------------------------------

\* The offset never underflows: when a child is left to visit, the children of
\* the last entry start at least one position further.
THEOREM TypeCorrect == Spec => []TypeOK
BY Invariance, PTL DEF IInv

LEMMA ListsExact == IInv => ChildListsExact
<1> SUFFICES ASSUME IInv, pc = "done", NEW p \in 1..Len(Index),
                    Index[p].ty = "dir"
             PROVE  /\ SliceInBounds(Index, p)
                    /\ ChildCount(Index, p) = Len(fs.children[Origin[p]])
                    /\ \A c \in 1..Len(fs.children[Origin[p]]) :
                         Origin[ChildFirst(Index, p) + c - 1]
                           = fs.children[Origin[p]][c]
  BY DEF ChildListsExact, ListsChildren
<1>1. TypeOK /\ Len(visits) \in Nat
  BY DEF IInv, TypeOK
<1>2. Len(Index) = Len(visits) /\ p \in 1..Len(visits)
  BY <1>1 DEF Index
<1>3. /\ InPlace(p, Count(p))
      /\ Start(p) \in Nat /\ Count(p) \in Nat
      /\ Start(p) = p + visits[p].child_offset
  BY <1>1, <1>2, Positions DEF IInv, Start
<1>4. Origin[p] = visits[p].node /\ Count(p) = Len(fs.children[Origin[p]])
  BY <1>2 DEF Origin, Count, Size, Children
<1>5. /\ ChildFirst(Index, p) = Start(p)
      /\ ChildCount(Index, p) = Count(p)
  <2>1. Index[p].data = <<visits[p].child_offset, Count(p)>>
    BY <1>2 DEF Index, EntryFor, Count
  <2> QED
    BY <1>3, <2>1 DEF ChildFirst, ChildCount
<1>6. SliceInBounds(Index, p)
  <2>1. Start(p) + Count(p) <= Len(visits) + 1
    BY <1>3 DEF InPlace
  <2> QED
    BY <1>1, <1>2, <1>3, <1>5, <2>1 DEF SliceInBounds
<1>7. ASSUME NEW c \in 1..Count(p)
      PROVE  Origin[Start(p) + c - 1] = fs.children[Origin[p]][c]
  <2>1. /\ Start(p) + c - 1 \in 1..Len(visits)
        /\ visits[Start(p) + c - 1].node = Children(visits[p].node)[c]
    BY <1>3 DEF InPlace
  <2> QED
    BY <1>4, <2>1 DEF Origin, Children
<1> QED
  BY <1>4, <1>5, <1>6, <1>7

\* Whatever the forest, every directory's entry designates its children.
THEOREM ChildListsSound == Spec => []ChildListsExact
BY ListsExact, Invariance, PTL

-----------------------------------------------------------------------------
(***************************************************************************)
(* Induction.                                                              *)
(***************************************************************************)
LEMMA Least ==
  ASSUME NEW T, T \subseteq Nat, T # {}
  PROVE  \E x \in T : \A y \in T : x <= y
<1> DEFINE R == OpToRel(<, Nat)
<1>1. PICK x \in T : \A y \in T : ~(<<y, x>> \in R)
  <2>1. IsWellFoundedOn(R, Nat)
    BY NatLessThanWellFounded
  <2> HIDE DEF R
  <2> QED
    BY <2>1, WFMin
<1>2. \A y \in T : ~(y < x)
  BY <1>1 DEF OpToRel
<1> QED
  BY <1>2

LEMMA UpToInduction ==
  ASSUME NEW n \in Nat, NEW S, 0 \in S,
         \A k \in 0..(n - 1) : k \in S => k + 1 \in S
  PROVE  0..n \subseteq S
<1> SUFFICES ASSUME (0..n) \ S # {} PROVE FALSE
  OBVIOUS
<1>1. PICK k \in (0..n) \ S : \A m \in (0..n) \ S : k <= m
  <2>1. (0..n) \ S \subseteq Nat
    OBVIOUS
  <2> QED
    BY <2>1, Least
<1>2. k # 0 /\ k - 1 \in 0..(n - 1) /\ (k - 1) + 1 = k
  OBVIOUS
<1>3. k - 1 \in S
  BY <1>1, <1>2
<1> QED
  BY <1>2, <1>3

-----------------------------------------------------------------------------
(***************************************************************************)
(* The roots.                                                              *)
(***************************************************************************)
RootsOK ==
  /\ Len(preopen_indices) <= Len(fs.preopens)
  /\ \A i \in 1..Len(preopen_indices) :
       /\ preopen_indices[i] \in 1..Len(visits)
       /\ visits[preopen_indices[i]].node = fs.preopens[i]

LEMMA Appended ==
  ASSUME NEW S, NEW s \in Seq(S), NEW v
  PROVE  /\ Len(s) \in Nat /\ Len(Append(s, v)) = Len(s) + 1
         /\ \A p \in 1..Len(s) : Append(s, v)[p] = s[p]
         /\ Append(s, v)[Len(s) + 1] = v
<1>1. s \in Seq(S \cup {v})
  OBVIOUS
<1> QED
  BY <1>1

LEMMA VisitKeepsRoots ==
  ASSUME TypeOK, RootsOK, NEW x, NEW o, Visit(x, o), UNCHANGED <<fs, preopen_indices>>
  PROVE  RootsOK'
<1> DEFINE v == [node |-> x, child_offset |-> o]
           n == Len(visits)
<1>1. visits \in Seq(VisitRecord) /\ visits' = Append(visits, v)
  BY DEF TypeOK, VisitRecord, Visit
<1> HIDE DEF v
<1>2. n \in Nat /\ Len(visits') = n + 1 /\ \A p \in 1..n : visits'[p] = visits[p]
  BY <1>1, Appended
<1>3. \A p \in 1..n : p \in 1..(n + 1)
  BY <1>2
<1> QED
  BY <1>2, <1>3 DEF RootsOK

LEMMA StartKeepsRoots ==
  ASSUME TypeOK, RootsOK, StartPreopen
  PROVE  RootsOK'
<1> DEFINE k == Len(preopen_indices)
           n == Len(visits)
           root == fs.preopens[k + 1]
           v == [node |-> root, child_offset |-> 1]
<1>1. /\ k < Len(fs.preopens) /\ fs' = fs
      /\ preopen_indices' = Append(preopen_indices, n + 1)
      /\ visits' = Append(visits, v)
  BY DEF StartPreopen, Visit
<1>2. visits \in Seq(VisitRecord) /\ preopen_indices \in Seq(Nat \ {0})
      /\ Len(fs.preopens) \in Nat
  BY DEF TypeOK, VisitRecord, Forest
<1>3. v.node = root
  OBVIOUS
<1> HIDE DEF v
<1>4. /\ n \in Nat /\ Len(visits') = n + 1 /\ visits'[n + 1] = v
      /\ \A p \in 1..n : visits'[p] = visits[p]
  BY <1>1, <1>2, Appended
<1>5. /\ k \in Nat /\ Len(preopen_indices') = k + 1 /\ preopen_indices'[k + 1] = n + 1
      /\ \A i \in 1..k : preopen_indices'[i] = preopen_indices[i]
  BY <1>1, <1>2, Appended
<1>6. ASSUME NEW i \in 1..(k + 1)
      PROVE  /\ preopen_indices'[i] \in 1..(n + 1)
             /\ visits'[preopen_indices'[i]].node = fs.preopens[i]
  <2>1. CASE i = k + 1
    <3>1. preopen_indices'[i] = n + 1 /\ n + 1 \in 1..(n + 1)
      BY <1>4, <1>5, <2>1
    <3> QED
      BY <1>3, <1>4, <2>1, <3>1
  <2>2. CASE i \in 1..k
    <3>1. preopen_indices[i] \in 1..n /\ visits[preopen_indices[i]].node = fs.preopens[i]
      BY <2>2 DEF RootsOK
    <3> QED
      BY <1>4, <1>5, <2>2, <3>1
  <2> QED
    BY <1>5, <2>1, <2>2
<1>7. k + 1 <= Len(fs.preopens)
  BY <1>1, <1>2, <1>5
<1> HIDE DEF n, k, root
<1> QED
  BY <1>1, <1>4, <1>5, <1>6, <1>7 DEF RootsOK

LEMMA StartingRoots == Starting => RootsOK
<1> SUFFICES ASSUME Starting PROVE RootsOK
  OBVIOUS
<1>1. Len(preopen_indices) = 0 /\ Len(fs.preopens) \in Nat
  BY DEF Starting, Forest
<1>2. \A i : i \notin 1..0
  OBVIOUS
<1> QED
  BY <1>1, <1>2 DEF RootsOK

LEMMA RootsStep == IInv /\ RootsOK /\ [Next]_vars => RootsOK'
<1> SUFFICES ASSUME IInv, RootsOK, [Next]_vars PROVE RootsOK'
  OBVIOUS
<1>1. TypeOK
  BY DEF IInv
<1>2. CASE StartPreopen
  BY <1>1, <1>2, StartKeepsRoots
<1>3. CASE EmitChild
  BY <1>1, <1>3, VisitKeepsRoots DEF EmitChild
<1>4. CASE \/ Complete \/ CountParent \/ CountDone \/ MeetSymlink \/ NextParent
           \/ LevelDone \/ UNCHANGED vars
  <2>1. UNCHANGED <<fs, visits, preopen_indices>>
    BY <1>4 DEF Complete, CountParent, CountDone, MeetSymlink, NextParent, LevelDone, vars
  <2> QED
    BY <2>1 DEF RootsOK
<1> QED
  BY <1>2, <1>3, <1>4 DEF Next

LEMMA Rooted == Spec => []RootsOK
BY InitStarts, StartingRoots, RootsStep, Invariance, PTL DEF Spec

LEMMA ForestKept == [Next]_vars => fs' = fs
BY DEF Next, StartPreopen, Complete, CountParent, CountDone, EmitChild, MeetSymlink,
       NextParent, LevelDone, vars

LEMMA ForestOfSpec == Spec => [](fs \in Forests)
<1>1. Init => fs \in Forests
  BY DEF Init
<1>2. fs \in Forests /\ [Next]_vars => (fs \in Forests)'
  BY ForestKept
<1> QED
  BY <1>1, <1>2, PTL DEF Spec

-----------------------------------------------------------------------------
(***************************************************************************)
(* One part of a path.                                                     *)
(***************************************************************************)
\* A position found, or not, and the nodes that the tree has there.
Agrees(from, nodes) ==
  \/ from.ok = TRUE /\ from.at \in 1..Len(visits) /\ nodes = {visits[from.at].node}
  \/ from.ok = FALSE /\ from.err \in {"no-entry", "not-directory"} /\ nodes = {}

Looked(from, part) == IF ~from.ok THEN from ELSE LookupChild(Index, from.at, part)
NamedBelow(nodes, name) == UNION {Named(n, name) : n \in nodes}

LEMMA ChildAgrees ==
  ASSUME TypeOK, ChildListsExact, pc = "done", PlainForest(fs),
         NEW p \in 1..Len(visits), NEW name
  PROVE  Agrees(LookupChild(Index, p, name), Named(visits[p].node, name))
<1> DEFINE x == visits[p].node
           listed == fs.children[x]
           L == Len(listed)
           first == ChildFirst(Index, p)
           to == LookupChild(Index, p, name)
           hits == {c \in ChildPositions(Index, p) : Index[c].name = name}
<1>1. x \in Node /\ fs.ty[x] \in EntryTypes /\ fs.ty[x] # "rdir"
  BY Positions DEF TypeOK, Forest, PlainForest
<1>2. Len(visits) \in Nat
  BY DEF TypeOK
<1>3. /\ Len(Index) = Len(visits) /\ Index[p].ty = fs.ty[x] /\ Origin[p] = x
      /\ \A q \in 1..Len(visits) : Index[q].name = fs.name[visits[q].node] /\ Origin[q] = visits[q].node
  BY <1>2 DEF Index, Origin, EntryFor
<1>4. Named(x, name) = {listed[c] : c \in {d \in 1..L : fs.name[listed[d]] = name}}
  BY DEF Named, Children, Size
<1>5. CASE fs.ty[x] # "dir"
  <2>1. L = 0
    BY <1>1, <1>5 DEF TypeOK, Forest
  <2>2. Named(x, name) = {}
    <3> HIDE DEF listed
    <3>1. 1..L = {}
      BY <2>1
    <3> QED
      BY <1>4, <3>1
  <2>3. to = Err("not-directory")
    BY <1>1, <1>3, <1>5 DEF LookupChild, IsDirectory, DirTypes
  <2>4. to.ok = FALSE /\ to.err = "not-directory"
    BY <2>3 DEF Err
  <2> QED
    BY <2>2, <2>4 DEF Agrees
<1>6. CASE fs.ty[x] = "dir"
  <2>1. /\ SliceInBounds(Index, p) /\ ChildCount(Index, p) = L
        /\ \A c \in 1..L : Origin[first + c - 1] = listed[c]
    <3>1. ListsChildren(Index, Origin, fs.children)
      BY DEF ChildListsExact
    <3> QED
      BY <1>3, <1>6, <3>1 DEF ListsChildren
  <2>2. L \in Nat /\ first \in Nat \ {0} /\ first + L - 1 <= Len(visits)
    <3>1. L \in Nat
      BY <1>1 DEF TypeOK, Forest
    <3>2. Index[p].data[1] = visits[p].child_offset
      BY <1>3, <1>6 DEF Index, EntryFor
    <3>3. visits[p] \in VisitRecord
      <4>1. visits \in Seq(VisitRecord)
        BY DEF TypeOK, VisitRecord
      <4> QED
        BY <4>1
    <3>4. Index[p].data[1] \in Nat /\ p \in Nat \ {0}
      BY <1>2, <3>2, <3>3 DEF VisitRecord
    <3>5. first \in Nat \ {0}
      BY <3>4 DEF ChildFirst
    <3> QED
      BY <1>3, <2>1, <3>1, <3>5 DEF SliceInBounds
  <2>3. ChildPositions(Index, p) = first..(first + L - 1)
    BY <2>1 DEF ChildPositions
  <2>4. to = IF ~Sorted(Index, p) THEN Unspecified
             ELSE IF hits = {} THEN Err("no-entry") ELSE Ok(CHOOSE c \in hits : TRUE)
    BY <1>3, <1>6, <2>1 DEF LookupChild, IsDirectory, DirTypes, ChildNamed
  <2>5. \A c, d \in 1..L :
          /\ fs.name[listed[c]] = fs.name[listed[d]] => c = d
          /\ c < d => <<fs.name[listed[c]], fs.name[listed[d]]>> \in ByteOrder
    BY <1>1 DEF PlainForest
  <2> HIDE DEF listed, first, to
  <2>6. \A c \in 1..L : first + c - 1 \in ChildPositions(Index, p) /\ first + c - 1 \in 1..Len(visits)
    <3> HIDE DEF L
    <3> QED
      BY <1>2, <2>2, <2>3
  <2>7. \A q \in hits : \E c \in 1..L : q = first + c - 1 /\ fs.name[listed[c]] = name
    <3> SUFFICES ASSUME NEW q \in hits
                 PROVE  \E c \in 1..L : q = first + c - 1 /\ fs.name[listed[c]] = name
      OBVIOUS
    <3>1. PICK c \in 1..L : q = first + c - 1
      <4> DEFINE c == q - first + 1
      <4>1. q \in first..(first + L - 1)
        BY <2>3
      <4> HIDE DEF hits, L
      <4>2. c \in 1..L /\ q = first + c - 1
        BY <2>2, <4>1
      <4> QED
        BY <4>2
    <3>2. q \in 1..Len(visits) /\ Origin[q] = listed[c] /\ Index[q].name = name
      BY <2>1, <2>6, <3>1
    <3>3. fs.name[listed[c]] = name
      BY <1>3, <3>2
    <3> QED
      BY <3>1, <3>3
  <2>8. \A c \in 1..L : fs.name[listed[c]] = name => first + c - 1 \in hits
    <3> SUFFICES ASSUME NEW c \in 1..L, fs.name[listed[c]] = name
                 PROVE  first + c - 1 \in hits
      OBVIOUS
    <3> DEFINE q == first + c - 1
    <3> HIDE DEF L
    <3>1. q \in ChildPositions(Index, p) /\ q \in 1..Len(visits) /\ Origin[q] = listed[c]
      BY <2>1, <2>6
    <3> HIDE DEF q
    <3>2. Index[q].name = name
      BY <1>3, <3>1
    <3>3. q \in hits
      BY <3>1, <3>2
    <3> QED
      BY <3>3 DEF q
  <2> HIDE DEF L
  <2>11. Sorted(Index, p)
    <3> SUFFICES ASSUME NEW a \in ChildPositions(Index, p),
                        NEW b \in ChildPositions(Index, p), a < b
                 PROVE  <<Index[a].name, Index[b].name>> \in ByteOrder
      BY DEF Sorted
    <3> DEFINE c == a - first + 1
               d == b - first + 1
    <3>1. /\ c \in 1..L /\ d \in 1..L /\ c < d
          /\ a = first + c - 1 /\ b = first + d - 1
      <4>1. a \in first..(first + L - 1) /\ b \in first..(first + L - 1)
        BY <2>3
      <4> QED
        BY <2>2, <4>1
    <3> HIDE DEF c, d
    <3>2. /\ a \in 1..Len(visits) /\ Origin[a] = listed[c]
          /\ b \in 1..Len(visits) /\ Origin[b] = listed[d]
      BY <2>1, <2>6, <3>1
    <3>3. Index[a].name = fs.name[listed[c]] /\ Index[b].name = fs.name[listed[d]]
      BY <1>3, <3>2
    <3> QED
      BY <2>5, <3>1, <3>3
  <2>9. CASE hits = {}
    <3>1. Named(x, name) = {}
      BY <1>4, <2>8, <2>9
    <3>2. to.ok = FALSE /\ to.err = "no-entry"
      BY <2>4, <2>9, <2>11 DEF Err
    <3> QED
      BY <3>1, <3>2 DEF Agrees, to
  <2>10. CASE hits # {}
    <3> DEFINE at == CHOOSE c \in hits : TRUE
    <3>1. at \in hits
      BY <2>10
    <3>2. to = Ok(at)
      BY <2>4, <2>10, <2>11
    <3> HIDE DEF at, hits
    <3>3. PICK c \in 1..L : at = first + c - 1 /\ fs.name[listed[c]] = name
      BY <2>7, <3>1
    <3>4. Named(x, name) = {listed[c]}
      BY <1>4, <2>5, <3>3
    <3>5. at \in 1..Len(visits) /\ Origin[at] = listed[c]
      BY <2>1, <2>6, <3>3
    <3>6. visits[at].node = listed[c]
      BY <1>3, <3>5
    <3>7. to.ok = TRUE /\ to.at = at
      BY <3>2 DEF Ok
    <3> QED
      BY <3>4, <3>5, <3>6, <3>7 DEF Agrees, to
  <2> QED
    BY <2>9, <2>10
<1> QED
  BY <1>5, <1>6

LEMMA PartAgrees ==
  ASSUME TypeOK, ChildListsExact, pc = "done", PlainForest(fs),
         NEW from, NEW nodes, Agrees(from, nodes), NEW part
  PROVE  Agrees(Looked(from, part), NamedBelow(nodes, part))
<1>1. CASE from.ok = FALSE
  <2>1. nodes = {} /\ Looked(from, part) = from
    BY <1>1 DEF Agrees, Looked
  <2>2. NamedBelow(nodes, part) = {}
    BY <2>1 DEF NamedBelow
  <2> QED
    BY <1>1, <2>1, <2>2 DEF Agrees
<1>2. CASE from.ok = TRUE
  <2>1. from.at \in 1..Len(visits) /\ nodes = {visits[from.at].node}
    BY <1>2 DEF Agrees
  <2>2. Looked(from, part) = LookupChild(Index, from.at, part)
    BY <1>2 DEF Looked
  <2>3. NamedBelow(nodes, part) = Named(visits[from.at].node, part)
    BY <2>1 DEF NamedBelow
  <2>4. Agrees(LookupChild(Index, from.at, part), Named(visits[from.at].node, part))
    BY <2>1, ChildAgrees
  <2> QED
    BY <2>2, <2>3, <2>4
<1> QED
  BY <1>1, <1>2 DEF Agrees

-----------------------------------------------------------------------------
(***************************************************************************)
(* A whole path: what dir_lookup has after each of its parts, and the      *)
(* nodes that these lead to.                                               *)
(***************************************************************************)
StepAt(from, path, m) == Step(Index, from, path[m], m = Len(path))

WayOf(k, path, n, g) ==
  g = [m \in 0..n |-> IF m = 0 THEN Ok(k) ELSE StepAt(g[m - 1], path, m)]
Way(k, path) == CHOOSE g : WayOf(k, path, Len(path), g)

ReachOf(root, path, n, g) ==
  g = [m \in 0..n |-> IF m = 0 THEN {root} ELSE NamedBelow(g[m - 1], path[m])]
Reach(root, path) == CHOOSE g : ReachOf(root, path, Len(path), g)

LEMMA WayExists ==
  ASSUME NEW k, NEW path, NEW n \in Nat
  PROVE  \E g : WayOf(k, path, n, g)
<1> DEFINE S == {m \in 0..n : \E g : WayOf(k, path, m, g)}
<1>1. 0 \in S
  <2> DEFINE g == [m \in 0..0 |-> Ok(k)]
  <2>1. WayOf(k, path, 0, g)
    BY DEF WayOf
  <2> QED
    BY <2>1
<1>2. ASSUME NEW m \in 0..(n - 1), m \in S
      PROVE  m + 1 \in S
  <2>1. PICK g : WayOf(k, path, m, g)
    BY <1>2
  <2> DEFINE h == [l \in 0..(m + 1) |->
                     IF l = m + 1 THEN StepAt(g[m], path, m + 1) ELSE g[l]]
  <2>2. ASSUME NEW l \in 0..(m + 1)
        PROVE  h[l] = IF l = 0 THEN Ok(k) ELSE StepAt(h[l - 1], path, l)
    BY <2>1 DEF WayOf
  <2>3. WayOf(k, path, m + 1, h)
    BY <2>2 DEF WayOf
  <2> QED
    BY <2>3
<1> HIDE DEF S
<1>3. n \in S
  BY <1>1, <1>2, UpToInduction
<1> QED
  BY <1>3 DEF S

LEMMA ReachExists ==
  ASSUME NEW root, NEW path, NEW n \in Nat
  PROVE  \E g : ReachOf(root, path, n, g)
<1> DEFINE S == {m \in 0..n : \E g : ReachOf(root, path, m, g)}
<1>1. 0 \in S
  <2> DEFINE g == [m \in 0..0 |-> {root}]
  <2>1. ReachOf(root, path, 0, g)
    BY DEF ReachOf
  <2> QED
    BY <2>1
<1>2. ASSUME NEW m \in 0..(n - 1), m \in S
      PROVE  m + 1 \in S
  <2>1. PICK g : ReachOf(root, path, m, g)
    BY <1>2
  <2> DEFINE h == [l \in 0..(m + 1) |->
                     IF l = m + 1 THEN NamedBelow(g[m], path[m + 1]) ELSE g[l]]
  <2>2. ASSUME NEW l \in 0..(m + 1)
        PROVE  h[l] = IF l = 0 THEN {root} ELSE NamedBelow(h[l - 1], path[l])
    <3>1. g = [i \in 0..m |-> IF i = 0 THEN {root} ELSE NamedBelow(g[i - 1], path[i])]
      BY <2>1 DEF ReachOf
    <3>2. CASE l = m + 1
      BY <3>2
    <3>3. CASE l \in 0..m
      <4>1. h[l] = g[l] /\ (l # 0 => h[l - 1] = g[l - 1])
        BY <3>3
      <4>2. g[l] = IF l = 0 THEN {root} ELSE NamedBelow(g[l - 1], path[l])
        BY <3>1, <3>3
      <4> HIDE DEF h
      <4> QED
        BY <4>1, <4>2
    <3> QED
      BY <3>2, <3>3
  <2>3. ReachOf(root, path, m + 1, h)
    BY <2>2 DEF ReachOf
  <2> QED
    BY <2>3
<1> HIDE DEF S
<1>3. n \in S
  BY <1>1, <1>2, UpToInduction
<1> QED
  BY <1>3 DEF S

LEMMA WaySteps ==
  ASSUME NEW k, NEW path, NEW n \in Nat, Len(path) = n, path # <<Empty>>
  PROVE  LET W == Way(k, path)
         IN  /\ W[0] = Ok(k)
             /\ \A m \in 1..n : W[m] = StepAt(W[m - 1], path, m)
             /\ DirLookup(Index, k, path) = W[n]
<1> DEFINE W == Way(k, path)
<1>1. WayOf(k, path, n, W)
  BY WayExists DEF Way
<1>2. DirLookup(Index, k, path) = W[n]
  BY DEF DirLookup, Way, WayOf, StepAt
<1> HIDE DEF W
<1>3. W = [m \in 0..n |-> IF m = 0 THEN Ok(k) ELSE StepAt(W[m - 1], path, m)]
  BY <1>1 DEF WayOf
<1>4. 0 \in 0..n /\ \A m \in 1..n : m \in 0..n /\ m # 0
  OBVIOUS
<1>5. W[0] = Ok(k) /\ \A m \in 1..n : W[m] = StepAt(W[m - 1], path, m)
  BY <1>3, <1>4
<1> QED
  BY <1>2, <1>5 DEF W

LEMMA ReachSteps ==
  ASSUME NEW root, NEW path, NEW n \in Nat, Len(path) = n
  PROVE  LET R == Reach(root, path)
         IN  /\ R[0] = {root}
             /\ \A m \in 1..n : R[m] = NamedBelow(R[m - 1], path[m])
             /\ Reached(root, path) = R[n]
<1> DEFINE R == Reach(root, path)
<1>1. ReachOf(root, path, n, R)
  BY ReachExists DEF Reach
<1>2. Reached(root, path) = R[n]
  BY DEF Reached, Reach, ReachOf, NamedBelow
<1> HIDE DEF R
<1>3. R = [m \in 0..n |-> IF m = 0 THEN {root} ELSE NamedBelow(R[m - 1], path[m])]
  BY <1>1 DEF ReachOf
<1>4. 0 \in 0..n /\ \A m \in 1..n : m \in 0..n /\ m # 0
  OBVIOUS
<1>5. R[0] = {root} /\ \A m \in 1..n : R[m] = NamedBelow(R[m - 1], path[m])
  BY <1>3, <1>4
<1> QED
  BY <1>2, <1>5 DEF R

LEMMA LookupsAgree ==
  ASSUME TypeOK, ChildListsExact, pc = "done", PlainForest(fs),
         NEW k \in 1..Len(visits), NEW path, PlainPath(path)
  PROVE  /\ Agrees(DirLookup(Index, k, path), Reached(visits[k].node, path))
         /\ DirLookup(Index, k, Append(path, Empty)) = DirLookup(Index, k, path)
<1> DEFINE n == Len(path)
           more == Append(path, Empty)
           root == visits[k].node
           W == Way(k, path)
           V == Way(k, more)
           R == Reach(root, path)
<1>1. path \in Seq(STRING) /\ path # <<>> /\ \A m \in 1..n : ~Stays(path[m])
  BY DEF PlainPath
<1>2. n \in Nat \ {0}
  BY <1>1
<1>3. /\ Len(more) = n + 1 /\ more[n + 1] = Empty
      /\ \A m \in 1..n : more[m] = path[m]
  BY <1>1, Appended
<1>4. path # <<Empty>> /\ more # <<Empty>>
  <2>1. 1 \in 1..n /\ path[1] # Empty
    BY <1>1, <1>2 DEF Stays
  <2>2. Len(<<Empty>>) = 1 /\ <<Empty>>[1] = Empty
    OBVIOUS
  <2> HIDE DEF more
  <2> QED
    BY <1>2, <1>3, <2>1, <2>2
<1>5. /\ W[0] = Ok(k) /\ \A m \in 1..n : W[m] = StepAt(W[m - 1], path, m)
      /\ DirLookup(Index, k, path) = W[n]
  <2> HIDE DEF more
  <2> QED
    BY <1>2, <1>4, WaySteps
<1>6. /\ V[0] = Ok(k) /\ \A m \in 1..(n + 1) : V[m] = StepAt(V[m - 1], more, m)
      /\ DirLookup(Index, k, more) = V[n + 1]
  <2> HIDE DEF more, n
  <2>1. n + 1 \in Nat
    BY <1>2
  <2> QED
    BY <1>3, <1>4, <2>1, WaySteps
<1>7. /\ R[0] = {root} /\ \A m \in 1..n : R[m] = NamedBelow(R[m - 1], path[m])
      /\ Reached(root, path) = R[n]
  BY <1>2, ReachSteps
<1> HIDE DEF more, W, V, R, n
<1> DEFINE S == {m \in 0..n : V[m] = W[m] /\ Agrees(W[m], R[m])}
<1>8. 0 \in S
  <2>1. Agrees(W[0], R[0])
    BY <1>5, <1>7 DEF Agrees, Ok
  <2> QED
    BY <1>2, <1>5, <1>6, <2>1
<1>9. ASSUME NEW m \in 0..(n - 1), m \in S
      PROVE  m + 1 \in S
  <2> DEFINE i == m + 1
  <2>1. i \in 1..n /\ i \in 1..(n + 1) /\ i - 1 = m /\ i \in 0..n
    BY <1>2
  <2>2. V[m] = W[m] /\ Agrees(W[m], R[m])
    BY <1>9
  <2> HIDE DEF i, S
  <2>3. W[i] = StepAt(W[m], path, i) /\ V[i] = StepAt(W[m], more, i)
    BY <1>5, <1>6, <2>1, <2>2
  <2>4. ~Stays(path[i]) /\ more[i] = path[i]
    BY <1>1, <1>3, <2>1 DEF n
  <2>5. W[i] = Looked(W[m], path[i]) /\ V[i] = Looked(W[m], path[i])
    BY <2>3, <2>4 DEF StepAt, Step, Looked
  <2>6. R[i] = NamedBelow(R[m], path[i])
    BY <1>7, <2>1
  <2>7. Agrees(W[i], R[i])
    BY <2>2, <2>5, <2>6, PartAgrees
  <2> QED
    BY <2>1, <2>5, <2>7 DEF i, S
<1> HIDE DEF S
<1>10. n \in S
  <2>1. 0..n \subseteq S
    BY <1>2, <1>8, <1>9, UpToInduction
  <2> QED
    BY <1>2, <2>1
<1>11. V[n] = W[n] /\ Agrees(W[n], R[n])
  BY <1>10 DEF S
<1>12. V[n + 1] = V[n]
  <2>1. n + 1 \in 1..(n + 1) /\ (n + 1) - 1 = n
    BY <1>2
  <2>2. V[n + 1] = StepAt(V[n], more, n + 1)
    BY <1>6, <2>1
  <2> QED
    BY <1>3, <2>2 DEF StepAt, Step, Stays
<1> QED
  BY <1>5, <1>6, <1>7, <1>11, <1>12 DEF more

LEMMA AllLookupsAgree ==
  ASSUME IInv, RootsOK, PlainForest(fs), \A path \in Paths : PlainPath(path)
  PROVE  LookupAgrees
<1> SUFFICES ASSUME pc = "done",
                    NEW i \in 1..Len(preopen_indices), NEW path \in Paths
             PROVE  LET found == DirLookup(Index, preopen_indices[i], path)
                        reached == Reached(fs.preopens[i], path)
                    IN  /\ found \notin {Trap, Unspecified}
                        /\ reached = IF found.ok THEN {visits[found.at].node} ELSE {}
                        /\ DirLookup(Index, preopen_indices[i], Append(path, Empty)) = found
  BY DEF LookupAgrees
<1> DEFINE k == preopen_indices[i]
           found == DirLookup(Index, k, path)
<1>1. TypeOK /\ ChildListsExact /\ PlainPath(path)
  BY ListsExact DEF IInv
<1>2. k \in 1..Len(visits) /\ visits[k].node = fs.preopens[i]
  BY DEF RootsOK
<1> HIDE DEF k
<1>3. /\ Agrees(found, Reached(fs.preopens[i], path))
      /\ DirLookup(Index, k, Append(path, Empty)) = found
  BY <1>1, <1>2, LookupsAgree
<1>4. found \notin {Trap, Unspecified}
  BY <1>3 DEF Agrees, Trap, Unspecified, Err
<1> HIDE DEF found
<1>5. Reached(fs.preopens[i], path) = IF found.ok THEN {visits[found.at].node} ELSE {}
  BY <1>3 DEF Agrees
<1> QED
  BY <1>3, <1>4, <1>5 DEF k, found

\* In an index of any size, the adapter's dir_lookup finds under a path from a
\* preopen what the configured tree has there, and nothing if it has nothing: it
\* never traps nor searches names out of order, and a trailing slash makes no
\* difference.
THEOREM LookupsFindTheTree ==
  ASSUME PlainLookups
  PROVE  Spec => []LookupAgrees
<1>1. IInv /\ RootsOK /\ fs \in Forests => LookupAgrees
  BY AllLookupsAgree DEF PlainLookups
<1> QED
  BY <1>1, Invariance, Rooted, ForestOfSpec, PTL

-----------------------------------------------------------------------------
(***************************************************************************)
(* Reading the host.  The invariant has one part for each thing that the   *)
(* walk is to keep: where an entry is from, what is still to be visited,   *)
(* what a call to the host said, what was read, and the files listed.      *)
(***************************************************************************)
(***************************************************************************)
(* Which entry of the configuration brought an entry: itself, or the one   *)
(* whose path below ends in names that listings added.                     *)
(***************************************************************************)
From(t, n, k) ==
  /\ ~t[SubSeq(n, 1, k)].listed
  /\ \A j \in (k + 1)..Len(n) : t[SubSeq(n, 1, j)].listed
  /\ Len(t[n].from) = Len(t[SubSeq(n, 1, k)].from)
  /\ t[n].from # <<>> =>
       t[n].from[1] = t[SubSeq(n, 1, k)].from[1] \o SubSeq(n, k + 1, Len(n))

TreeOf(t) ==
  /\ Filesystem(t)
  /\ \A n \in DOMAIN t :
       /\ \E k \in 1..Len(n) : From(t, n, k)
       /\ Len(t[n].from) <= 1
       /\ t[n].ty = "virtualize" => t[n].from # <<>>
       /\ t[n].ty = "source" => t[n].from = <<>>
       /\ t[n].listed => t[n].from # <<>>

(***************************************************************************)
(* What is still to be read is visited by a call that is to be made, or    *)
(* comes up in the loops of a directory above it.                          *)
(***************************************************************************)
Above(m, n) == Len(m) < Len(n) /\ m = SubSeq(n, 1, Len(m))
Reaches(task, n) ==
  \/ task = Visiting(n)
  \/ task.call = "inner" /\ Above(task.node, n)
Unread(n) == tree[n].ty \in {"virtualize", "source"}

Task == [call : {"visit", "inner"}, node : DOMAIN tree]

\* A visit is followed by the loops over what it finds.
Followed(s) ==
  \A i \in 1..Len(s) :
    s[i].call = "visit" =>
      \E j \in (i + 1)..Len(s) : s[j] = Inner(s[i].node)

TasksOK ==
  /\ tasks \in Seq(Task)
  /\ Followed(tasks)
  /\ \A n \in DOMAIN tree :
       Unread(n) => \E i \in 1..Len(tasks) : Reaches(tasks[i], n)

\* What a call to the host said holds until the host changes.
StageOK ==
  /\ stage \in {"walk", "dir", "file", "index", "failed", "panicked"}
  /\ stage = "index" => tasks = <<>>
  /\ stage \in {"dir", "file", "failed", "panicked"} =>
       tasks # <<>> /\ Head(tasks).call = "visit" /\ tree[Current].ty = "virtualize"
  /\ moved => changed
  /\ stage \in {"dir", "file"} => moved \/ KindAt(HostPath) = stage
  /\ stage = "failed" =>
       \/ cause = "refused"
       \/ cause = "metadata" /\ KindAt(HostPath) \notin {"dir", "file"}
       \/ cause = "read_dir" /\ KindAt(HostPath) # "dir" /\ moved
       \/ cause = "read" /\ KindAt(HostPath) # "file" /\ moved
  /\ stage = "panicked" => Listing(HostPath) \cap Garbled # {}

NamesBelow(n) == {x \in Elements(Names) : Append(n, x) \in DOMAIN tree}
ReadOK ==
  ~changed =>
    \A n \in DOMAIN tree :
      tree[n].from # <<>> /\ tree[n].ty # "virtualize" =>
        IF tree[n].ty = "dir"
        THEN /\ KindAt(tree[n].from[1]) = "dir"
             /\ NamesBelow(n) = Listing(tree[n].from[1])
        ELSE tree[n].ty = "active" /\ KindAt(tree[n].from[1]) = "file"

\* The preopens come in an order in which none is above an earlier one.
InOrder(p, q) == p = q \/ ~Leads(At[q], At[p])
Brought == {n \in DOMAIN tree : tree[n].listed}
Over(n) ==
  \A m \in Brought : Key(m) = Key(n) => Len(At[m[1]]) <= Len(At[n[1]])

FilesOK ==
  /\ \A j \in 1..Len(tasks) :
       /\ \A i \in 1..j : InOrder(tasks[i].node[1], tasks[j].node[1])
       /\ \A n \in Brought : InOrder(n[1], tasks[j].node[1])
  /\ DOMAIN virtual_files = {Key(n) : n \in Brought}
  /\ \A n \in Brought : Over(n) => virtual_files[Key(n)] = tree[n].from[1]

RInv == host \in Host /\ TreeOf(tree) /\ TasksOK /\ StageOK /\ ReadOK /\ FilesOK

(***************************************************************************)
(* Only keeps the elements that are in the set, and their order.           *)
(***************************************************************************)
KeptOf(s, keys, n, g) ==
  g = [m \in 0..n |->
         IF m = 0 THEN <<>>
         ELSE IF s[m] \in keys THEN Append(g[m - 1], s[m])
         ELSE g[m - 1]]
Kept(s, keys) == CHOOSE g : KeptOf(s, keys, Len(s), g)

LEMMA KeptExists ==
  ASSUME NEW s, NEW keys, NEW n \in Nat
  PROVE  \E g : KeptOf(s, keys, n, g)
<1> DEFINE S == {m \in 0..n : \E g : KeptOf(s, keys, m, g)}
<1>1. 0 \in S
  <2> DEFINE g == [m \in 0..0 |-> <<>>]
  <2>1. KeptOf(s, keys, 0, g)
    BY DEF KeptOf
  <2> QED
    BY <2>1
<1>2. ASSUME NEW m \in 0..(n - 1), m \in S
      PROVE  m + 1 \in S
  <2>1. PICK g : KeptOf(s, keys, m, g)
    BY <1>2
  <2> DEFINE more == IF s[m + 1] \in keys THEN Append(g[m], s[m + 1]) ELSE g[m]
             h == [l \in 0..(m + 1) |-> IF l = m + 1 THEN more ELSE g[l]]
  <2>2. ASSUME NEW l \in 0..(m + 1)
        PROVE  h[l] = IF l = 0 THEN <<>>
                      ELSE IF s[l] \in keys THEN Append(h[l - 1], s[l])
                      ELSE h[l - 1]
    <3>1. CASE l = m + 1
      BY <3>1
    <3>2. CASE l \in 0..m
      <4>1. h[l] = g[l] /\ (l # 0 => h[l - 1] = g[l - 1])
        BY <3>2
      <4>2. g[l] = IF l = 0 THEN <<>>
                   ELSE IF s[l] \in keys THEN Append(g[l - 1], s[l])
                   ELSE g[l - 1]
        BY <2>1, <3>2 DEF KeptOf
      <4> HIDE DEF h
      <4> QED
        BY <4>1, <4>2
    <3> QED
      BY <3>1, <3>2
  <2>3. KeptOf(s, keys, m + 1, h)
    BY <2>2 DEF KeptOf
  <2> QED
    BY <2>3
<1> HIDE DEF S
<1>3. n \in S
  BY <1>1, <1>2, UpToInduction
<1> QED
  BY <1>3 DEF S

LEMMA KeptSteps ==
  ASSUME NEW s, NEW keys, NEW n \in Nat, Len(s) = n
  PROVE  LET K == Kept(s, keys)
         IN  /\ K[0] = <<>>
             /\ \A m \in 1..n :
                  K[m] = IF s[m] \in keys THEN Append(K[m - 1], s[m]) ELSE K[m - 1]
             /\ Only(s, keys) = K[n]
<1> DEFINE K == Kept(s, keys)
<1>1. KeptOf(s, keys, n, K)
  BY KeptExists DEF Kept
<1>2. Only(s, keys) = K[n]
  BY DEF Only, Kept, KeptOf
<1> HIDE DEF K
<1>3. K = [m \in 0..n |->
             IF m = 0 THEN <<>>
             ELSE IF s[m] \in keys THEN Append(K[m - 1], s[m])
             ELSE K[m - 1]]
  BY <1>1 DEF KeptOf
<1>4. 0 \in 0..n /\ \A m \in 1..n : m \in 0..n /\ m # 0
  OBVIOUS
<1>5. /\ K[0] = <<>>
      /\ \A m \in 1..n :
           K[m] = IF s[m] \in keys THEN Append(K[m - 1], s[m]) ELSE K[m - 1]
  BY <1>3, <1>4
<1> QED
  BY <1>2, <1>5 DEF K

\* What the loop has after m elements.
KeptTo(s, keys, o, m) ==
  /\ \A i \in 1..Len(o) : \E a \in 1..m : o[i] = s[a] /\ s[a] \in keys
  /\ \A a \in 1..m : s[a] \in keys => \E i \in 1..Len(o) : o[i] = s[a]
  /\ \A j \in 1..Len(o) : \A i \in 1..(j - 1) :
       \E b \in 1..m : \E a \in 1..(b - 1) : o[i] = s[a] /\ o[j] = s[b]

LEMMA KeepsOne ==
  ASSUME NEW S, NEW s \in Seq(S), NEW keys, NEW o \in Seq(S),
         NEW m \in Nat, m + 1 <= Len(s), KeptTo(s, keys, o, m)
  PROVE  LET p == IF s[m + 1] \in keys THEN Append(o, s[m + 1]) ELSE o
         IN  p \in Seq(S) /\ KeptTo(s, keys, p, m + 1)
<1>0. s[m + 1] \in S
  OBVIOUS
<1>1. CASE s[m + 1] \notin keys
  <2>1. KeptTo(s, keys, o, m + 1)
    BY <1>1 DEF KeptTo
  <2> QED
    BY <1>1, <2>1
<1>2. CASE s[m + 1] \in keys
  <2> DEFINE p == Append(o, s[m + 1])
             n == Len(o)
  <2>1. /\ p \in Seq(S) /\ Len(p) = n + 1 /\ n \in Nat
        /\ p[n + 1] = s[m + 1]
        /\ \A i \in 1..n : p[i] = o[i]
    BY <1>0
  <2>2. /\ \A i \in 1..n : \E a \in 1..m : o[i] = s[a] /\ s[a] \in keys
        /\ \A a \in 1..m : s[a] \in keys => \E i \in 1..n : o[i] = s[a]
        /\ \A j \in 1..n : \A i \in 1..(j - 1) :
             \E b \in 1..m : \E a \in 1..(b - 1) : o[i] = s[a] /\ o[j] = s[b]
    BY DEF KeptTo
  <2> HIDE DEF p, n
  <2>3. ASSUME NEW i \in 1..(n + 1)
        PROVE  \E a \in 1..(m + 1) : p[i] = s[a] /\ s[a] \in keys
    <3>1. CASE i = n + 1
      BY <1>2, <2>1, <3>1
    <3>2. CASE i \in 1..n
      <4>1. PICK a \in 1..m : o[i] = s[a] /\ s[a] \in keys
        BY <2>2, <3>2
      <4> QED
        BY <2>1, <3>2, <4>1
    <3> QED
      BY <2>1, <3>1, <3>2
  <2>4. ASSUME NEW a \in 1..(m + 1), s[a] \in keys
        PROVE  \E i \in 1..(n + 1) : p[i] = s[a]
    BY <1>2, <2>1, <2>2, <2>4
  <2>5. ASSUME NEW j \in 1..(n + 1), NEW i \in 1..(j - 1)
        PROVE  \E b \in 1..(m + 1) : \E a \in 1..(b - 1) : p[i] = s[a] /\ p[j] = s[b]
    <3>1. CASE j \in 1..n
      <4>1. PICK b \in 1..m : \E a \in 1..(b - 1) : o[i] = s[a] /\ o[j] = s[b]
        BY <2>2, <3>1
      <4>2. i \in 1..n
        BY <3>1, <2>1
      <4> QED
        BY <2>1, <3>1, <4>1, <4>2
    <3>2. CASE j = n + 1
      BY <2>1, <2>2, <3>2
    <3> QED
      BY <2>1, <3>1, <3>2
  <2>6. KeptTo(s, keys, p, m + 1)
    BY <2>1, <2>3, <2>4, <2>5 DEF KeptTo
  <2> QED
    BY <1>2, <2>1, <2>6 DEF p
<1> QED
  BY <1>1, <1>2

LEMMA OnlyKeeps ==
  ASSUME NEW S, NEW s \in Seq(S), NEW keys
  PROVE  Only(s, keys) \in Seq(S) /\ KeptTo(s, keys, Only(s, keys), Len(s))
<1> DEFINE n == Len(s)
           K == Kept(s, keys)
           T == {m \in 0..n : K[m] \in Seq(S) /\ KeptTo(s, keys, K[m], m)}
<1>0. n \in Nat
  OBVIOUS
<1>1. /\ K[0] = <<>>
      /\ \A m \in 1..n :
           K[m] = IF s[m] \in keys THEN Append(K[m - 1], s[m]) ELSE K[m - 1]
      /\ Only(s, keys) = K[n]
  BY KeptSteps
<1> HIDE DEF K
<1>2. 0 \in T
  <2>1. KeptTo(s, keys, <<>>, 0)
    BY DEF KeptTo
  <2>2. 0 \in 0..n /\ <<>> \in Seq(S)
    BY <1>0
  <2> QED
    BY <1>1, <2>1, <2>2
<1>3. ASSUME NEW m \in 0..(n - 1), m \in T
      PROVE  m + 1 \in T
  <2>1. K[m + 1] = IF s[m + 1] \in keys THEN Append(K[m], s[m + 1]) ELSE K[m]
    <3>1. m + 1 \in 1..n /\ (m + 1) - 1 = m
      BY <1>0
    <3> QED
      BY <1>1, <3>1
  <2>2. K[m] \in Seq(S) /\ KeptTo(s, keys, K[m], m) /\ m \in Nat /\ m + 1 <= Len(s)
    BY <1>3
  <2>3. K[m + 1] \in Seq(S) /\ KeptTo(s, keys, K[m + 1], m + 1)
    BY <2>1, <2>2, KeepsOne
  <2> QED
    BY <1>0, <2>3
<1> HIDE DEF T, n
<1>4. n \in T
  <2>1. \A m \in 0..(n - 1) : m \in T => m + 1 \in T
    BY <1>3
  <2>2. 0..n \subseteq T
    BY <1>0, <1>2, <2>1, UpToInduction
  <2> QED
    BY <1>0, <2>2
<1> QED
  BY <1>1, <1>4 DEF T, n

LEMMA OnlyElements ==
  ASSUME NEW S, NEW s \in Seq(S), NEW keys
  PROVE  /\ Only(s, keys) \in Seq(S)
         /\ \A x : (\E i \in 1..Len(Only(s, keys)) : Only(s, keys)[i] = x)
                     <=> x \in Elements(s) /\ x \in keys
<1> DEFINE o == Only(s, keys)
<1>1. o \in Seq(S) /\ KeptTo(s, keys, o, Len(s))
  BY OnlyKeeps
<1> HIDE DEF o
<1>2. /\ \A i \in 1..Len(o) : \E a \in 1..Len(s) : o[i] = s[a] /\ s[a] \in keys
      /\ \A a \in 1..Len(s) : s[a] \in keys => \E i \in 1..Len(o) : o[i] = s[a]
  BY <1>1 DEF KeptTo
<1>3. ASSUME NEW x
      PROVE  (\E i \in 1..Len(o) : o[i] = x) <=> x \in Elements(s) /\ x \in keys
  BY <1>2 DEF Elements
<1> QED
  BY <1>1, <1>3 DEF o

(***************************************************************************)
(* Every path leads to a node of the host.                                 *)
(***************************************************************************)
Entered(h, from, x) ==
  IF x \in DOMAIN h[from].entries THEN h[from].entries[x] ELSE Gone
HostWalkOf(h, path, n, g) ==
  g = [m \in 0..n |-> IF m = 0 THEN Root ELSE Entered(h, g[m - 1], path[m])]
HostWalk(h, path) == CHOOSE g : HostWalkOf(h, path, Len(path), g)

LEMMA HostWalkExists ==
  ASSUME NEW h, NEW path, NEW n \in Nat
  PROVE  \E g : HostWalkOf(h, path, n, g)
<1> DEFINE S == {m \in 0..n : \E g : HostWalkOf(h, path, m, g)}
<1>1. 0 \in S
  <2> DEFINE g == [m \in 0..0 |-> Root]
  <2>1. HostWalkOf(h, path, 0, g)
    BY DEF HostWalkOf
  <2> QED
    BY <2>1
<1>2. ASSUME NEW m \in 0..(n - 1), m \in S
      PROVE  m + 1 \in S
  <2>1. PICK g : HostWalkOf(h, path, m, g)
    BY <1>2
  <2> DEFINE f == [l \in 0..(m + 1) |->
                     IF l = m + 1 THEN Entered(h, g[m], path[m + 1]) ELSE g[l]]
  <2>2. ASSUME NEW l \in 0..(m + 1)
        PROVE  f[l] = IF l = 0 THEN Root ELSE Entered(h, f[l - 1], path[l])
    <3>1. CASE l = m + 1
      BY <3>1
    <3>2. CASE l \in 0..m
      <4>1. f[l] = g[l] /\ (l # 0 => f[l - 1] = g[l - 1])
        BY <3>2
      <4>2. g[l] = IF l = 0 THEN Root ELSE Entered(h, g[l - 1], path[l])
        BY <2>1, <3>2 DEF HostWalkOf
      <4> HIDE DEF f
      <4> QED
        BY <4>1, <4>2
    <3> QED
      BY <3>1, <3>2
  <2>3. HostWalkOf(h, path, m + 1, f)
    BY <2>2 DEF HostWalkOf
  <2> QED
    BY <2>3
<1> HIDE DEF S
<1>3. n \in S
  BY <1>1, <1>2, UpToInduction
<1> QED
  BY <1>3 DEF S

LEMMA ResolvesIn ==
  ASSUME host \in Host, NEW path \in Path
  PROVE  Resolve(path) \in HostNode
<1> DEFINE n == Len(path)
           W == HostWalk(host, path)
           S == {m \in 0..n : W[m] \in HostNode}
<1>0. n \in Nat
  BY DEF Path
<1>1. HostWalkOf(host, path, n, W)
  BY <1>0, HostWalkExists DEF HostWalk
<1>2. Resolve(path) = IF n > MaxPath THEN Gone ELSE W[n]
  BY DEF Resolve, HostWalk, HostWalkOf, Entered
<1> HIDE DEF W, n
<1>3. W = [m \in 0..n |-> IF m = 0 THEN Root ELSE Entered(host, W[m - 1], path[m])]
  BY <1>1 DEF HostWalkOf
<1>4. 0 \in S
  BY <1>0, <1>3, HostAssumption
<1>5. ASSUME NEW m \in 0..(n - 1), m \in S
      PROVE  m + 1 \in S
  <2>1. m + 1 \in 0..n /\ m + 1 # 0 /\ (m + 1) - 1 = m /\ W[m] \in HostNode
    BY <1>0, <1>5
  <2>2. W[m + 1] = Entered(host, W[m], path[m + 1])
    BY <1>3, <2>1
  <2>3. PICK D : host[W[m]].entries \in [D -> HostNode]
    <3>1. host[W[m]].entries \in UNION {[D -> HostNode] : D \in SUBSET Elements(Names)}
      BY <2>1 DEF Host
    <3> QED
      BY <3>1
  <2>4. Entered(host, W[m], path[m + 1]) \in HostNode
    BY <2>3, HostAssumption DEF Entered
  <2> QED
    BY <2>1, <2>2, <2>4
<1> HIDE DEF S
<1>6. n \in S
  BY <1>0, <1>4, <1>5, UpToInduction
<1> QED
  BY <1>2, <1>6, HostAssumption DEF S

LEMMA ListingNames ==
  ASSUME host \in Host, NEW path \in Path
  PROVE  Listing(path) \subseteq Elements(Names)
<1>1. Resolve(path) \in HostNode
  BY ResolvesIn
<1> QED
  BY <1>1 DEF Listing, Host

(***************************************************************************)
(* Paths.                                                                  *)
(***************************************************************************)
LEMMA PathParts ==
  ASSUME NEW n \in Path, n # <<>>
  PROVE  /\ Len(n) \in Nat /\ Len(n) >= 1 /\ \A i \in 1..Len(n) : n[i] \in STRING
         /\ SubSeq(n, 1, Len(n)) = n
         /\ \A k \in 1..Len(n) :
              /\ SubSeq(n, 1, k) \in Path /\ Len(SubSeq(n, 1, k)) = k
              /\ \A i \in 1..k : SubSeq(n, 1, k)[i] = n[i]
<1>1. n \in Seq(STRING)
  BY DEF Path
<1>2. Len(n) \in Nat /\ Len(n) >= 1 /\ \A i \in 1..Len(n) : n[i] \in STRING
  BY <1>1
<1>3. SubSeq(n, 1, Len(n)) = n
  BY <1>1, SubSeqFull
<1>4. ASSUME NEW k \in 1..Len(n)
      PROVE  /\ SubSeq(n, 1, k) \in Seq(STRING) /\ Len(SubSeq(n, 1, k)) = k
             /\ \A i \in 1..k : SubSeq(n, 1, k)[i] = n[i]
  BY <1>1, <1>2
<1> QED
  BY <1>2, <1>3, <1>4 DEF Path

LEMMA SamePath ==
  ASSUME NEW n \in Path, NEW m \in Path, Len(n) = Len(m),
         \A i \in 1..Len(n) : n[i] = m[i]
  PROVE  n = m
BY SeqEqual DEF Path

LEMMA PrefixOfPrefix ==
  ASSUME NEW n \in Path, n # <<>>, NEW k \in 1..Len(n), NEW j \in 1..k
  PROVE  SubSeq(SubSeq(n, 1, k), 1, j) = SubSeq(n, 1, j)
<1> DEFINE p == SubSeq(n, 1, k)
<1>1. p \in Path /\ Len(p) = k /\ Len(n) \in Nat /\ \A i \in 1..k : p[i] = n[i]
  BY PathParts
<1>2. p # <<>> /\ j \in 1..Len(n)
  BY <1>1
<1> HIDE DEF p
<1>3. /\ SubSeq(p, 1, j) \in Path /\ Len(SubSeq(p, 1, j)) = j
      /\ \A i \in 1..j : SubSeq(p, 1, j)[i] = p[i]
  BY <1>1, <1>2, PathParts
<1>4. /\ SubSeq(n, 1, j) \in Path /\ Len(SubSeq(n, 1, j)) = j
      /\ \A i \in 1..j : SubSeq(n, 1, j)[i] = n[i]
  BY <1>2, PathParts
<1>5. \A i \in 1..j : SubSeq(p, 1, j)[i] = SubSeq(n, 1, j)[i]
  BY <1>1, <1>3, <1>4
<1>6. SubSeq(p, 1, j) = SubSeq(n, 1, j)
  BY <1>3, <1>4, <1>5, SamePath
<1> QED
  BY <1>6 DEF p

LEMMA ChildPath ==
  ASSUME NEW n \in Path, NEW x \in STRING
  PROVE  LET p == Append(n, x)
         IN  /\ p \in Path /\ p # <<>> /\ Len(p) = Len(n) + 1 /\ p[Len(n) + 1] = x
             /\ \A i \in 1..Len(n) : p[i] = n[i]
<1>1. n \in Seq(STRING)
  BY DEF Path
<1>2. /\ Append(n, x) \in Seq(STRING) /\ Append(n, x) # <<>>
      /\ Len(Append(n, x)) = Len(n) + 1
      /\ \A i \in 1..Len(n) : Append(n, x)[i] = n[i]
      /\ Append(n, x)[Len(n) + 1] = x
  <2>1. Append(n, x) \in Seq(STRING)
    BY <1>1, AppendProperties
  <2>2. Append(n, x) # <<>>
    BY <1>1, AppendProperties
  <2>3. Len(Append(n, x)) = Len(n) + 1
    BY <1>1, AppendProperties
  <2>4. \A i \in 1..Len(n) : Append(n, x)[i] = n[i]
    BY <1>1, AppendProperties
  <2>5. Append(n, x)[Len(n) + 1] = x
    BY <1>1, AppendProperties
  <2> QED
    BY <2>1, <2>2, <2>3, <2>4, <2>5
<1> QED
  BY <1>2 DEF Path

LEMMA ChildPrefix ==
  ASSUME NEW n \in Path, n # <<>>, NEW x \in STRING, NEW k \in 1..Len(n)
  PROVE  SubSeq(Append(n, x), 1, k) = SubSeq(n, 1, k)
<1> DEFINE p == Append(n, x)
<1>1. /\ p \in Path /\ p # <<>> /\ Len(p) = Len(n) + 1
      /\ \A i \in 1..Len(n) : p[i] = n[i]
  BY ChildPath
<1>2. Len(n) \in Nat
  BY PathParts
<1> HIDE DEF p
<1>3. k \in 1..Len(p)
  BY <1>1, <1>2
<1>4. /\ SubSeq(p, 1, k) \in Path /\ Len(SubSeq(p, 1, k)) = k
      /\ \A i \in 1..k : SubSeq(p, 1, k)[i] = p[i]
  BY <1>1, <1>3, PathParts
<1>5. /\ SubSeq(n, 1, k) \in Path /\ Len(SubSeq(n, 1, k)) = k
      /\ \A i \in 1..k : SubSeq(n, 1, k)[i] = n[i]
  BY PathParts
<1>6. \A i \in 1..k : SubSeq(p, 1, k)[i] = SubSeq(n, 1, k)[i]
  BY <1>1, <1>2, <1>4, <1>5
<1>7. SubSeq(p, 1, k) = SubSeq(n, 1, k)
  BY <1>4, <1>5, <1>6, SamePath
<1> QED
  BY <1>7 DEF p

LEMMA ChildDiffers ==
  ASSUME NEW n \in Path, NEW m \in Path, NEW x \in STRING, NEW y \in STRING,
         Append(n, x) = Append(m, y)
  PROVE  n = m /\ x = y
<1> DEFINE p == Append(n, x)
<1>1. Len(n) \in Nat /\ Len(m) \in Nat
  BY DEF Path
<1>2. /\ Len(p) = Len(n) + 1 /\ p[Len(n) + 1] = x
      /\ \A i \in 1..Len(n) : p[i] = n[i]
  BY ChildPath
<1>3. /\ Len(p) = Len(m) + 1 /\ p[Len(m) + 1] = y
      /\ \A i \in 1..Len(m) : p[i] = m[i]
  <2>1. p = Append(m, y)
    OBVIOUS
  <2> HIDE DEF p
  <2> QED
    BY <2>1, ChildPath
<1> HIDE DEF p
<1>4. Len(n) = Len(m) /\ x = y
  <2>1. Len(n) = Len(m)
    BY <1>1, <1>2, <1>3
  <2> QED
    BY <1>2, <1>3, <2>1
<1>5. \A i \in 1..Len(n) : n[i] = m[i]
  BY <1>2, <1>3, <1>4
<1> QED
  BY <1>4, <1>5, SamePath

\* The first entry on the way from a directory to what is below it.
LEMMA AboveChild ==
  ASSUME NEW m \in Path, m # <<>>, NEW n \in Path, n # <<>>, Above(m, n)
  PROVE  /\ Len(m) + 1 \in 1..Len(n)
         /\ SubSeq(n, 1, Len(m) + 1) = Append(m, n[Len(m) + 1])
<1> DEFINE k == Len(m)
           x == n[k + 1]
           p == SubSeq(n, 1, k + 1)
           q == Append(m, x)
<1>1. k \in Nat /\ Len(n) \in Nat /\ k + 1 \in 1..Len(n) /\ k \in 1..Len(n)
  BY PathParts DEF Above
<1>2. x \in STRING
  BY <1>1, PathParts
<1>3. p \in Path /\ Len(p) = k + 1 /\ \A i \in 1..(k + 1) : p[i] = n[i]
  BY <1>1, PathParts
<1>4. \A i \in 1..k : m[i] = n[i]
  <2>1. m = SubSeq(n, 1, k)
    BY DEF Above
  <2>2. \A i \in 1..k : SubSeq(n, 1, k)[i] = n[i]
    BY <1>1, PathParts
  <2> HIDE DEF k
  <2> QED
    BY <2>1, <2>2
<1>5. q \in Path /\ Len(q) = k + 1 /\ q[k + 1] = x /\ \A i \in 1..k : q[i] = m[i]
  BY <1>2, ChildPath
<1>6. x = n[k + 1]
  OBVIOUS
<1> HIDE DEF k, x, p, q
<1>7. \A i \in 1..(k + 1) : p[i] = q[i]
  BY <1>1, <1>3, <1>4, <1>5, <1>6
<1>8. p = q
  BY <1>3, <1>5, <1>7, SamePath
<1> QED
  BY <1>1, <1>8 DEF p, q, k, x

(***************************************************************************)
(* What an entry stands for is where it says it was read.                  *)
(***************************************************************************)
LEMMA EntryParts ==
  ASSUME NEW t, TreeOf(t), NEW n \in DOMAIN t
  PROVE  /\ n \in Path /\ n # <<>> /\ t[n] \in Entry
         /\ n[1] \in Elements(Preopens)
         /\ \A i \in 2..Len(n) : n[i] \in Elements(Names)
         /\ \A k \in 1..Len(n) : SubSeq(n, 1, k) \in DOMAIN t
         /\ \A k \in 1..(Len(n) - 1) : t[SubSeq(n, 1, k)].ty = "dir"
         /\ \/ t[n].from = <<>> /\ Len(t[n].from) = 0
            \/ t[n].from # <<>> /\ Len(t[n].from) = 1 /\ t[n].from[1] \in Path
<1>1. /\ t \in [DOMAIN t -> Entry]
      /\ n \in Path /\ n # <<>>
      /\ n[1] \in Elements(Preopens)
      /\ \A i \in 2..Len(n) : n[i] \in Elements(Names)
      /\ \A k \in 1..(Len(n) - 1) :
           SubSeq(n, 1, k) \in DOMAIN t /\ t[SubSeq(n, 1, k)].ty = "dir"
  BY DEF TreeOf, Filesystem
<1>2. t[n] \in Entry
  BY <1>1
<1>3. ASSUME NEW k \in 1..Len(n)
      PROVE  SubSeq(n, 1, k) \in DOMAIN t
  <2>1. Len(n) \in Nat /\ SubSeq(n, 1, Len(n)) = n
    BY <1>1, PathParts
  <2>2. k \in 1..(Len(n) - 1) \/ k = Len(n)
    <3> DEFINE l == Len(n)
    <3>1. l \in Nat /\ k \in 1..l
      BY <2>1
    <3> HIDE DEF l
    <3>2. k \in 1..(l - 1) \/ k = l
      BY <3>1
    <3> QED
      BY <3>2 DEF l
  <2>3. CASE k = Len(n)
    BY <2>1, <2>3
  <2>4. CASE k \in 1..(Len(n) - 1)
    BY <1>1, <2>4
  <2> QED
    BY <2>2, <2>3, <2>4
<1>4. Len(t[n].from) <= 1
  BY DEF TreeOf
<1>5. t[n].from \in Seq(Path)
  BY <1>2 DEF Entry
<1>6. \/ t[n].from = <<>> /\ Len(t[n].from) = 0
      \/ t[n].from # <<>> /\ Len(t[n].from) = 1 /\ t[n].from[1] \in Path
  <2> DEFINE f == t[n].from
  <2>1. f \in Seq(Path) /\ Len(f) <= 1
    BY <1>4, <1>5
  <2> HIDE DEF f
  <2>2. \/ f = <<>> /\ Len(f) = 0
        \/ f # <<>> /\ Len(f) = 1 /\ f[1] \in Path
    <3>1. CASE Len(f) = 0
      BY <2>1, <3>1, EmptySeq
    <3>2. CASE Len(f) = 1
      <4>1. 1 \in 1..Len(f)
        BY <3>2
      <4>2. f[1] \in Path
        BY <2>1, <4>1, ElementOfSeq
      <4>3. f # <<>>
        BY <3>2, EmptySeq
      <4> QED
        BY <3>2, <4>2, <4>3
    <3>3. Len(f) \in Nat
      BY <2>1, LenProperties
    <3>4. Len(f) = 0 \/ Len(f) = 1
      <4> DEFINE l == Len(f)
      <4>1. l \in Nat /\ l <= 1
        BY <2>1, <3>3
      <4> HIDE DEF l
      <4>2. l = 0 \/ l = 1
        BY <4>1
      <4> QED
        BY <4>2 DEF l
    <3> QED
      BY <3>1, <3>2, <3>4
  <2> QED
    BY <2>2 DEF f
<1> QED
  BY <1>1, <1>2, <1>3, <1>6

LEMMA SourceIs ==
  ASSUME TreeOf(tree), NEW n \in DOMAIN tree
  PROVE  /\ OfHost(n) <=> tree[n].from # <<>>
         /\ tree[n].from # <<>> => Source(n) = tree[n].from[1]
<1>1. PICK k \in 1..Len(n) : From(tree, n, k)
  BY DEF TreeOf
<1>2. /\ ~tree[SubSeq(n, 1, k)].listed
      /\ \A j \in (k + 1)..Len(n) : tree[SubSeq(n, 1, j)].listed
      /\ Len(tree[n].from) = Len(tree[SubSeq(n, 1, k)].from)
      /\ tree[n].from # <<>> =>
           tree[n].from[1] = tree[SubSeq(n, 1, k)].from[1] \o SubSeq(n, k + 1, Len(n))
  BY <1>1 DEF From
<1>3. Len(n) \in Nat
  BY EntryParts, PathParts
<1>4. Configured(n) = k
  <2>1. ASSUME NEW l \in 1..Len(n), ~tree[SubSeq(n, 1, l)].listed,
               \A j \in (l + 1)..Len(n) : tree[SubSeq(n, 1, j)].listed
        PROVE  l = k
    <3>1. ~(l < k)
      BY <1>2, <1>3, <2>1
    <3>2. ~(k < l)
      BY <1>2, <1>3, <2>1
    <3> QED
      BY <1>3, <3>1, <3>2
  <2> QED
    BY <1>2, <2>1 DEF Configured
<1>5. SubSeq(n, 1, k) \in DOMAIN tree
  BY EntryParts
<1>6. tree[n].from # <<>> <=> tree[SubSeq(n, 1, k)].from # <<>>
  <2>1. \/ tree[n].from = <<>> /\ Len(tree[n].from) = 0
        \/ tree[n].from # <<>> /\ Len(tree[n].from) = 1
    BY EntryParts
  <2>2. LET m == SubSeq(n, 1, k)
        IN  \/ tree[m].from = <<>> /\ Len(tree[m].from) = 0
            \/ tree[m].from # <<>> /\ Len(tree[m].from) = 1
    BY <1>5, EntryParts
  <2> QED
    BY <1>2, <2>1, <2>2
<1> QED
  BY <1>2, <1>4, <1>6 DEF OfHost, Source

LEMMA NamesAreStrings ==
  Elements(Names) \subseteq STRING /\ Elements(Preopens) \subseteq STRING
BY SetupsAssumption DEF Elements

(***************************************************************************)
(* A directory of the host is read into the tree.                          *)
(***************************************************************************)
Below(c, names) == {Append(c, x) : x \in names}
Entries(path, c, names) ==
  [n \in Below(c, names) |-> Virtualize(Full(path, n[Len(n)]), TRUE)]
Read(t, c, names) ==
  Extend([t EXCEPT ![c].ty = "dir"], Entries(t[c].from[1], c, names))

Grown(t, c, names, g) ==
  /\ g \in [DOMAIN t \cup Below(c, names) -> Entry]
  /\ g[c].ty = "dir" /\ g[c].from = t[c].from /\ g[c].listed = t[c].listed
  /\ \A n \in DOMAIN t \ {c} : g[n] = t[n]
  /\ \A x \in names :
       /\ Append(c, x) \notin DOMAIN t
       /\ g[Append(c, x)] = Virtualize(Append(t[c].from[1], x), TRUE)

LEMMA VirtualizeIs ==
  ASSUME NEW path \in Path
  PROVE  /\ Virtualize(path, TRUE) \in Entry
         /\ Virtualize(path, TRUE).ty = "virtualize"
         /\ Virtualize(path, TRUE).listed
         /\ Virtualize(path, TRUE).from # <<>>
         /\ Len(Virtualize(path, TRUE).from) = 1
         /\ Virtualize(path, TRUE).from[1] = path
<1>1. <<path>> \in Seq(Path) /\ Len(<<path>>) = 1 /\ <<path>>[1] = path
  OBVIOUS
<1>2. <<path>> # <<>>
  OBVIOUS
<1> DEFINE f == <<path>>
<1> HIDE DEF f
<1>3. Virtualize(path, TRUE) = [ty |-> "virtualize", from |-> f, listed |-> TRUE]
  BY DEF Virtualize, f
<1>4. f \in Seq(Path) /\ Len(f) = 1 /\ f[1] = path /\ f # <<>>
  BY <1>1, <1>2 DEF f
<1>5. [ty |-> "virtualize", from |-> f, listed |-> TRUE] \in Entry
  <2>1. "virtualize" \in Types
    BY DEF Types, DirTypes
  <2> QED
    BY <1>4, <2>1, Zenon DEF Entry
<1>6. /\ [ty |-> "virtualize", from |-> f, listed |-> TRUE].ty = "virtualize"
      /\ [ty |-> "virtualize", from |-> f, listed |-> TRUE].from = f
      /\ [ty |-> "virtualize", from |-> f, listed |-> TRUE].listed
  BY Zenon
<1> QED
  BY <1>3, <1>4, <1>5, <1>6, Zenon

LEMMA Reads ==
  ASSUME NEW t, TreeOf(t), NEW c \in DOMAIN t, t[c].ty = "virtualize",
         NEW names \in SUBSET Elements(Names)
  PROVE  Grown(t, c, names, Read(t, c, names))
<1> DEFINE path == t[c].from[1]
           e == Entries(path, c, names)
           u == [t EXCEPT ![c].ty = "dir"]
           g == Read(t, c, names)
<1>1. c \in Path /\ c # <<>> /\ t[c] \in Entry /\ path \in Path
  <2>1. t[c].from # <<>>
    BY DEF TreeOf
  <2> QED
    BY <2>1, EntryParts
<1>2. t \in [DOMAIN t -> Entry]
  BY DEF TreeOf, Filesystem
<1>3. /\ DOMAIN u = DOMAIN t
      /\ u[c] = [ty |-> "dir", from |-> t[c].from, listed |-> t[c].listed]
      /\ \A n \in DOMAIN t \ {c} : u[n] = t[n]
  BY <1>1, <1>2 DEF Entry
<1>4. ASSUME NEW x \in names
      PROVE  /\ Append(c, x) \notin DOMAIN t
             /\ Append(c, x) \in DOMAIN e
             /\ e[Append(c, x)] = Virtualize(Append(path, x), TRUE)
             /\ Append(path, x) \in Path
  <2> DEFINE p == Append(c, x)
  <2>0. x \in STRING /\ Len(c) \in Nat
    BY <1>1, NamesAreStrings, PathParts
  <2>1. p \in Path /\ p # <<>> /\ Len(p) = Len(c) + 1 /\ p[Len(c) + 1] = x
    BY <1>1, <2>0, ChildPath
  <2>2. SubSeq(p, 1, Len(c)) = c
    <3>1. Len(c) \in 1..Len(c) /\ SubSeq(c, 1, Len(c)) = c
      BY <1>1, PathParts
    <3> QED
      BY <1>1, <2>0, <3>1, ChildPrefix
  <2>3. p \in Below(c, names)
    BY DEF Below
  <2>4. Append(path, x) \in Path
    BY <1>1, <2>0, ChildPath
  <2> HIDE DEF p
  <2>5. p \notin DOMAIN t
    <3> SUFFICES ASSUME p \in DOMAIN t PROVE FALSE
      OBVIOUS
    <3>1. Len(c) \in 1..(Len(p) - 1)
      BY <1>1, <2>0, <2>1, PathParts
    <3>2. t[SubSeq(p, 1, Len(c))].ty = "dir"
      BY <3>1, EntryParts
    <3> QED
      BY <2>2, <3>2
  <2>6. e[p] = Virtualize(Append(path, p[Len(p)]), TRUE)
    BY <2>3 DEF Entries, Full
  <2>7. p \in DOMAIN e
    BY <2>3 DEF Entries
  <2> HIDE DEF e, path
  <2>8. e[p] = Virtualize(Append(path, x), TRUE)
    BY <2>1, <2>6
  <2> QED
    BY <2>4, <2>5, <2>7, <2>8 DEF p
<1>5. DOMAIN e = Below(c, names)
  BY DEF Entries
<1>6. g = [k \in DOMAIN u \cup DOMAIN e |-> IF k \in DOMAIN e THEN e[k] ELSE u[k]]
  BY DEF Read, Extend
<1> HIDE DEF e, u, g, path
<1>7. DOMAIN t \cap DOMAIN e = {}
  BY <1>4, <1>5 DEF Below
<1>8. \A n \in DOMAIN t : g[n] = u[n]
  BY <1>3, <1>6, <1>7
<1>9. \A x \in names : g[Append(c, x)] = Virtualize(Append(path, x), TRUE)
  BY <1>4, <1>6
<1>10. g \in [DOMAIN t \cup Below(c, names) -> Entry]
  <2>1. ASSUME NEW n \in DOMAIN t \cup Below(c, names)
        PROVE  g[n] \in Entry
    <3>1. CASE n = c
      <4>1. t[c].from \in Seq(Path) /\ t[c].listed \in BOOLEAN
        BY <1>1 DEF Entry
      <4>2. [ty |-> "dir", from |-> t[c].from, listed |-> t[c].listed] \in Entry
        <5>1. "dir" \in Types
          BY DEF Types, EntryTypes, DirTypes
        <5> QED
          BY <4>1, <5>1, Zenon DEF Entry
      <4> QED
        BY <1>3, <1>8, <3>1, <4>2
    <3>2. CASE n \in DOMAIN t \ {c}
      BY <1>2, <1>3, <1>8, <3>2
    <3>3. CASE n \in Below(c, names)
      <4>1. PICK x \in names : n = Append(c, x)
        BY <3>3 DEF Below
      <4>2. Append(path, x) \in Path
        BY <1>4
      <4>3. Virtualize(Append(path, x), TRUE) \in Entry
        BY <4>2, VirtualizeIs
      <4> QED
        BY <1>9, <4>1, <4>3
    <3> QED
      BY <3>1, <3>2, <3>3
  <2> QED
    BY <1>3, <1>5, <1>6, <2>1
<1>11. g[c].ty = "dir" /\ g[c].from = t[c].from /\ g[c].listed = t[c].listed
  BY <1>3, <1>8
<1>12. \A n \in DOMAIN t \ {c} : g[n] = t[n]
  BY <1>3, <1>8
<1>13. Grown(t, c, names, g)
  BY <1>4, <1>9, <1>10, <1>11, <1>12 DEF Grown, path
<1> QED
  BY <1>13 DEF g

(***************************************************************************)
(* The tree is still one, and every entry says where it is from.           *)
(***************************************************************************)
LEMMA GrownFilesystem ==
  ASSUME NEW t, TreeOf(t), NEW c \in DOMAIN t, t[c].ty = "virtualize",
         NEW names \in SUBSET Elements(Names), NEW g, Grown(t, c, names, g)
  PROVE  Filesystem(g)
<1>1. /\ DOMAIN g = DOMAIN t \cup Below(c, names)
      /\ g \in [DOMAIN g -> Entry]
      /\ \A n \in DOMAIN t : t[n].ty = "dir" => g[n].ty = "dir"
      /\ g[c].ty = "dir"
  BY DEF Grown
<1>2. ASSUME NEW n \in DOMAIN t
      PROVE  /\ n \in Path /\ n # <<>>
             /\ n[1] \in Elements(Preopens)
             /\ \A i \in 2..Len(n) : n[i] \in Elements(Names)
             /\ \A k \in 1..(Len(n) - 1) :
                  SubSeq(n, 1, k) \in DOMAIN g /\ g[SubSeq(n, 1, k)].ty = "dir"
  <2>1. /\ n \in Path /\ n # <<>>
        /\ n[1] \in Elements(Preopens)
        /\ \A i \in 2..Len(n) : n[i] \in Elements(Names)
        /\ \A k \in 1..(Len(n) - 1) :
             SubSeq(n, 1, k) \in DOMAIN t /\ t[SubSeq(n, 1, k)].ty = "dir"
    BY DEF TreeOf, Filesystem
  <2> QED
    BY <1>1, <2>1
<1>3. ASSUME NEW x \in names
      PROVE  LET p == Append(c, x)
             IN  /\ p \in Path /\ p # <<>>
                 /\ p[1] \in Elements(Preopens)
                 /\ \A i \in 2..Len(p) : p[i] \in Elements(Names)
                 /\ \A k \in 1..(Len(p) - 1) :
                      SubSeq(p, 1, k) \in DOMAIN g /\ g[SubSeq(p, 1, k)].ty = "dir"
  <2> DEFINE p == Append(c, x)
             l == Len(c)
  <2>1. /\ c \in Path /\ c # <<>> /\ x \in STRING /\ l \in Nat /\ l >= 1
        /\ SubSeq(c, 1, l) = c
        /\ c[1] \in Elements(Preopens)
        /\ \A i \in 2..l : c[i] \in Elements(Names)
        /\ \A k \in 1..(l - 1) :
             SubSeq(c, 1, k) \in DOMAIN g /\ g[SubSeq(c, 1, k)].ty = "dir"
    BY <1>2, NamesAreStrings, PathParts
  <2>2. /\ p \in Path /\ p # <<>> /\ Len(p) = l + 1 /\ p[l + 1] = x
        /\ \A i \in 1..l : p[i] = c[i]
    BY <2>1, ChildPath
  <2>3. \A k \in 1..l : SubSeq(p, 1, k) = SubSeq(c, 1, k)
    BY <2>1, ChildPrefix
  <2>4. c \in DOMAIN g
    BY <1>1
  <2> HIDE DEF p, l
  <2>5. p[1] \in Elements(Preopens)
    BY <2>1, <2>2
  <2>6. \A i \in 2..Len(p) : p[i] \in Elements(Names)
    BY <2>1, <2>2
  <2>7. ASSUME NEW k \in 1..(Len(p) - 1)
        PROVE  SubSeq(p, 1, k) \in DOMAIN g /\ g[SubSeq(p, 1, k)].ty = "dir"
    <3>1. k \in 1..l /\ (k = l \/ k \in 1..(l - 1))
      BY <2>1, <2>2
    <3>2. SubSeq(p, 1, k) = SubSeq(c, 1, k)
      BY <2>3, <3>1
    <3> QED
      BY <1>1, <2>1, <2>4, <3>1, <3>2
  <2> QED
    BY <2>2, <2>5, <2>6, <2>7 DEF p
<1>4. ASSUME NEW n \in DOMAIN g
      PROVE  /\ n \in Path /\ n # <<>>
             /\ n[1] \in Elements(Preopens)
             /\ \A i \in 2..Len(n) : n[i] \in Elements(Names)
             /\ \A k \in 1..(Len(n) - 1) :
                  SubSeq(n, 1, k) \in DOMAIN g /\ g[SubSeq(n, 1, k)].ty = "dir"
  <2>1. CASE n \in DOMAIN t
    BY <1>2, <2>1
  <2>2. CASE n \in Below(c, names)
    <3>1. PICK x \in names : n = Append(c, x)
      BY <2>2 DEF Below
    <3> QED
      BY <1>3, <3>1
  <2> QED
    BY <1>1, <2>1, <2>2
<1> QED
  BY <1>1, <1>4 DEF Filesystem

LEMMA OneElement ==
  ASSUME NEW S, NEW e \in S
  PROVE  <<e>> \in Seq(S)
OBVIOUS

LEMMA SuffixGrows ==
  ASSUME NEW c \in Path, c # <<>>, NEW x \in STRING, NEW k \in 1..Len(c),
         NEW path \in Path
  PROVE  Append(path \o SubSeq(c, k + 1, Len(c)), x)
           = path \o SubSeq(Append(c, x), k + 1, Len(Append(c, x)))
<1> DEFINE l == Len(c)
           p == Append(c, x)
           s == SubSeq(c, k + 1, l)
           r == SubSeq(p, k + 1, Len(p))
<1>1. l \in Nat /\ k \in 1..l /\ c \in Seq(STRING) /\ path \in Seq(STRING)
  BY PathParts DEF Path
<1>2. /\ p \in Seq(STRING) /\ Len(p) = l + 1 /\ p[l + 1] = x
      /\ \A i \in 1..l : p[i] = c[i]
  BY ChildPath DEF Path
<1>3. r = Append(s, x)
  <2>1. /\ s \in Seq(STRING) /\ Len(s) = l - k
        /\ \A i \in 1..(l - k) : s[i] = c[k + i]
    BY <1>1
  <2>2. /\ r \in Seq(STRING) /\ Len(r) = l + 1 - k
        /\ \A i \in 1..(l + 1 - k) : r[i] = p[k + i]
    <3> HIDE DEF p, l
    <3> QED
      BY <1>1, <1>2
  <2> DEFINE a == Append(s, x)
  <2>3. /\ a \in Seq(STRING) /\ Len(a) = Len(s) + 1
        /\ \A i \in 1..Len(s) : a[i] = s[i]
        /\ a[Len(s) + 1] = x
    <3>1. s \in Seq(STRING)
      BY <2>1
    <3> HIDE DEF s
    <3>2. Append(s, x) \in Seq(STRING)
      BY <3>1, AppendProperties
    <3>3. Len(Append(s, x)) = Len(s) + 1
      BY <3>1, AppendProperties
    <3>4. \A i \in 1..Len(s) : Append(s, x)[i] = s[i]
      BY <3>1, AppendProperties
    <3>5. Append(s, x)[Len(s) + 1] = x
      BY <3>1, AppendProperties
    <3> QED
      BY <3>2, <3>3, <3>4, <3>5
  <2> HIDE DEF s, r, p, l, a
  <2>4. Len(s) + 1 = l + 1 - k /\ l - k \in Nat
    BY <1>1, <2>1
  <2>5. ASSUME NEW i \in 1..(l + 1 - k)
        PROVE  r[i] = a[i]
    <3>1. r[i] = p[k + i]
      BY <2>2
    <3>2. CASE i = l - k + 1
      <4>1. k + i = l + 1
        BY <1>1, <3>2
      <4> QED
        BY <1>2, <2>1, <2>3, <3>1, <3>2, <4>1
    <3>3. CASE i \in 1..(l - k)
      <4>1. k + i \in 1..l
        BY <1>1, <3>3
      <4> QED
        BY <1>2, <2>1, <2>3, <3>1, <3>3, <4>1
    <3> QED
      BY <1>1, <3>2, <3>3
  <2>6. Len(a) = l + 1 - k
    BY <2>3, <2>4
  <2>7. r = a
    BY <2>2, <2>3, <2>5, <2>6, SeqEqual
  <2> QED
    BY <2>7 DEF a
<1>4. s \in Seq(STRING)
  BY <1>1
<1> HIDE DEF s, r, p, l
<1>5. Append(path \o s, x) = path \o Append(s, x)
  <2>0. path \o s \in Seq(STRING)
    BY <1>1, <1>4, ConcatProperties
  <2>1. path \o s \in Seq(STRING) /\ <<x>> \in Seq(STRING)
    BY <2>0, OneElement
  <2>2. Append(s, x) = s \o <<x>>
    BY <1>4, AppendIsConcat
  <2>3. Append(path \o s, x) = (path \o s) \o <<x>>
    BY <2>1, AppendIsConcat
  <2>4. (path \o s) \o <<x>> = path \o (s \o <<x>>)
    BY <1>1, <1>4, <2>1, ConcatAssociative
  <2> QED
    BY <2>2, <2>3, <2>4
<1> QED
  BY <1>3, <1>5 DEF s, r, p, l

LEMMA GrownFrom ==
  ASSUME NEW t, TreeOf(t), NEW c \in DOMAIN t, t[c].ty = "virtualize",
         NEW names \in SUBSET Elements(Names), NEW g, Grown(t, c, names, g),
         NEW n \in DOMAIN t
  PROVE  /\ \E k \in 1..Len(n) : From(g, n, k)
         /\ g[n].from = t[n].from
<1>1. ASSUME NEW m \in DOMAIN t
      PROVE  g[m].from = t[m].from /\ g[m].listed = t[m].listed
  BY DEF Grown
<1>2. PICK k \in 1..Len(n) : From(t, n, k)
  BY DEF TreeOf
<1>3. \A j \in 1..Len(n) : SubSeq(n, 1, j) \in DOMAIN t
  BY EntryParts
<1>4. Len(n) \in Nat
  BY EntryParts, PathParts
<1>5. \A j \in (k + 1)..Len(n) : j \in 1..Len(n)
  BY <1>4
<1>6. From(g, n, k)
  BY <1>1, <1>2, <1>3, <1>5 DEF From
<1> QED
  BY <1>1, <1>6

LEMMA GrownFromChild ==
  ASSUME NEW t, TreeOf(t), NEW c \in DOMAIN t, t[c].ty = "virtualize",
         NEW names \in SUBSET Elements(Names), NEW g, Grown(t, c, names, g),
         NEW x \in names
  PROVE  \E k \in 1..Len(Append(c, x)) : From(g, Append(c, x), k)
<1> DEFINE p == Append(c, x)
           l == Len(c)
           path == t[c].from[1]
<1>1. /\ c \in Path /\ c # <<>> /\ x \in STRING /\ l \in Nat /\ l >= 1
      /\ SubSeq(c, 1, l) = c
      /\ t[c].from # <<>> /\ Len(t[c].from) = 1 /\ path \in Path
  <2>1. t[c].from # <<>>
    BY DEF TreeOf
  <2> QED
    BY <2>1, NamesAreStrings, PathParts, EntryParts
<1>2. /\ p \in Path /\ p # <<>> /\ Len(p) = l + 1
  BY <1>1, ChildPath
<1>3. \A k \in 1..l : SubSeq(p, 1, k) = SubSeq(c, 1, k)
  BY <1>1, ChildPrefix
<1>4. PICK k \in 1..l : From(g, c, k) /\ g[c].from = t[c].from
  BY GrownFrom
<1>5. g[p] = Virtualize(Append(path, x), TRUE) /\ Append(path, x) \in Path
  <2>1. g[p] = Virtualize(Append(path, x), TRUE)
    BY DEF Grown
  <2>2. Append(path, x) \in Path
    BY <1>1, ChildPath
  <2> QED
    BY <2>1, <2>2
<1>6. /\ g[p].listed /\ g[p].from # <<>> /\ Len(g[p].from) = 1
      /\ g[p].from[1] = Append(path, x)
  <2> DEFINE q == Append(path, x)
  <2> HIDE DEF q
  <2>1. q \in Path /\ g[p] = Virtualize(q, TRUE)
    BY <1>5 DEF q
  <2>2. /\ Virtualize(q, TRUE).listed
        /\ Virtualize(q, TRUE).from # <<>>
        /\ Len(Virtualize(q, TRUE).from) = 1
        /\ Virtualize(q, TRUE).from[1] = q
    BY <2>1, VirtualizeIs
  <2>3. /\ g[p].listed /\ g[p].from # <<>> /\ Len(g[p].from) = 1
        /\ g[p].from[1] = q
    BY <2>1, <2>2, Zenon
  <2> QED
    BY <2>3 DEF q
<1>7. SubSeq(p, 1, l + 1) = p
  BY <1>2, PathParts
<1>8. path = g[SubSeq(c, 1, k)].from[1] \o SubSeq(c, k + 1, l)
  BY <1>1, <1>4 DEF From
<1>9. g[SubSeq(c, 1, k)].from[1] \in Path
  <2> DEFINE d == SubSeq(c, 1, k)
  <2>1. d \in DOMAIN t
    BY EntryParts
  <2>2. Len(g[d].from) = 1 /\ g[d].from = t[d].from
    BY <1>1, <1>4, <2>1, GrownFrom DEF From
  <2> HIDE DEF d
  <2>3. Len(t[d].from) = 1
    BY <2>2
  <2>4. t[d].from[1] \in Path
    BY <2>1, <2>3, EntryParts
  <2>5. g[d].from[1] \in Path
    BY <2>2, <2>4
  <2> QED
    BY <2>5 DEF d
<1>10. Append(path, x) = g[SubSeq(c, 1, k)].from[1] \o SubSeq(p, k + 1, Len(p))
  <2> DEFINE q == g[SubSeq(c, 1, k)].from[1]
  <2>1. Append(q \o SubSeq(c, k + 1, Len(c)), x) = q \o SubSeq(Append(c, x), k + 1, Len(Append(c, x)))
    <3> HIDE DEF q
    <3> QED
      BY <1>1, <1>9, SuffixGrows DEF q
  <2> QED
    BY <1>8, <2>1
<1>11. From(g, c, k)
  BY <1>4
<1> HIDE DEF p, l, path
<1>12. k \in 1..Len(p) /\ SubSeq(p, 1, k) = SubSeq(c, 1, k)
  BY <1>1, <1>2, <1>3
<1>13. ~g[SubSeq(p, 1, k)].listed
  BY <1>11, <1>12 DEF From
<1>14. ASSUME NEW j \in (k + 1)..Len(p)
       PROVE  g[SubSeq(p, 1, j)].listed
  <2>1. CASE j = l + 1
    BY <1>6, <1>7, <2>1
  <2>2. CASE j \in (k + 1)..l
    <3>1. SubSeq(p, 1, j) = SubSeq(c, 1, j)
      BY <1>1, <1>3, <2>2
    <3>2. j \in (k + 1)..Len(c)
      BY <2>2 DEF l
    <3> QED
      BY <1>11, <3>1, <3>2 DEF From
  <2> QED
    BY <1>1, <1>2, <2>1, <2>2
<1>15. Len(g[SubSeq(p, 1, k)].from) = 1
  BY <1>1, <1>4, <1>12 DEF From
<1>16. From(g, p, k)
  BY <1>6, <1>10, <1>12, <1>13, <1>14, <1>15 DEF From
<1> QED
  BY <1>12, <1>16 DEF p

LEMMA GrownTree ==
  ASSUME NEW t, TreeOf(t), NEW c \in DOMAIN t, t[c].ty = "virtualize",
         NEW names \in SUBSET Elements(Names), NEW g, Grown(t, c, names, g)
  PROVE  TreeOf(g)
<1>1. Filesystem(g)
  BY GrownFilesystem
<1>2. DOMAIN g = DOMAIN t \cup Below(c, names)
  BY DEF Grown
<1>3. ASSUME NEW n \in DOMAIN t
      PROVE  /\ \E k \in 1..Len(n) : From(g, n, k)
             /\ Len(g[n].from) <= 1
             /\ g[n].ty = "virtualize" => g[n].from # <<>>
             /\ g[n].ty = "source" => g[n].from = <<>>
             /\ g[n].listed => g[n].from # <<>>
  <2>1. (\E k \in 1..Len(n) : From(g, n, k)) /\ g[n].from = t[n].from
    BY GrownFrom
  <2>2. /\ g[n].ty \in {"virtualize", "source"} => g[n].ty = t[n].ty
        /\ g[n].listed <=> t[n].listed
    BY DEF Grown
  <2> QED
    BY <2>1, <2>2 DEF TreeOf
<1>4. ASSUME NEW x \in names
      PROVE  LET n == Append(c, x)
             IN  /\ \E k \in 1..Len(n) : From(g, n, k)
                 /\ Len(g[n].from) <= 1
                 /\ g[n].ty = "virtualize" => g[n].from # <<>>
                 /\ g[n].ty = "source" => g[n].from = <<>>
                 /\ g[n].listed => g[n].from # <<>>
  <2> DEFINE n == Append(c, x)
             path == Append(t[c].from[1], x)
  <2>1. \E k \in 1..Len(n) : From(g, n, k)
    BY GrownFromChild
  <2>2. g[n] = Virtualize(path, TRUE)
    BY DEF Grown
  <2>3. path \in Path
    <3>1. t[c].from # <<>>
      BY DEF TreeOf
    <3>2. t[c].from[1] \in Path /\ x \in STRING
      BY <3>1, NamesAreStrings, EntryParts
    <3> QED
      BY <3>2, ChildPath
  <2> HIDE DEF n, path
  <2>4. g[n].ty = "virtualize" /\ g[n].from # <<>> /\ Len(g[n].from) = 1
    <3>1. /\ Virtualize(path, TRUE).ty = "virtualize"
          /\ Virtualize(path, TRUE).from # <<>>
          /\ Len(Virtualize(path, TRUE).from) = 1
      BY <2>3, VirtualizeIs
    <3> QED
      BY <2>2, <3>1, Zenon
  <2> QED
    BY <2>1, <2>4 DEF n
<1>5. ASSUME NEW n \in DOMAIN g
      PROVE  /\ \E k \in 1..Len(n) : From(g, n, k)
             /\ Len(g[n].from) <= 1
             /\ g[n].ty = "virtualize" => g[n].from # <<>>
             /\ g[n].ty = "source" => g[n].from = <<>>
             /\ g[n].listed => g[n].from # <<>>
  <2>1. CASE n \in DOMAIN t
    BY <1>3, <2>1
  <2>2. CASE n \in Below(c, names)
    <3>1. PICK x \in names : n = Append(c, x)
      BY <2>2 DEF Below
    <3> QED
      BY <1>4, <3>1
  <2> QED
    BY <1>2, <2>1, <2>2
<1> QED
  BY <1>1, <1>5 DEF TreeOf

(***************************************************************************)
(* An entry becomes a file or stays what it is.                            *)
(***************************************************************************)
Turned(t, c, g) ==
  /\ g \in [DOMAIN t -> Entry]
  /\ \A n \in DOMAIN t :
       /\ g[n].from = t[n].from /\ g[n].listed = t[n].listed
       /\ n # c => g[n].ty = t[n].ty
       /\ t[n].ty = "dir" => g[n].ty = "dir"
  /\ g[c].ty \notin {"virtualize", "source"}

LEMMA TurnedTree ==
  ASSUME NEW t, TreeOf(t), NEW c \in DOMAIN t, NEW g, Turned(t, c, g)
  PROVE  TreeOf(g)
<1>1. DOMAIN g = DOMAIN t /\ g \in [DOMAIN g -> Entry]
  BY DEF Turned
<1>2. \A n \in DOMAIN t :
        /\ g[n].from = t[n].from /\ g[n].listed = t[n].listed
        /\ g[n].ty \in {"virtualize", "source"} => g[n].ty = t[n].ty
        /\ t[n].ty = "dir" => g[n].ty = "dir"
  BY DEF Turned
<1>3. Filesystem(g)
  <2>1. ASSUME NEW n \in DOMAIN t
        PROVE  /\ n \in Path /\ n # <<>>
               /\ n[1] \in Elements(Preopens)
               /\ \A i \in 2..Len(n) : n[i] \in Elements(Names)
               /\ \A k \in 1..(Len(n) - 1) :
                    SubSeq(n, 1, k) \in DOMAIN t /\ t[SubSeq(n, 1, k)].ty = "dir"
    BY DEF TreeOf, Filesystem
  <2> QED
    BY <1>1, <1>2, <2>1 DEF Filesystem
<1>4. ASSUME NEW n \in DOMAIN t
      PROVE  /\ \E k \in 1..Len(n) : From(g, n, k)
             /\ Len(g[n].from) <= 1
             /\ g[n].ty = "virtualize" => g[n].from # <<>>
             /\ g[n].ty = "source" => g[n].from = <<>>
             /\ g[n].listed => g[n].from # <<>>
  <2>1. PICK k \in 1..Len(n) : From(t, n, k)
    BY DEF TreeOf
  <2>2. \A j \in 1..Len(n) : SubSeq(n, 1, j) \in DOMAIN t
    BY EntryParts
  <2>3. Len(n) \in Nat
    BY EntryParts, PathParts
  <2>4. \A j \in (k + 1)..Len(n) : j \in 1..Len(n)
    BY <2>3
  <2>5. From(g, n, k)
    BY <1>2, <2>1, <2>2, <2>4 DEF From
  <2> QED
    BY <1>2, <2>5 DEF TreeOf
<1> QED
  BY <1>1, <1>3, <1>4 DEF TreeOf

LEMMA Turns ==
  ASSUME NEW t, TreeOf(t), NEW c \in DOMAIN t,
         NEW ty \in Types \ {"virtualize", "source"}, t[c].ty = "dir" => ty = "dir"
  PROVE  Turned(t, c, [t EXCEPT ![c].ty = ty]) /\ [t EXCEPT ![c].ty = ty][c].ty = ty
<1> DEFINE g == [t EXCEPT ![c].ty = ty]
<1>1. t \in [DOMAIN t -> Entry]
  BY DEF TreeOf, Filesystem
<1>2. t[c].from \in Seq(Path) /\ t[c].listed \in BOOLEAN
  BY <1>1 DEF Entry
<1>3. /\ DOMAIN g = DOMAIN t /\ g = [n \in DOMAIN t |-> g[n]]
      /\ g[c] = [ty |-> ty, from |-> t[c].from, listed |-> t[c].listed]
      /\ \A n \in DOMAIN t \ {c} : g[n] = t[n]
  BY <1>1 DEF Entry
<1>4. g[c] \in Entry
  <2>1. [ty |-> ty, from |-> t[c].from, listed |-> t[c].listed] \in Entry
    BY <1>2, Zenon DEF Entry
  <2> QED
    BY <1>3, <2>1
<1>5. g[c].ty = ty /\ g[c].from = t[c].from /\ g[c].listed = t[c].listed
  BY <1>3
<1> HIDE DEF g
<1>6. g \in [DOMAIN t -> Entry]
  BY <1>1, <1>3, <1>4
<1>7. Turned(t, c, g)
  BY <1>3, <1>5, <1>6 DEF Turned
<1> QED
  BY <1>5, <1>7 DEF g

(***************************************************************************)
(* The calls still to be made.                                             *)
(***************************************************************************)
LEMMA TailParts ==
  ASSUME NEW S, NEW s \in Seq(S), s # <<>>
  PROVE  /\ Tail(s) \in Seq(S) /\ Head(s) = s[1] /\ s[1] \in S
         /\ Len(s) \in Nat /\ Len(s) >= 1 /\ Len(Tail(s)) = Len(s) - 1
         /\ \A i \in 1..Len(Tail(s)) : Tail(s)[i] = s[i + 1]
<1>1. Len(s) \in Nat /\ Len(s) >= 1
  <2>1. Len(s) \in Nat /\ Len(s) # 0
    BY EmptySeq
  <2> DEFINE l == Len(s)
  <2> HIDE DEF l
  <2>2. l \in Nat /\ l # 0
    BY <2>1 DEF l
  <2>3. l >= 1
    BY <2>2
  <2> QED
    BY <2>1, <2>3 DEF l
<1> QED
  BY <1>1

LEMMA TailFollowed ==
  ASSUME NEW S, NEW s \in Seq(S), s # <<>>, Followed(s)
  PROVE  Followed(Tail(s))
<1> DEFINE r == Tail(s)
           l == Len(s)
<1>1. /\ l \in Nat /\ Len(r) = l - 1 /\ \A i \in 1..(l - 1) : r[i] = s[i + 1]
  BY TailParts
<1>2. \A i \in 1..l : s[i].call = "visit" =>
        \E j \in (i + 1)..l : s[j] = Inner(s[i].node)
  BY DEF Followed
<1> HIDE DEF r, l
<1>3. ASSUME NEW i \in 1..(l - 1), r[i].call = "visit"
      PROVE  \E j \in (i + 1)..(l - 1) : r[j] = Inner(r[i].node)
  <2>1. i + 1 \in 1..l /\ r[i] = s[i + 1]
    BY <1>1
  <2>2. PICK j \in (i + 1 + 1)..l : s[j] = Inner(s[i + 1].node)
    BY <1>2, <1>3, <2>1
  <2>3. j - 1 \in (i + 1)..(l - 1) /\ r[j - 1] = s[j]
    <3>1. j - 1 \in (i + 1)..(l - 1) /\ j - 1 \in 1..(l - 1) /\ (j - 1) + 1 = j
      BY <1>1
    <3> QED
      BY <1>1, <3>1
  <2> QED
    BY <2>1, <2>2, <2>3
<1>4. Followed(r)
  BY <1>1, <1>3 DEF Followed
<1> QED
  BY <1>4 DEF r

LEMMA ConcatParts ==
  ASSUME NEW S, NEW a \in Seq(S), NEW b \in Seq(S)
  PROVE  /\ a \o b \in Seq(S) /\ Len(a) \in Nat /\ Len(b) \in Nat
         /\ Len(a \o b) = Len(a) + Len(b)
         /\ \A i \in 1..Len(a) : (a \o b)[i] = a[i]
         /\ \A i \in 1..Len(b) : (a \o b)[Len(a) + i] = b[i]
         /\ \A i \in 1..Len(a \o b) :
              i \in 1..Len(a) \/ (i - Len(a) \in 1..Len(b) /\ Len(a) + (i - Len(a)) = i)
<1>1. /\ a \o b \in Seq(S) /\ Len(a) \in Nat /\ Len(b) \in Nat
      /\ Len(a \o b) = Len(a) + Len(b)
  BY ConcatProperties
<1>2. \A i \in 1..Len(a) + Len(b) :
         (a \o b)[i] = IF i <= Len(a) THEN a[i] ELSE b[i - Len(a)]
  BY ConcatProperties
<1> DEFINE m == Len(a)
           n == Len(b)
           c == a \o b
<1> HIDE DEF m, n, c
<1>3. m \in Nat /\ n \in Nat /\ \A i \in 1..(m + n) : c[i] = IF i <= m THEN a[i] ELSE b[i - m]
  BY <1>1, <1>2 DEF m, n, c
<1>4. \A i \in 1..m : c[i] = a[i]
  BY <1>3
<1>5. ASSUME NEW i \in 1..n
      PROVE  c[m + i] = b[i]
  <2>1. m + i \in 1..(m + n) /\ ~(m + i <= m) /\ (m + i) - m = i
    BY <1>3
  <2> QED
    BY <1>3, <2>1
<1>6. \A i \in 1..(m + n) : i \in 1..m \/ (i - m \in 1..n /\ m + (i - m) = i)
  BY <1>3
<1> QED
  BY <1>1, <1>4, <1>5, <1>6 DEF m, n, c

LEMMA ConcatFollowed ==
  ASSUME NEW S, NEW a \in Seq(S), NEW b \in Seq(S), Followed(a), Followed(b)
  PROVE  Followed(a \o b)
<1> DEFINE m == Len(a)
           n == Len(b)
           c == a \o b
<1>1. /\ m \in Nat /\ n \in Nat /\ Len(c) = m + n
      /\ \A i \in 1..m : c[i] = a[i]
      /\ \A i \in 1..n : c[m + i] = b[i]
      /\ \A i \in 1..Len(c) : i \in 1..m \/ (i - m \in 1..n /\ m + (i - m) = i)
  BY ConcatParts
<1>2. /\ \A i \in 1..m : a[i].call = "visit" =>
           \E j \in (i + 1)..m : a[j] = Inner(a[i].node)
      /\ \A i \in 1..n : b[i].call = "visit" =>
           \E j \in (i + 1)..n : b[j] = Inner(b[i].node)
  BY DEF Followed
<1> HIDE DEF m, n, c
<1>3. ASSUME NEW i \in 1..Len(c), c[i].call = "visit"
      PROVE  \E j \in (i + 1)..Len(c) : c[j] = Inner(c[i].node)
  <2>1. CASE i \in 1..m
    <3>1. PICK j \in (i + 1)..m : a[j] = Inner(a[i].node)
      BY <1>1, <1>2, <1>3, <2>1
    <3>2. j \in (i + 1)..Len(c) /\ j \in 1..m
      BY <1>1
    <3> QED
      BY <1>1, <2>1, <3>1, <3>2
  <2>2. CASE i - m \in 1..n /\ m + (i - m) = i
    <3> DEFINE k == i - m
    <3>1. k \in 1..n /\ c[i] = b[k] /\ i = m + k
      BY <1>1, <2>2
    <3> HIDE DEF k
    <3>2. PICK j \in (k + 1)..n : b[j] = Inner(b[k].node)
      BY <1>2, <1>3, <3>1
    <3>3. m + j \in (i + 1)..Len(c) /\ j \in 1..n
      BY <1>1, <3>1
    <3>4. c[m + j] = b[j]
      BY <1>1, <3>3
    <3> QED
      BY <3>1, <3>2, <3>3, <3>4
  <2> QED
    BY <1>1, <2>1, <2>2
<1>4. Followed(c)
  BY <1>3 DEF Followed
<1> QED
  BY <1>4 DEF c

(***************************************************************************)
(* The loops over a directory: all its entries, and every one of them is   *)
(* visited before it is walked.                                            *)
(***************************************************************************)
LEMMA ChildrenAre ==
  ASSUME NEW t, NEW c, NEW s, s = ChildrenOf(t, c)
  PROVE  /\ Len(s) \in Nat
         /\ \A i \in 1..Len(s) :
              \E x \in Elements(Names) : s[i] = Append(c, x) /\ s[i] \in DOMAIN t
         /\ \A x \in Elements(Names) :
              Append(c, x) \in DOMAIN t => \E i \in 1..Len(s) : s[i] = Append(c, x)
<1> DEFINE keys == {x \in Elements(Names) : Append(c, x) \in DOMAIN t}
           o == Only(Names, keys)
<1>1. /\ o \in Seq(STRING)
      /\ \A x : (\E i \in 1..Len(o) : o[i] = x) <=> x \in Elements(Names) /\ x \in keys
  BY SetupsAssumption, OnlyElements
<1>2. s = [i \in 1..Len(o) |-> Append(c, o[i])]
  BY DEF ChildrenOf, ChildNames, Under
<1>3. \A x \in keys : x \in Elements(Names) /\ Append(c, x) \in DOMAIN t
  OBVIOUS
<1>4. \A x \in Elements(Names) : Append(c, x) \in DOMAIN t => x \in keys
  OBVIOUS
<1> HIDE DEF o, keys
<1>5. Len(o) \in Nat /\ Len(s) = Len(o) /\ \A i \in 1..Len(o) : s[i] = Append(c, o[i])
  BY <1>1, <1>2
<1>7. ASSUME NEW i \in 1..Len(s)
      PROVE  \E x \in Elements(Names) : s[i] = Append(c, x) /\ s[i] \in DOMAIN t
  <2>1. o[i] \in Elements(Names) /\ o[i] \in keys
    BY <1>1, <1>5
  <2> QED
    BY <1>3, <1>5, <2>1
<1>8. ASSUME NEW x \in Elements(Names), Append(c, x) \in DOMAIN t
      PROVE  \E i \in 1..Len(s) : s[i] = Append(c, x)
  <2>1. x \in keys
    BY <1>4, <1>8
  <2>2. PICK i \in 1..Len(o) : o[i] = x
    BY <1>1, <1>8, <2>1
  <2> QED
    BY <1>5, <2>2
<1> QED
  BY <1>5, <1>7, <1>8

LEMMA CallsAreTasks ==
  ASSUME NEW n \in DOMAIN tree
  PROVE  /\ Visiting(n) \in Task /\ Visiting(n).call = "visit" /\ Visiting(n).node = n
         /\ Inner(n) \in Task /\ Inner(n).call = "inner" /\ Inner(n).node = n
BY DEF Task, Visiting, Inner

LEMMA TaskIs ==
  ASSUME NEW task \in Task
  PROVE  /\ task.node \in DOMAIN tree
         /\ task.call = "visit" => task = Visiting(task.node)
         /\ task.call = "inner" => task = Inner(task.node)
         /\ task.call \in {"visit", "inner"}
BY DEF Task, Visiting, Inner

LEMMA LoopsAre ==
  ASSUME NEW c \in DOMAIN tree, TreeOf(tree)
  PROVE  LET s == Loops(c)
         IN  /\ s \in Seq(Task)
             /\ Followed(s)
             /\ \A i \in 1..Len(s) : s[i].node[1] = c[1]
             /\ \A x \in Elements(Names) :
                  Append(c, x) \in DOMAIN tree =>
                    /\ \E i \in 1..Len(s) : s[i] = Visiting(Append(c, x))
                    /\ \E i \in 1..Len(s) : s[i] = Inner(Append(c, x))
<1> DEFINE ch == ChildrenOf(tree, c)
           l == Len(ch)
           v == [i \in 1..l |-> Visiting(ch[i])]
           w == [i \in 1..l |-> Inner(ch[i])]
           s == Loops(c)
<1>1. /\ l \in Nat
      /\ \A i \in 1..l : \E x \in Elements(Names) : ch[i] = Append(c, x) /\ ch[i] \in DOMAIN tree
      /\ \A x \in Elements(Names) :
           Append(c, x) \in DOMAIN tree => \E i \in 1..l : ch[i] = Append(c, x)
  <2> HIDE DEF v, w, s
  <2>1. ch = ChildrenOf(tree, c)
    OBVIOUS
  <2> HIDE DEF ch
  <2> QED
    BY <2>1, ChildrenAre
<1>2. s = v \o w
  BY DEF Loops
<1> HIDE DEF ch, l, s
<1>3. ASSUME NEW i \in 1..l
      PROVE  ch[i] \in DOMAIN tree /\ ch[i][1] = c[1]
  <2>1. PICK x \in Elements(Names) : ch[i] = Append(c, x) /\ ch[i] \in DOMAIN tree
    BY <1>1
  <2>2. c \in Path /\ c # <<>> /\ x \in STRING
    BY NamesAreStrings, EntryParts
  <2>3. 1 \in 1..Len(c)
    BY <2>2, PathParts
  <2>4. Append(c, x)[1] = c[1]
    BY <2>2, <2>3, ChildPath
  <2> QED
    BY <2>1, <2>4
<1>4. /\ v \in Seq(Task) /\ w \in Seq(Task) /\ Len(v) = l /\ Len(w) = l
      /\ \A i \in 1..l : v[i] = Visiting(ch[i]) /\ w[i] = Inner(ch[i])
  <2>1. \A i \in 1..l : Visiting(ch[i]) \in Task /\ Inner(ch[i]) \in Task
    BY <1>3, CallsAreTasks
  <2> QED
    BY <1>1, <2>1
<1> HIDE DEF v, w
<1>5. /\ s \in Seq(Task) /\ Len(s) = l + l
      /\ \A i \in 1..l : s[i] = v[i]
      /\ \A i \in 1..l : s[l + i] = w[i]
      /\ \A i \in 1..Len(s) : i \in 1..l \/ (i - l \in 1..l /\ l + (i - l) = i)
  <2>1. /\ v \o w \in Seq(Task) /\ Len(v \o w) = Len(v) + Len(w)
        /\ \A i \in 1..Len(v) : (v \o w)[i] = v[i]
        /\ \A i \in 1..Len(w) : (v \o w)[Len(v) + i] = w[i]
        /\ \A i \in 1..Len(v \o w) :
             i \in 1..Len(v) \/ (i - Len(v) \in 1..Len(w) /\ Len(v) + (i - Len(v)) = i)
    <3>1. v \in Seq(Task) /\ w \in Seq(Task)
      BY <1>4
    <3> QED
      BY <3>1, ConcatParts
  <2> QED
    BY <1>2, <1>4, <2>1
<1>6. ASSUME NEW i \in 1..l
      PROVE  /\ s[i] = Visiting(ch[i]) /\ s[i].call = "visit" /\ s[i].node = ch[i]
             /\ s[l + i] = Inner(ch[i]) /\ s[l + i].call = "inner" /\ s[l + i].node = ch[i]
  <2>1. s[i] = Visiting(ch[i]) /\ s[l + i] = Inner(ch[i])
    BY <1>4, <1>5
  <2> QED
    BY <1>3, <2>1, CallsAreTasks
<1>7. ASSUME NEW i \in 1..Len(s)
      PROVE  s[i].node[1] = c[1]
  <2>1. CASE i \in 1..l
    BY <1>3, <1>6, <2>1
  <2>2. CASE i - l \in 1..l /\ l + (i - l) = i
    <3>1. s[l + (i - l)].node = ch[i - l]
      BY <1>6, <2>2
    <3> QED
      BY <1>3, <2>2, <3>1
  <2> QED
    BY <1>5, <2>1, <2>2
<1>8. ASSUME NEW i \in 1..Len(s), s[i].call = "visit"
      PROVE  \E j \in (i + 1)..Len(s) : s[j] = Inner(s[i].node)
  <2>1. CASE i \in 1..l
    <3>1. l + i \in (i + 1)..Len(s)
      BY <1>1, <1>5, <2>1
    <3> QED
      BY <1>6, <2>1, <3>1
  <2>2. CASE i - l \in 1..l /\ l + (i - l) = i
    <3>1. s[l + (i - l)].call = "inner"
      BY <1>6, <2>2
    <3> QED
      BY <1>8, <2>2, <3>1
  <2> QED
    BY <1>5, <2>1, <2>2
<1>9. ASSUME NEW x \in Elements(Names), Append(c, x) \in DOMAIN tree
      PROVE  /\ \E i \in 1..Len(s) : s[i] = Visiting(Append(c, x))
             /\ \E i \in 1..Len(s) : s[i] = Inner(Append(c, x))
  <2>1. PICK i \in 1..l : ch[i] = Append(c, x)
    BY <1>1, <1>9
  <2>2. i \in 1..Len(s) /\ l + i \in 1..Len(s)
    BY <1>1, <1>5
  <2> QED
    BY <1>6, <2>1, <2>2
<1>10. Followed(s)
  BY <1>8 DEF Followed
<1> QED
  BY <1>5, <1>7, <1>9, <1>10 DEF s

(***************************************************************************)
(* While the host holds still, so does what a path leads to.               *)
(***************************************************************************)
LEMMA HostHolds ==
  ASSUME host' = host
  PROVE  \A path : KindAt(path)' = KindAt(path) /\ Listing(path)' = Listing(path)
<1> SUFFICES ASSUME NEW path
             PROVE  KindAt(path)' = KindAt(path) /\ Listing(path)' = Listing(path)
  OBVIOUS
<1>1. Resolve(path) = IF Len(path) > MaxPath THEN Gone ELSE HostWalk(host, path)[Len(path)]
  BY DEF Resolve, HostWalk, HostWalkOf, Entered
<1>2. Resolve(path)' = IF Len(path) > MaxPath THEN Gone ELSE HostWalk(host', path)[Len(path)]
  BY DEF Resolve, HostWalk, HostWalkOf, Entered
<1>3. Resolve(path)' = Resolve(path)
  BY <1>1, <1>2
<1> QED
  BY <1>3 DEF KindAt, Listing

LEMMA HostChangesHost ==
  ASSUME host \in Host, HostChanges
  PROVE  host' \in Host
<1>1. PICK d \in HostNode : \E x \in DOMAIN host[d].entries :
             \E to \in HostNode \ {host[d].entries[x]} :
               host' = [host EXCEPT ![d].entries =
                          [y \in DOMAIN @ \ (IF to = Gone THEN {x} ELSE {}) |->
                             IF y = x THEN to ELSE @[y]]]
  BY DEF HostChanges
<1> DEFINE e == host[d].entries
<1>2. PICK x \in DOMAIN e : \E to \in HostNode \ {e[x]} :
               host' = [host EXCEPT ![d].entries =
                          [y \in DOMAIN e \ (IF to = Gone THEN {x} ELSE {}) |->
                             IF y = x THEN to ELSE e[y]]]
  BY <1>1
<1>3. PICK to \in HostNode \ {e[x]} :
               host' = [host EXCEPT ![d].entries =
                          [y \in DOMAIN e \ (IF to = Gone THEN {x} ELSE {}) |->
                             IF y = x THEN to ELSE e[y]]]
  BY <1>2
<1> DEFINE left == DOMAIN e \ (IF to = Gone THEN {x} ELSE {})
           f == [y \in left |-> IF y = x THEN to ELSE e[y]]
<1>4. host[d] \in [kind : STRING,
                   entries : UNION {[D -> HostNode] : D \in SUBSET Elements(Names)}]
  BY DEF Host
<1>5. PICK D \in SUBSET Elements(Names) : e \in [D -> HostNode]
  BY <1>4
<1>6. left \in SUBSET Elements(Names) /\ f \in [left -> HostNode]
  BY <1>5
<1>7. host' = [host EXCEPT ![d].entries = f]
  BY <1>3
<1> HIDE DEF f, left, e
<1>8. f \in UNION {[S -> HostNode] : S \in SUBSET Elements(Names)}
  BY <1>6
<1> QED
  BY <1>4, <1>7, <1>8 DEF Host

(***************************************************************************)
(* The call that is being made.                                            *)
(***************************************************************************)
LEMMA CurrentIs ==
  ASSUME tasks \in Seq(Task), tasks # <<>>, TreeOf(tree)
  PROVE  /\ Head(tasks) = tasks[1] /\ Current = tasks[1].node
         /\ Current \in DOMAIN tree
         /\ 1 \in 1..Len(tasks) /\ Len(tasks) \in Nat
         /\ Head(tasks).call = "visit" => tasks[1] = Visiting(Current)
         /\ Head(tasks).call = "inner" => tasks[1] = Inner(Current)
         /\ tree[Current].ty = "virtualize" =>
              tree[Current].from # <<>> /\ HostPath \in Path
<1>1. /\ Head(tasks) = tasks[1] /\ tasks[1] \in Task
      /\ Len(tasks) \in Nat /\ Len(tasks) >= 1
  BY TailParts
<1>2. /\ tasks[1].node \in DOMAIN tree
      /\ tasks[1].call = "visit" => tasks[1] = Visiting(tasks[1].node)
      /\ tasks[1].call = "inner" => tasks[1] = Inner(tasks[1].node)
  BY <1>1, TaskIs
<1>3. Current = tasks[1].node
  BY <1>1 DEF Current
<1>4. ASSUME tree[Current].ty = "virtualize"
      PROVE  tree[Current].from # <<>> /\ HostPath \in Path
  <2>1. tree[Current].from # <<>> /\ Current \in DOMAIN tree
    BY <1>2, <1>3, <1>4 DEF TreeOf
  <2>2. tree[Current].from[1] \in Path
    BY <2>1, EntryParts
  <2> QED
    BY <2>1, <2>2 DEF HostPath
<1>5. 1 \in 1..Len(tasks)
  <2> DEFINE l == Len(tasks)
  <2>1. l \in Nat /\ l >= 1
    BY <1>1
  <2> HIDE DEF l
  <2>2. 1 \in 1..l
    BY <2>1
  <2> QED
    BY <2>2 DEF l
<1> QED
  BY <1>1, <1>2, <1>3, <1>4, <1>5

LEMMA NoneBelow ==
  ASSUME TreeOf(tree), NEW c \in DOMAIN tree, NEW n \in DOMAIN tree, Above(c, n)
  PROVE  tree[c].ty = "dir"
<1>1. c \in Path /\ c # <<>> /\ Len(c) \in Nat /\ Len(c) >= 1
  BY EntryParts, PathParts
<1>2. Len(n) \in Nat
  BY EntryParts, PathParts
<1>3. Len(c) \in 1..(Len(n) - 1) /\ c = SubSeq(n, 1, Len(c))
  BY <1>1, <1>2 DEF Above
<1> QED
  BY <1>3, EntryParts

LEMMA ChildAbove ==
  ASSUME NEW c \in Path, c # <<>>, NEW x \in STRING
  PROVE  Above(c, Append(c, x))
<1>1. Len(Append(c, x)) = Len(c) + 1 /\ Len(c) \in 1..Len(c) /\ Len(c) \in Nat
  BY ChildPath, PathParts
<1>2. SubSeq(Append(c, x), 1, Len(c)) = SubSeq(c, 1, Len(c)) /\ SubSeq(c, 1, Len(c)) = c
  BY <1>1, ChildPrefix, PathParts
<1> QED
  BY <1>1, <1>2 DEF Above

(***************************************************************************)
(* A visit that is made leaves the others, and the loops after it, to do.  *)
(***************************************************************************)
LEMMA VisitDone ==
  ASSUME TreeOf(tree), TasksOK, tasks # <<>>, Head(tasks).call = "visit",
         NEW n \in DOMAIN tree, Unread(n), n # Current
  PROVE  \E i \in 1..Len(Tail(tasks)) : Reaches(Tail(tasks)[i], n)
<1>1. tasks \in Seq(Task) /\ \E i \in 1..Len(tasks) : Reaches(tasks[i], n)
  BY DEF TasksOK
<1>2. PICK i \in 1..Len(tasks) : Reaches(tasks[i], n)
  BY <1>1
<1>3. /\ Len(tasks) \in Nat /\ Len(Tail(tasks)) = Len(tasks) - 1
      /\ \A j \in 1..Len(Tail(tasks)) : Tail(tasks)[j] = tasks[j + 1]
  BY <1>1, TailParts
<1>4. tasks[1] = Visiting(Current) /\ Current \in DOMAIN tree
  BY <1>1, CurrentIs
<1>5. i # 1
  <2>1. ~Reaches(tasks[1], n)
    BY <1>4, CallsAreTasks DEF Reaches, Visiting
  <2> QED
    BY <1>2, <2>1
<1>6. i - 1 \in 1..Len(Tail(tasks)) /\ (i - 1) + 1 = i
  BY <1>3, <1>5
<1> QED
  BY <1>2, <1>3, <1>6

LEMMA TurnedTasks ==
  ASSUME TreeOf(tree), TasksOK, tasks # <<>>, Head(tasks).call = "visit",
         Turned(tree, Current, tree'), tasks' = Tail(tasks)
  PROVE  TasksOK'
<1>1. tasks \in Seq(Task) /\ Followed(tasks)
  BY DEF TasksOK
<1>2. tasks' \in Seq(Task) /\ Followed(tasks')
  BY <1>1, TailParts, TailFollowed
<1>3. DOMAIN tree' = DOMAIN tree
  BY DEF Turned
<1>4. Task' = Task
  BY <1>3 DEF Task
<1>5. ASSUME NEW n \in DOMAIN tree, tree'[n].ty \in {"virtualize", "source"}
      PROVE  \E i \in 1..Len(tasks') : Reaches(tasks'[i], n)
  <2>1. n # Current /\ Unread(n)
    BY <1>5 DEF Turned, Unread
  <2> QED
    BY <2>1, VisitDone
<1> QED
  BY <1>2, <1>3, <1>4, <1>5 DEF TasksOK, Unread, Followed, Reaches

LEMMA ReadTasks ==
  ASSUME TreeOf(tree), TasksOK, tasks # <<>>, Head(tasks).call = "visit",
         tree[Current].ty = "virtualize", NEW names \in SUBSET Elements(Names),
         Grown(tree, Current, names, tree'), tasks' = Tail(tasks)
  PROVE  TasksOK'
<1>1. tasks \in Seq(Task) /\ Followed(tasks)
  BY DEF TasksOK
<1>2. tasks' \in Seq(Task) /\ Followed(tasks')
  BY <1>1, TailParts, TailFollowed
<1>3. DOMAIN tree' = DOMAIN tree \cup Below(Current, names)
  BY DEF Grown
<1>4. Task \subseteq Task'
  BY <1>3 DEF Task
<1>5. tasks' \in Seq(Task')
  BY <1>2, <1>4, SeqMonotonic
<1>6. ASSUME NEW n \in DOMAIN tree, tree'[n].ty \in {"virtualize", "source"}
      PROVE  \E i \in 1..Len(tasks') : Reaches(tasks'[i], n)
  <2>1. n # Current /\ Unread(n)
    BY <1>6 DEF Grown, Unread
  <2> QED
    BY <2>1, VisitDone
<1>7. ASSUME NEW x \in names
      PROVE  \E i \in 1..Len(tasks') : Reaches(tasks'[i], Append(Current, x))
  <2>1. /\ tasks[1] = Visiting(Current) /\ Current \in DOMAIN tree
        /\ 1 \in 1..Len(tasks) /\ tasks[1].call = "visit" /\ tasks[1].node = Current
    BY <1>1, CurrentIs
  <2>2. PICK j \in 2..Len(tasks) : tasks[j] = Inner(Current)
    BY <1>1, <2>1 DEF Followed
  <2>3. /\ Len(tasks) \in Nat /\ Len(tasks') = Len(tasks) - 1
        /\ \A i \in 1..Len(tasks') : tasks'[i] = tasks[i + 1]
    BY <1>1, TailParts
  <2>4. j - 1 \in 1..Len(tasks') /\ (j - 1) + 1 = j
    BY <2>3
  <2>5. tasks'[j - 1] = Inner(Current)
    BY <2>2, <2>3, <2>4
  <2>6. Above(Current, Append(Current, x))
    <3>1. Current \in Path /\ Current # <<>> /\ x \in STRING
      BY <2>1, EntryParts, NamesAreStrings
    <3> QED
      BY <3>1, ChildAbove
  <2>7. Inner(Current).call = "inner" /\ Inner(Current).node = Current
    BY <2>1, CallsAreTasks
  <2>8. Reaches(tasks'[j - 1], Append(Current, x))
    BY <2>5, <2>6, <2>7 DEF Reaches
  <2> QED
    BY <2>4, <2>8
<1>8. ASSUME NEW n \in DOMAIN tree', tree'[n].ty \in {"virtualize", "source"}
      PROVE  \E i \in 1..Len(tasks') : Reaches(tasks'[i], n)
  <2>1. CASE n \in DOMAIN tree
    BY <1>6, <1>8, <2>1
  <2>2. CASE n \in Below(Current, names)
    <3>1. PICK x \in names : n = Append(Current, x)
      BY <2>2 DEF Below
    <3> QED
      BY <1>7, <3>1
  <2> QED
    BY <1>3, <2>1, <2>2
<1> QED
  BY <1>2, <1>5, <1>8 DEF TasksOK, Unread, Followed, Reaches

(***************************************************************************)
(* The loops take over what the call was to reach.                         *)
(***************************************************************************)
Walked(calls) ==
  /\ calls \in Seq(Task) /\ Followed(calls)
  /\ \A i \in 1..Len(calls) : calls[i].node[1] = Current[1]
  /\ \A n \in DOMAIN tree :
       Above(Current, n) => \E i \in 1..Len(calls) : Reaches(calls[i], n)

LEMMA WalkedLoops ==
  ASSUME TreeOf(tree), tasks \in Seq(Task), tasks # <<>>
  PROVE  Walked(IF tree[Current].ty = "dir" THEN Loops(Current) ELSE <<>>)
<1>0. Current \in DOMAIN tree
  BY CurrentIs
<1>1. CASE tree[Current].ty # "dir"
  <2>1. \A n \in DOMAIN tree : ~Above(Current, n)
    BY <1>0, <1>1, NoneBelow
  <2>2. <<>> \in Seq(Task) /\ Followed(<<>>) /\ Len(<<>>) = 0
    BY DEF Followed
  <2>3. Walked(<<>>)
    BY <2>1, <2>2 DEF Walked
  <2> QED
    BY <1>1, <2>3
<1>2. CASE tree[Current].ty = "dir"
  <2> DEFINE c == Current
             s == Loops(c)
  <2>1. /\ s \in Seq(Task) /\ Followed(s)
        /\ \A i \in 1..Len(s) : s[i].node[1] = c[1]
        /\ \A x \in Elements(Names) :
             Append(c, x) \in DOMAIN tree =>
               /\ \E i \in 1..Len(s) : s[i] = Visiting(Append(c, x))
               /\ \E i \in 1..Len(s) : s[i] = Inner(Append(c, x))
    BY <1>0, LoopsAre
  <2> HIDE DEF s, c
  <2>2. ASSUME NEW n \in DOMAIN tree, Above(c, n)
        PROVE  \E i \in 1..Len(s) : Reaches(s[i], n)
    <3> DEFINE x == n[Len(c) + 1]
               p == Append(c, x)
    <3>1. c \in Path /\ c # <<>> /\ n \in Path /\ n # <<>>
      BY <1>0, EntryParts DEF c
    <3>2. Len(c) \in Nat /\ Len(c) >= 1 /\ Len(n) \in Nat
      BY <3>1, PathParts
    <3>3. Len(c) + 1 \in 1..Len(n) /\ SubSeq(n, 1, Len(c) + 1) = p
      BY <2>2, <3>1, AboveChild
    <3>4. x \in Elements(Names)
      <4>1. Len(c) + 1 \in 2..Len(n)
        BY <3>2, <3>3
      <4> QED
        BY <4>1, EntryParts
    <3>5. p \in DOMAIN tree
      BY <3>3, EntryParts
    <3> HIDE DEF x
    <3>6. x \in STRING /\ Len(p) = Len(c) + 1
      BY <3>1, <3>4, NamesAreStrings, ChildPath
    <3>7. /\ \E i \in 1..Len(s) : s[i] = Visiting(p)
          /\ \E i \in 1..Len(s) : s[i] = Inner(p)
      BY <2>1, <3>4, <3>5
    <3> HIDE DEF p
    <3>8. CASE Len(n) = Len(c) + 1
      <4>1. n = p
        BY <3>1, <3>3, <3>8, PathParts
      <4> QED
        BY <3>7, <4>1 DEF Reaches
    <3>9. CASE Len(c) + 1 < Len(n)
      <4>1. Above(p, n)
        BY <3>3, <3>6, <3>9 DEF Above
      <4>2. Inner(p).call = "inner" /\ Inner(p).node = p
        BY <3>5, CallsAreTasks
      <4> QED
        BY <3>7, <4>1, <4>2 DEF Reaches
    <3> QED
      BY <3>2, <3>3, <3>8, <3>9
  <2>3. Walked(s)
    BY <2>1, <2>2 DEF Walked, c
  <2> QED
    BY <1>2, <2>3 DEF s, c
<1> QED
  BY <1>1, <1>2

LEMMA WalkTasks ==
  ASSUME TreeOf(tree), TasksOK, tasks # <<>>, Head(tasks).call = "inner",
         NEW calls, Walked(calls), tasks' = calls \o Tail(tasks), tree' = tree
  PROVE  TasksOK'
<1> DEFINE r == Tail(tasks)
           s == calls \o r
<1>1. tasks \in Seq(Task) /\ Followed(tasks)
  BY DEF TasksOK
<1>2. /\ r \in Seq(Task) /\ Followed(r)
      /\ Len(tasks) \in Nat /\ Len(r) = Len(tasks) - 1
      /\ \A i \in 1..Len(r) : r[i] = tasks[i + 1]
  BY <1>1, TailParts, TailFollowed
<1>3. calls \in Seq(Task) /\ Followed(calls)
  BY DEF Walked
<1>4. s = tasks'
  OBVIOUS
<1> HIDE DEF r
<1>5. /\ s \in Seq(Task) /\ Len(calls) \in Nat /\ Len(r) \in Nat
      /\ Len(s) = Len(calls) + Len(r)
      /\ \A i \in 1..Len(calls) : s[i] = calls[i]
      /\ \A i \in 1..Len(r) : s[Len(calls) + i] = r[i]
  <2>1. /\ calls \o r \in Seq(Task) /\ Len(calls) \in Nat /\ Len(r) \in Nat
        /\ Len(calls \o r) = Len(calls) + Len(r)
        /\ \A i \in 1..Len(calls) : (calls \o r)[i] = calls[i]
        /\ \A i \in 1..Len(r) : (calls \o r)[Len(calls) + i] = r[i]
    <3>1. r \in Seq(Task) /\ calls \in Seq(Task)
      BY <1>2, <1>3
    <3> HIDE DEF s
    <3> QED
      BY <3>1, ConcatParts
  <2> QED
    BY <2>1
<1>6. Followed(s)
  BY <1>2, <1>3, ConcatFollowed
<1>7. tasks[1] = Inner(Current) /\ Current \in DOMAIN tree
  BY <1>1, CurrentIs
<1> HIDE DEF s
<1>8. ASSUME NEW n \in DOMAIN tree, Unread(n)
      PROVE  \E i \in 1..Len(s) : Reaches(s[i], n)
  <2>1. PICK i \in 1..Len(tasks) : Reaches(tasks[i], n)
    BY <1>8 DEF TasksOK
  <2>2. CASE i = 1
    <3>1. Above(Current, n)
      <4>1. Inner(Current).call = "inner" /\ Inner(Current).node = Current
        BY <1>7, CallsAreTasks
      <4>2. Inner(Current) # Visiting(n)
        BY <4>1, CallsAreTasks DEF Visiting
      <4> QED
        BY <1>7, <2>1, <2>2, <4>1, <4>2 DEF Reaches
    <3>2. PICK j \in 1..Len(calls) : Reaches(calls[j], n)
      BY <3>1 DEF Walked
    <3>3. j \in 1..Len(s)
      BY <1>5
    <3> QED
      BY <1>5, <3>2, <3>3
  <2>3. CASE i # 1
    <3>1. i - 1 \in 1..Len(r) /\ (i - 1) + 1 = i /\ Len(calls) + (i - 1) \in 1..Len(s)
      BY <1>2, <1>5, <2>3
    <3>2. s[Len(calls) + (i - 1)] = tasks[i]
      BY <1>2, <1>5, <3>1
    <3> QED
      BY <2>1, <3>1, <3>2
  <2> QED
    BY <2>2, <2>3
<1>9. Task' = Task
  BY DEF Task
<1>10. Followed(tasks') /\ tasks' \in Seq(Task)
  BY <1>4, <1>5, <1>6
<1>11. \A n \in DOMAIN tree : Unread(n) => \E i \in 1..Len(tasks') : Reaches(tasks'[i], n)
  BY <1>4, <1>8
<1> QED
  BY <1>9, <1>10, <1>11 DEF TasksOK, Unread, Followed, Reaches

(***************************************************************************)
(* What has been read is what the host has.                                *)
(***************************************************************************)
ReadIs(n) ==
  IF tree[n].ty = "dir"
  THEN /\ KindAt(tree[n].from[1]) = "dir"
       /\ NamesBelow(n) = Listing(tree[n].from[1])
  ELSE tree[n].ty = "active" /\ KindAt(tree[n].from[1]) = "file"

LEMMA TurnedRead ==
  ASSUME ReadOK, Current \in DOMAIN tree, Turned(tree, Current, tree'),
         host' = host, changed' = changed,
         ~changed /\ tree[Current].from # <<>> =>
           \/ tree'[Current].ty = tree[Current].ty /\ tree[Current].ty # "virtualize"
           \/ tree'[Current].ty = "active" /\ KindAt(tree[Current].from[1]) = "file"
  PROVE  ReadOK'
<1> SUFFICES ASSUME ~changed, NEW n \in DOMAIN tree', tree'[n].from # <<>>,
                    tree'[n].ty # "virtualize"
             PROVE  ReadIs(n)'
  BY DEF ReadOK, ReadIs
<1>1. /\ DOMAIN tree' = DOMAIN tree /\ tree'[n].from = tree[n].from
      /\ n # Current => tree'[n].ty = tree[n].ty
  BY DEF Turned
<1>2. NamesBelow(n)' = NamesBelow(n)
  BY <1>1 DEF NamesBelow
<1>3. \A path : KindAt(path)' = KindAt(path) /\ Listing(path)' = Listing(path)
  BY HostHolds
<1>4. CASE tree'[n].ty = tree[n].ty /\ tree[n].ty # "virtualize"
  <2>1. ReadIs(n)
    BY <1>1, <1>4 DEF ReadOK, ReadIs
  <2>2. KindAt(tree[n].from[1])' = KindAt(tree[n].from[1])
    <3> DEFINE path == tree[n].from[1]
    <3>1. path' = path
      BY <1>1
    <3> HIDE DEF path
    <3> QED
      BY <1>1, <1>3
  <2> QED
    BY <1>1, <1>2, <1>3, <1>4, <2>1 DEF ReadIs
<1>5. CASE /\ n = Current /\ tree'[n].ty = "active"
           /\ KindAt(tree[n].from[1]) = "file"
  BY <1>1, <1>3, <1>5 DEF ReadIs
<1> QED
  BY <1>1, <1>4, <1>5

LEMMA ReadRead ==
  ASSUME TreeOf(tree), ReadOK, Current \in DOMAIN tree,
         tree[Current].ty = "virtualize", KindAt(HostPath) = "dir",
         NEW names \in SUBSET Elements(Names), names = Listing(HostPath),
         Grown(tree, Current, names, tree'), host' = host, changed' = changed
  PROVE  ReadOK'
<1> SUFFICES ASSUME ~changed, NEW n \in DOMAIN tree', tree'[n].from # <<>>,
                    tree'[n].ty # "virtualize"
             PROVE  ReadIs(n)'
  BY DEF ReadOK, ReadIs
<1>1. DOMAIN tree' = DOMAIN tree \cup Below(Current, names)
  BY DEF Grown
<1>2. \A path : KindAt(path)' = KindAt(path) /\ Listing(path)' = Listing(path)
  BY HostHolds
<1>3. Current \in Path /\ Current # <<>>
  BY EntryParts
<1>4. n \in DOMAIN tree
  <2>1. ASSUME NEW x \in names
        PROVE  tree'[Append(Current, x)].ty = "virtualize"
    <3>1. tree'[Append(Current, x)] = Virtualize(Append(tree[Current].from[1], x), TRUE)
      BY DEF Grown
    <3> QED
      BY <3>1 DEF Virtualize
  <2> QED
    BY <1>1, <2>1 DEF Below
<1>5. n \in Path /\ n # <<>>
  BY <1>4, EntryParts
<1>6. CASE n # Current
  <2>1. tree'[n] = tree[n]
    BY <1>4, <1>6 DEF Grown
  <2>2. ReadIs(n)
    BY <1>4, <2>1 DEF ReadOK, ReadIs
  <2>3. ASSUME NEW x \in Elements(Names)
        PROVE  Append(n, x) \notin Below(Current, names)
    <3>1. ASSUME NEW y \in names, Append(n, x) = Append(Current, y)
          PROVE  FALSE
      <4>1. x \in STRING /\ y \in STRING
        BY NamesAreStrings
      <4>2. n = Current
        BY <1>3, <1>5, <3>1, <4>1, ChildDiffers
      <4> QED
        BY <1>6, <4>2
    <3> QED
      BY <3>1 DEF Below
  <2>4. NamesBelow(n)' = NamesBelow(n)
    BY <1>1, <2>3 DEF NamesBelow
  <2> QED
    BY <1>2, <2>1, <2>2, <2>4 DEF ReadIs
<1>7. CASE n = Current
  <2>1. tree'[n].ty = "dir" /\ tree'[n].from = tree[n].from
    BY <1>7 DEF Grown
  <2>2. KindAt(tree[n].from[1]) = "dir" /\ Listing(tree[n].from[1]) = names
    BY <1>7 DEF HostPath
  <2>3. ASSUME NEW x \in Elements(Names)
        PROVE  Append(Current, x) \in DOMAIN tree' <=> x \in names
    <3>0. x \in STRING
      BY NamesAreStrings
    <3>1. Append(Current, x) \notin DOMAIN tree
      <4>1. Above(Current, Append(Current, x))
        BY <1>3, <3>0, ChildAbove
      <4> QED
        BY <4>1, NoneBelow
    <3>2. ASSUME NEW y \in names, Append(Current, x) = Append(Current, y)
          PROVE  x = y
      <4>1. y \in STRING
        BY NamesAreStrings
      <4> QED
        BY <1>3, <3>0, <3>2, <4>1, ChildDiffers
    <3> QED
      BY <1>1, <3>1, <3>2 DEF Below
  <2>4. NamesBelow(n)' = names
    BY <1>7, <2>3 DEF NamesBelow
  <2> QED
    BY <1>2, <2>1, <2>2, <2>4 DEF ReadIs
<1> QED
  BY <1>6, <1>7

(***************************************************************************)
(* The guest's paths.                                                      *)
(***************************************************************************)
LEMMA KeyParts ==
  ASSUME NEW n \in Path, n # <<>>, n[1] \in Elements(Preopens)
  PROVE  /\ Key(n) \in Path /\ At[n[1]] \in Path
         /\ Len(n) \in Nat /\ Len(n) >= 1 /\ Len(At[n[1]]) \in Nat
         /\ Len(Key(n)) = Len(At[n[1]]) + Len(n) - 1
         /\ \A i \in 1..Len(At[n[1]]) : Key(n)[i] = At[n[1]][i]
         /\ \A i \in 2..Len(n) : Key(n)[Len(At[n[1]]) + i - 1] = n[i]
<1> DEFINE a == At[n[1]]
           r == Tail(n)
           k == Key(n)
<1>1. a \in Seq(STRING)
  BY SetupsAssumption DEF Path
<1>2. n \in Seq(STRING)
  BY DEF Path
<1>3. /\ r \in Seq(STRING) /\ Len(n) \in Nat /\ Len(n) >= 1 /\ Len(r) = Len(n) - 1
      /\ \A i \in 1..Len(r) : r[i] = n[i + 1]
  BY <1>2, TailParts
<1>4. k = a \o r
  BY DEF Key
<1> HIDE DEF a, r, k
<1>5. /\ a \o r \in Seq(STRING) /\ Len(a) \in Nat /\ Len(r) \in Nat
      /\ Len(a \o r) = Len(a) + Len(r)
      /\ \A i \in 1..Len(a) : (a \o r)[i] = a[i]
      /\ \A i \in 1..Len(r) : (a \o r)[Len(a) + i] = r[i]
  <2>1. a \in Seq(STRING) /\ r \in Seq(STRING)
    BY <1>1, <1>3
  <2> QED
    BY <2>1, ConcatParts
<1>6. ASSUME NEW i \in 2..Len(n)
      PROVE  k[Len(a) + i - 1] = n[i]
  <2>1. i - 1 \in 1..Len(r) /\ (i - 1) + 1 = i /\ Len(a) + (i - 1) = Len(a) + i - 1
    BY <1>3, <1>5
  <2>2. k[Len(a) + (i - 1)] = r[i - 1] /\ r[i - 1] = n[(i - 1) + 1]
    BY <1>3, <1>4, <1>5, <2>1
  <2> QED
    BY <2>1, <2>2
<1>7. Len(k) = Len(a) + Len(n) - 1
  BY <1>3, <1>4, <1>5
<1>8. k \in Path /\ a \in Path /\ \A i \in 1..Len(a) : k[i] = a[i]
  BY <1>1, <1>4, <1>5 DEF Path
<1> QED
  BY <1>3, <1>5, <1>6, <1>7, <1>8 DEF a, k

LEMMA SameKey ==
  ASSUME NEW n \in Path, n # <<>>, n[1] \in Elements(Preopens),
         NEW m \in Path, m # <<>>, m[1] = n[1], Key(m) = Key(n)
  PROVE  m = n
<1> DEFINE a == At[n[1]]
           k == Key(n)
<1>1. /\ Len(n) \in Nat /\ Len(n) >= 1 /\ Len(a) \in Nat
      /\ Len(k) = Len(a) + Len(n) - 1
      /\ \A i \in 2..Len(n) : k[Len(a) + i - 1] = n[i]
  BY KeyParts
<1>2. /\ Len(m) \in Nat
      /\ Len(k) = Len(a) + Len(m) - 1
      /\ \A i \in 2..Len(m) : k[Len(a) + i - 1] = m[i]
  <2>1. /\ Len(m) \in Nat
        /\ Len(Key(m)) = Len(At[m[1]]) + Len(m) - 1
        /\ \A i \in 2..Len(m) : Key(m)[Len(At[m[1]]) + i - 1] = m[i]
    BY KeyParts
  <2> QED
    BY <2>1
<1> HIDE DEF a, k
<1>3. Len(m) = Len(n)
  BY <1>1, <1>2
<1>4. ASSUME NEW i \in 1..Len(m)
      PROVE  m[i] = n[i]
  <2>1. CASE i = 1
    BY <2>1
  <2>2. CASE i # 1
    <3>1. i \in 2..Len(n) /\ i \in 2..Len(m)
      BY <1>1, <1>3, <2>2
    <3> QED
      BY <1>1, <1>2, <3>1
  <2> QED
    BY <2>1, <2>2
<1> QED
  BY <1>3, <1>4, SamePath

LEMMA KeyLeads ==
  ASSUME NEW n \in Path, n # <<>>, n[1] \in Elements(Preopens),
         NEW m \in Path, m # <<>>, m[1] \in Elements(Preopens),
         Key(m) = Key(n), Len(At[m[1]]) <= Len(At[n[1]])
  PROVE  Leads(At[m[1]], At[n[1]])
<1> DEFINE a == At[n[1]]
           b == At[m[1]]
           k == Key(n)
<1>1. Len(a) \in Nat /\ \A i \in 1..Len(a) : k[i] = a[i]
  BY KeyParts
<1>2. Len(b) \in Nat /\ \A i \in 1..Len(b) : Key(m)[i] = b[i]
  BY KeyParts
<1>3. Key(m) = k /\ Len(b) <= Len(a)
  OBVIOUS
<1> HIDE DEF a, b, k
<1>4. \A i \in 1..Len(b) : b[i] = a[i]
  <2>1. \A i \in 1..Len(b) : i \in 1..Len(a)
    BY <1>1, <1>2, <1>3
  <2> QED
    BY <1>1, <1>2, <1>3, <2>1
<1>5. Leads(b, a)
  BY <1>3, <1>4 DEF Leads
<1> QED
  BY <1>5 DEF a, b

LEMMA KeyLast ==
  ASSUME NEW c \in Path, c # <<>>, c[1] \in Elements(Preopens), NEW x \in STRING
  PROVE  LET k == Key(Append(c, x)) IN k[Len(k)] = x
<1> DEFINE p == Append(c, x)
           a == At[p[1]]
           k == Key(p)
<1>1. /\ p \in Path /\ p # <<>> /\ Len(p) = Len(c) + 1 /\ p[Len(c) + 1] = x
      /\ \A i \in 1..Len(c) : p[i] = c[i]
  BY ChildPath
<1>2. Len(c) \in Nat /\ Len(c) >= 1
  BY PathParts
<1>3. p[1] = c[1]
  BY <1>1, <1>2
<1> HIDE DEF p
<1>4. /\ Len(a) \in Nat /\ Len(k) = Len(a) + Len(p) - 1
      /\ \A i \in 2..Len(p) : k[Len(a) + i - 1] = p[i]
  BY <1>1, <1>3, KeyParts
<1> HIDE DEF k, a
<1>5. Len(c) + 1 \in 2..Len(p) /\ Len(a) + (Len(c) + 1) - 1 = Len(k)
  BY <1>1, <1>2, <1>4
<1>6. k[Len(k)] = x
  BY <1>1, <1>4, <1>5
<1> QED
  BY <1>6 DEF k, p

(***************************************************************************)
(* What the directories of the host brought.                               *)
(***************************************************************************)
LEMMA TailOrdered ==
  ASSUME FilesOK, tasks \in Seq(Task), tasks # <<>>, tasks' = Tail(tasks),
         NEW j \in 1..Len(tasks')
  PROVE  /\ \A i \in 1..j : InOrder(tasks'[i].node[1], tasks'[j].node[1])
         /\ \A n \in Brought : InOrder(n[1], tasks'[j].node[1])
         /\ InOrder(tasks[1].node[1], tasks'[j].node[1])
<1>1. /\ Len(tasks) \in Nat /\ Len(tasks') = Len(tasks) - 1
      /\ \A i \in 1..Len(tasks') : tasks'[i] = tasks[i + 1]
  BY TailParts
<1>2. j + 1 \in 1..Len(tasks) /\ tasks'[j] = tasks[j + 1] /\ 1 \in 1..(j + 1)
  BY <1>1
<1>3. /\ \A i \in 1..(j + 1) : InOrder(tasks[i].node[1], tasks[j + 1].node[1])
      /\ \A n \in Brought : InOrder(n[1], tasks[j + 1].node[1])
  BY <1>2 DEF FilesOK
<1>4. ASSUME NEW i \in 1..j
      PROVE  InOrder(tasks'[i].node[1], tasks'[j].node[1])
  <2>1. i + 1 \in 1..(j + 1) /\ tasks'[i] = tasks[i + 1]
    BY <1>1, <1>2
  <2> QED
    BY <1>2, <1>3, <2>1
<1> QED
  BY <1>2, <1>3, <1>4

LEMMA TurnedFiles ==
  ASSUME FilesOK, tasks \in Seq(Task), tasks # <<>>, tasks' = Tail(tasks),
         Turned(tree, Current, tree'), virtual_files' = virtual_files
  PROVE  FilesOK'
<1>1. /\ DOMAIN tree' = DOMAIN tree
      /\ \A n \in DOMAIN tree : tree'[n].from = tree[n].from /\ tree'[n].listed = tree[n].listed
  BY DEF Turned
<1>2. Brought' = Brought
  BY <1>1 DEF Brought
<1>3. ASSUME NEW j \in 1..Len(tasks')
      PROVE  /\ \A i \in 1..j : InOrder(tasks'[i].node[1], tasks'[j].node[1])
             /\ \A n \in Brought : InOrder(n[1], tasks'[j].node[1])
  BY TailOrdered
<1>4. DOMAIN virtual_files = {Key(n) : n \in Brought}
  BY DEF FilesOK
<1>5. ASSUME NEW n \in Brought, Over(n)
      PROVE  virtual_files[Key(n)] = tree'[n].from[1]
  <2>1. virtual_files[Key(n)] = tree[n].from[1]
    BY <1>5 DEF FilesOK
  <2> QED
    BY <1>1, <2>1 DEF Brought
<1>6. \A n : Over(n)' <=> Over(n)
  BY <1>2 DEF Over, Key
<1> QED
  BY <1>2, <1>3, <1>4, <1>5, <1>6 DEF FilesOK, Key, InOrder

LEMMA WalkFiles ==
  ASSUME FilesOK, tasks \in Seq(Task), tasks # <<>>, TreeOf(tree),
         NEW calls, Walked(calls), tasks' = calls \o Tail(tasks),
         tree' = tree, virtual_files' = virtual_files
  PROVE  FilesOK'
<1> DEFINE r == Tail(tasks)
           s == calls \o r
           head == tasks[1].node[1]
<1>1. /\ r \in Seq(Task) /\ Len(tasks) \in Nat /\ Len(tasks) >= 1 /\ Len(r) = Len(tasks) - 1
      /\ \A i \in 1..Len(r) : r[i] = tasks[i + 1]
  BY TailParts
<1>2. calls \in Seq(Task) /\ \A i \in 1..Len(calls) : calls[i].node[1] = head
  <2>1. Current = tasks[1].node
    BY CurrentIs
  <2> QED
    BY <2>1 DEF Walked
<1>3. s = tasks'
  OBVIOUS
<1> HIDE DEF r
<1>4. /\ Len(calls) \in Nat /\ Len(r) \in Nat
      /\ Len(s) = Len(calls) + Len(r)
      /\ \A i \in 1..Len(calls) : s[i] = calls[i]
      /\ \A i \in 1..Len(r) : s[Len(calls) + i] = r[i]
      /\ \A i \in 1..Len(s) :
           \/ i \in 1..Len(calls)
           \/ i - Len(calls) \in 1..Len(r) /\ Len(calls) + (i - Len(calls)) = i
  <2>1. /\ Len(calls) \in Nat /\ Len(r) \in Nat
        /\ Len(calls \o r) = Len(calls) + Len(r)
        /\ \A i \in 1..Len(calls) : (calls \o r)[i] = calls[i]
        /\ \A i \in 1..Len(r) : (calls \o r)[Len(calls) + i] = r[i]
        /\ \A i \in 1..Len(calls \o r) :
             \/ i \in 1..Len(calls)
             \/ i - Len(calls) \in 1..Len(r) /\ Len(calls) + (i - Len(calls)) = i
    <3>1. r \in Seq(Task) /\ calls \in Seq(Task)
      BY <1>1, <1>2
    <3> HIDE DEF s
    <3> QED
      BY <3>1, ConcatParts
  <2> QED
    BY <2>1
<1> HIDE DEF s
<1>5. /\ \A j \in 1..Len(tasks) : \A i \in 1..j :
           InOrder(tasks[i].node[1], tasks[j].node[1])
      /\ \A j \in 1..Len(tasks) : \A n \in Brought :
           InOrder(n[1], tasks[j].node[1])
  BY DEF FilesOK
\* Every call is for the preopen of the one that was made, or is one of those
\* that followed it.
<1>6. ASSUME NEW i \in 1..Len(s)
      PROVE  \/ i <= Len(calls) /\ s[i].node[1] = head
             \/ \E k \in 2..Len(tasks) : i = Len(calls) + k - 1 /\ s[i] = tasks[k]
  <2>1. CASE i \in 1..Len(calls)
    BY <1>2, <1>4, <2>1
  <2>2. CASE i - Len(calls) \in 1..Len(r) /\ Len(calls) + (i - Len(calls)) = i
    <3> DEFINE k == i - Len(calls)
    <3>1. k \in 1..Len(r) /\ i = Len(calls) + k /\ s[i] = r[k]
      BY <1>4, <2>2
    <3> HIDE DEF k
    <3>2. k + 1 \in 2..Len(tasks) /\ s[i] = tasks[k + 1] /\ i = Len(calls) + (k + 1) - 1
      BY <1>1, <1>4, <3>1
    <3> QED
      BY <3>2
  <2> QED
    BY <1>4, <2>1, <2>2
<1>7. ASSUME NEW j \in 1..Len(s), NEW i \in 1..j
      PROVE  InOrder(s[i].node[1], s[j].node[1])
  <2>0. i \in 1..Len(s)
    BY <1>4
  <2>1. CASE j <= Len(calls) /\ s[j].node[1] = head
    <3>1. s[i].node[1] = head
      BY <1>2, <1>4, <2>1
    <3> QED
      BY <2>1, <3>1 DEF InOrder
  <2>2. ASSUME NEW k \in 2..Len(tasks), j = Len(calls) + k - 1, s[j] = tasks[k]
        PROVE  InOrder(s[i].node[1], s[j].node[1])
    <3>1. CASE i <= Len(calls) /\ s[i].node[1] = head
      <4>1. k \in 1..Len(tasks) /\ 1 \in 1..k
        BY <1>1
      <4> QED
        BY <1>5, <2>2, <3>1, <4>1
    <3>2. ASSUME NEW l \in 2..Len(tasks), i = Len(calls) + l - 1, s[i] = tasks[l]
          PROVE  InOrder(s[i].node[1], s[j].node[1])
      <4>1. k \in 1..Len(tasks) /\ l \in 1..k
        BY <1>1, <1>4, <2>2, <3>2
      <4> QED
        BY <1>5, <2>2, <3>2, <4>1
    <3> QED
      BY <1>6, <2>0, <3>1, <3>2
  <2> QED
    BY <1>6, <2>1, <2>2
<1>8. ASSUME NEW j \in 1..Len(s), NEW n \in Brought
      PROVE  InOrder(n[1], s[j].node[1])
  <2>1. \A k \in 2..Len(tasks) : k \in 1..Len(tasks)
    BY <1>1
  <2>2. 1 \in 1..Len(tasks)
    BY <1>1
  <2> QED
    BY <1>5, <1>6, <2>1, <2>2
<1>9. Brought' = Brought
  BY DEF Brought
<1>10. \A n : Over(n)' <=> Over(n)
  BY <1>9 DEF Over, Key
<1>11. /\ DOMAIN virtual_files = {Key(n) : n \in Brought}
       /\ \A n \in Brought : Over(n) => virtual_files[Key(n)] = tree[n].from[1]
  BY DEF FilesOK
<1>12. /\ \A j \in 1..Len(tasks') : \A i \in 1..j :
            InOrder(tasks'[i].node[1], tasks'[j].node[1])
       /\ \A j \in 1..Len(tasks') : \A n \in Brought :
            InOrder(n[1], tasks'[j].node[1])
  BY <1>3, <1>7, <1>8
<1> QED
  BY <1>9, <1>10, <1>11, <1>12 DEF FilesOK, Key, InOrder

LEMMA ReadFiles ==
  ASSUME FilesOK, TreeOf(tree), tasks \in Seq(Task), tasks # <<>>, tasks' = Tail(tasks),
         tree[Current].ty = "virtualize", NEW names \in SUBSET Elements(Names),
         Grown(tree, Current, names, tree'),
         virtual_files' = Extend(virtual_files, Listed(names))
  PROVE  FilesOK'
<1> DEFINE c == Current
           path == HostPath
           new == Listed(names)
<1>1. /\ c \in DOMAIN tree /\ c \in Path /\ c # <<>> /\ c[1] \in Elements(Preopens)
      /\ c = tasks[1].node /\ 1 \in 1..Len(tasks)
      /\ path \in Path /\ path = tree[c].from[1]
  <2>1. Current \in DOMAIN tree /\ Current = tasks[1].node /\ 1 \in 1..Len(tasks) /\ HostPath \in Path
    BY CurrentIs
  <2> QED
    BY <2>1, EntryParts DEF HostPath
<1>2. DOMAIN new = {Key(n) : n \in Below(c, names)}
  BY DEF Listed, Below
<1>3. ASSUME NEW x \in names
      PROVE  /\ Append(c, x) \in Path /\ Append(c, x) # <<>> /\ Append(c, x)[1] = c[1]
             /\ Append(c, x) \notin DOMAIN tree
             /\ tree'[Append(c, x)].from[1] = Append(path, x)
             /\ tree'[Append(c, x)].listed
             /\ new[Key(Append(c, x))] = Append(path, x)
  <2> DEFINE p == Append(c, x)
             k == Key(p)
  <2>1. x \in STRING
    BY NamesAreStrings
  <2>2. p \in Path /\ p # <<>> /\ p[1] = c[1] /\ Append(path, x) \in Path
    <3>1. 1 \in 1..Len(c)
      BY <1>1, PathParts
    <3> QED
      BY <1>1, <2>1, <3>1, ChildPath
  <2>3. p \notin DOMAIN tree /\ tree'[p] = Virtualize(Append(path, x), TRUE)
    BY <1>1 DEF Grown
  <2>4. k[Len(k)] = x
    BY <1>1, <2>1, KeyLast
  <2>5. k \in {Key(Append(c, y)) : y \in names}
    OBVIOUS
  <2>6. new[k] = Full(path, k[Len(k)])
    BY <2>5 DEF Listed
  <2> HIDE DEF p, k, new, path
  <2>7. new[k] = Append(path, x)
    BY <2>4, <2>6 DEF Full
  <2>8. tree'[p].from[1] = Append(path, x) /\ tree'[p].listed
    <3>1. /\ Virtualize(Append(path, x), TRUE).from[1] = Append(path, x)
          /\ Virtualize(Append(path, x), TRUE).listed
      BY <2>2, VirtualizeIs
    <3> QED
      BY <2>3, <3>1
  <2> QED
    BY <2>2, <2>3, <2>7, <2>8 DEF p, k
<1>4. /\ DOMAIN tree' = DOMAIN tree \cup Below(c, names)
      /\ \A n \in DOMAIN tree : tree'[n].from = tree[n].from /\ tree'[n].listed = tree[n].listed
  BY DEF Grown
<1>5. Brought' = Brought \cup Below(c, names)
  <2>1. \A n \in Below(c, names) : tree'[n].listed
    BY <1>3 DEF Below
  <2> QED
    BY <1>4, <2>1 DEF Brought
<1>6. /\ DOMAIN virtual_files = {Key(n) : n \in Brought}
      /\ \A n \in Brought : Over(n) => virtual_files[Key(n)] = tree[n].from[1]
  BY DEF FilesOK
<1>7. /\ DOMAIN virtual_files' = DOMAIN virtual_files \cup DOMAIN new
      /\ \A k \in DOMAIN new : virtual_files'[k] = new[k]
      /\ \A k \in DOMAIN virtual_files \ DOMAIN new : virtual_files'[k] = virtual_files[k]
  BY DEF Extend
<1> HIDE DEF new
<1>8. DOMAIN virtual_files' = {Key(n) : n \in Brought \cup Below(c, names)}
  BY <1>2, <1>6, <1>7
<1>9. ASSUME NEW n \in Brought',
             \A m \in Brought' : Key(m) = Key(n) => Len(At[m[1]]) <= Len(At[n[1]])
      PROVE  virtual_files'[Key(n)] = tree'[n].from[1]
  <2>1. CASE n \in Below(c, names)
    <3>1. PICK x \in names : n = Append(c, x)
      BY <2>1 DEF Below
    <3>2. Key(n) \in DOMAIN new
      BY <1>2, <2>1
    <3>3. virtual_files'[Key(n)] = new[Key(n)]
      BY <1>7, <3>2
    <3> QED
      BY <1>3, <3>1, <3>3
  <2>2. CASE n \in Brought
    <3>0. n \in DOMAIN tree /\ n \in Path /\ n # <<>> /\ n[1] \in Elements(Preopens)
      BY <2>2, EntryParts DEF Brought
    <3>1. Key(n) \notin DOMAIN new
      <4> SUFFICES ASSUME Key(n) \in DOMAIN new PROVE FALSE
        OBVIOUS
      <4>1. PICK p \in Below(c, names) : Key(n) = Key(p)
        BY <1>2
      <4>2. PICK x \in names : p = Append(c, x)
        BY <4>1 DEF Below
      <4>3. p \in Path /\ p # <<>> /\ p[1] = c[1] /\ p \notin DOMAIN tree
        BY <1>3, <4>2
      <4>4. Len(At[p[1]]) <= Len(At[n[1]])
        BY <1>5, <1>9, <4>1
      <4>5. Leads(At[p[1]], At[n[1]])
        BY <1>1, <3>0, <4>1, <4>3, <4>4, KeyLeads
      <4>6. InOrder(n[1], c[1])
        BY <1>1, <2>2 DEF FilesOK
      <4>7. n[1] = p[1]
        BY <4>3, <4>5, <4>6 DEF InOrder
      <4>8. p = n
        BY <1>1, <3>0, <4>1, <4>3, <4>7, SameKey
      <4> QED
        BY <3>0, <4>3, <4>8
    <3>2. Key(n) \in DOMAIN virtual_files
      BY <1>6, <2>2
    <3>3. virtual_files'[Key(n)] = virtual_files[Key(n)]
      BY <1>7, <3>1, <3>2
    <3>4. Over(n)
      BY <1>5, <1>9 DEF Over
    <3> QED
      BY <1>4, <1>6, <2>2, <3>0, <3>3, <3>4
  <2> QED
    BY <1>5, <2>1, <2>2
<1>10. ASSUME NEW j \in 1..Len(tasks')
       PROVE  /\ \A i \in 1..j : InOrder(tasks'[i].node[1], tasks'[j].node[1])
              /\ \A n \in Brought' : InOrder(n[1], tasks'[j].node[1])
  <2>1. /\ \A i \in 1..j : InOrder(tasks'[i].node[1], tasks'[j].node[1])
        /\ \A n \in Brought : InOrder(n[1], tasks'[j].node[1])
        /\ InOrder(tasks[1].node[1], tasks'[j].node[1])
    BY TailOrdered
  <2>2. \A n \in Below(c, names) : n[1] = tasks[1].node[1]
    BY <1>1, <1>3 DEF Below
  <2> HIDE DEF c
  <2> QED
    BY <1>5, <2>1, <2>2
<1>11. \A n : Over(n)' <=> \A m \in Brought' : Key(m) = Key(n) => Len(At[m[1]]) <= Len(At[n[1]])
  BY DEF Over, Key
<1>12. /\ \A n : Key(n)' = Key(n)
       /\ \A p, q : InOrder(p, q)' <=> InOrder(p, q)
  BY DEF Key, InOrder
<1>13. \A j \in 1..Len(tasks') :
         /\ \A i \in 1..j : InOrder(tasks'[i].node[1], tasks'[j].node[1])
         /\ \A n \in Brought' : InOrder(n[1], tasks'[j].node[1])
  BY <1>10
<1>14. DOMAIN virtual_files' = {Key(n) : n \in Brought'}
  BY <1>5, <1>8
<1>15. \A n \in Brought' : Over(n)' => virtual_files'[Key(n)] = tree'[n].from[1]
  BY <1>9, <1>11
<1> QED
  BY <1>13, <1>14, <1>15 DEF FilesOK, Key, InOrder

(***************************************************************************)
(* The walk begins with every preopen, in order.                           *)
(***************************************************************************)
LEMMA CallsAre ==
  ASSUME NEW s, s = Calls(tree)
  PROVE  /\ s \in Seq(Task) /\ Followed(s)
         /\ \A j \in 1..Len(s) : \A i \in 1..j :
              InOrder(s[i].node[1], s[j].node[1])
         /\ \A p \in Elements(Preopens) :
              <<p>> \in DOMAIN tree =>
                /\ \E i \in 1..Len(s) : s[i] = Visiting(<<p>>)
                /\ \E i \in 1..Len(s) : s[i] = Inner(<<p>>)
<1> DEFINE keys == {x \in Elements(Preopens) : <<x>> \in DOMAIN tree}
           o == Only(Preopens, keys)
           l == Len(o)
<1>1. /\ o \in Seq(STRING)
      /\ \A x : (\E i \in 1..Len(o) : o[i] = x) <=> x \in Elements(Preopens) /\ x \in keys
  BY SetupsAssumption, OnlyElements
<1>2. \A j \in 1..l : \A i \in 1..(j - 1) :
        \E b \in 1..Len(Preopens) : \E a \in 1..(b - 1) : o[i] = Preopens[a] /\ o[j] = Preopens[b]
  <2>1. KeptTo(Preopens, keys, o, Len(Preopens))
    BY SetupsAssumption, OnlyKeeps
  <2> HIDE DEF o
  <2> QED
    BY <2>1 DEF KeptTo
<1>3. s = [i \in 1..(2 * l) |->
             IF i % 2 = 1 THEN Visiting(<<o[(i + 1) \div 2]>>)
             ELSE Inner(<<o[i \div 2]>>)]
  BY DEF Calls, Roots
<1>4. /\ \A x \in keys : x \in Elements(Preopens) /\ <<x>> \in DOMAIN tree
      /\ \A x \in Elements(Preopens) : <<x>> \in DOMAIN tree => x \in keys
  OBVIOUS
<1>5. l \in Nat
  BY <1>1
<1> HIDE DEF o, keys
<1>6. \A k \in 1..l : o[k] \in keys /\ <<o[k]>> \in DOMAIN tree
  BY <1>1, <1>4
<1> HIDE DEF l
<1>7. ASSUME NEW k \in 1..l
      PROVE  /\ 2 * k - 1 \in 1..(2 * l) /\ 2 * k \in 1..(2 * l)
             /\ s[2 * k - 1] = Visiting(<<o[k]>>) /\ s[2 * k] = Inner(<<o[k]>>)
  <2>1. /\ 2 * k - 1 \in 1..(2 * l) /\ (2 * k - 1) % 2 = 1 /\ ((2 * k - 1) + 1) \div 2 = k
        /\ 2 * k \in 1..(2 * l) /\ (2 * k) % 2 # 1 /\ (2 * k) \div 2 = k
    BY <1>5
  <2> QED
    BY <1>3, <2>1
<1>8. ASSUME NEW i \in 1..(2 * l)
      PROVE  \E k \in 1..l : i = 2 * k - 1 \/ i = 2 * k
  <2>1. CASE i % 2 = 1
    <3>1. (i + 1) \div 2 \in 1..l /\ i = 2 * ((i + 1) \div 2) - 1
      BY <1>5, <2>1
    <3> QED
      BY <3>1
  <2>2. CASE i % 2 = 0
    <3>1. i \div 2 \in 1..l /\ i = 2 * (i \div 2)
      BY <1>5, <2>2
    <3> QED
      BY <3>1
  <2>3. i % 2 = 0 \/ i % 2 = 1
    OBVIOUS
  <2> QED
    BY <2>1, <2>2, <2>3
<1>9. Len(s) = 2 * l
  BY <1>3, <1>5
<1>10. ASSUME NEW k \in 1..l
       PROVE  /\ s[2 * k - 1] \in Task /\ s[2 * k] \in Task
              /\ s[2 * k - 1].node = <<o[k]>> /\ s[2 * k].node = <<o[k]>>
              /\ s[2 * k - 1].call = "visit" /\ s[2 * k].call = "inner"
              /\ s[2 * k - 1].node[1] = o[k] /\ s[2 * k].node[1] = o[k]
  <2>1. s[2 * k - 1] = Visiting(<<o[k]>>) /\ s[2 * k] = Inner(<<o[k]>>)
    BY <1>7
  <2>2. <<o[k]>> \in DOMAIN tree
    BY <1>6
  <2> QED
    BY <2>1, <2>2, CallsAreTasks
<1>11. \A i \in 1..(2 * l) : s[i] \in Task
  BY <1>8, <1>10
<1>12. s \in Seq(Task)
  <2>1. 2 * l \in Nat
    BY <1>5
  <2>2. s \in [1..(2 * l) -> Task]
    BY <1>3, <1>11
  <2> QED
    BY <2>1, <2>2
<1>13. ASSUME NEW i \in 1..Len(s), s[i].call = "visit"
       PROVE  \E j \in (i + 1)..Len(s) : s[j] = Inner(s[i].node)
  <2>1. PICK k \in 1..l : i = 2 * k - 1 \/ i = 2 * k
    BY <1>8, <1>9
  <2>2. i = 2 * k - 1
    BY <1>10, <1>13, <2>1
  <2>3. 2 * k \in (i + 1)..Len(s)
    <3>1. 2 * k \in 1..(2 * l)
      BY <1>7
    <3> QED
      BY <1>5, <1>9, <2>2, <3>1
  <2> QED
    BY <1>7, <1>10, <2>2, <2>3
<1>14. ASSUME NEW j \in 1..Len(s), NEW i \in 1..j
       PROVE  InOrder(s[i].node[1], s[j].node[1])
  <2>0. i \in 1..Len(s)
    BY <1>5, <1>9
  <2>1. PICK k \in 1..l : i = 2 * k - 1 \/ i = 2 * k
    BY <1>8, <1>9, <2>0
  <2>2. PICK m \in 1..l : j = 2 * m - 1 \/ j = 2 * m
    BY <1>8, <1>9
  <2>3. k <= m
    BY <1>5, <2>1, <2>2
  <2>4. s[i].node[1] = o[k] /\ s[j].node[1] = o[m]
    BY <1>10, <2>1, <2>2
  <2>5. CASE k = m
    BY <2>4, <2>5 DEF InOrder
  <2>6. CASE k < m
    <3>1. k \in 1..(m - 1)
      BY <2>6
    <3>2. PICK b \in 1..Len(Preopens) : \E a \in 1..(b - 1) :
             o[k] = Preopens[a] /\ o[m] = Preopens[b]
      BY <1>2, <3>1
    <3>3. PICK a \in 1..(b - 1) : o[k] = Preopens[a] /\ o[m] = Preopens[b]
      BY <3>2
    <3>4. ~Leads(At[o[m]], At[o[k]])
      BY <3>3, SetupsAssumption
    <3> QED
      BY <2>4, <3>4 DEF InOrder
  <2> QED
    BY <2>3, <2>5, <2>6
<1>15. ASSUME NEW p \in Elements(Preopens), <<p>> \in DOMAIN tree
       PROVE  /\ \E i \in 1..Len(s) : s[i] = Visiting(<<p>>)
              /\ \E i \in 1..Len(s) : s[i] = Inner(<<p>>)
  <2>1. p \in keys
    BY <1>4, <1>15
  <2>2. PICK k \in 1..l : o[k] = p
    BY <1>1, <1>15, <2>1 DEF l
  <2> QED
    <3>1. /\ 2 * k - 1 \in 1..Len(s) /\ 2 * k \in 1..Len(s)
          /\ s[2 * k - 1] = Visiting(<<o[k]>>) /\ s[2 * k] = Inner(<<o[k]>>)
      BY <1>7, <1>9
    <3>2. s[2 * k - 1] = Visiting(<<p>>) /\ s[2 * k] = Inner(<<p>>)
      BY <2>2, <3>1
    <3> QED
      BY <3>1, <3>2
<1>16. Followed(s)
  BY <1>13 DEF Followed
<1> QED
  BY <1>12, <1>14, <1>15, <1>16

LEMMA ConfiguredTree ==
  ASSUME NEW s \in Setups
  PROVE  TreeOf(s.tree)
<1> DEFINE t == s.tree
<1>1. /\ Filesystem(t)
      /\ \A n \in DOMAIN t :
           ~t[n].listed /\ Len(t[n].from) = IF t[n].ty = "virtualize" THEN 1 ELSE 0
  BY SetupsAssumption
<1> HIDE DEF t
<1>2. ASSUME NEW n \in DOMAIN t
      PROVE  /\ \E k \in 1..Len(n) : From(t, n, k)
             /\ Len(t[n].from) <= 1
             /\ t[n].ty = "virtualize" => t[n].from # <<>>
             /\ t[n].ty = "source" => t[n].from = <<>>
             /\ t[n].listed => t[n].from # <<>>
  <2>1. n \in Path /\ n # <<>> /\ t[n] \in Entry
    BY <1>1 DEF Filesystem
  <2>2. Len(n) \in Nat /\ Len(n) \in 1..Len(n) /\ SubSeq(n, 1, Len(n)) = n
    BY <2>1, PathParts
  <2>3. t[n].from \in Seq(Path)
    BY <2>1 DEF Entry
  <2>4. t[n].from # <<>> => t[n].from[1] \in Path
    <3> DEFINE f == t[n].from
    <3> HIDE DEF f
    <3>1. f \in Seq(Path)
      BY <2>3 DEF f
    <3>2. f # <<>> => f[1] \in Path
      BY <3>1, TailParts
    <3> QED
      BY <3>2 DEF f
  <2>5. t[n].from # <<>> =>
          t[n].from[1] = t[n].from[1] \o SubSeq(n, Len(n) + 1, Len(n))
    <3> DEFINE q == t[n].from[1]
    <3> SUFFICES ASSUME t[n].from # <<>> PROVE q = q \o SubSeq(n, Len(n) + 1, Len(n))
      OBVIOUS
    <3>1. q \in Seq(STRING) /\ n \in Seq(STRING)
      BY <2>1, <2>4 DEF Path
    <3> HIDE DEF q
    <3>2. SubSeq(n, Len(n) + 1, Len(n)) = <<>>
      BY <2>2, <3>1
    <3>3. q \o <<>> = q
      BY <3>1, ConcatEmptySeq
    <3> QED
      BY <3>2, <3>3
  <2>6. From(t, n, Len(n))
    <3> DEFINE l == Len(n)
    <3>1. l \in Nat
      BY <2>2
    <3> HIDE DEF l
    <3>2. \A j \in (l + 1)..l : FALSE
      BY <3>1
    <3> QED
      BY <1>1, <2>2, <2>5, <3>2 DEF From, l
  <2>7. Len(t[n].from) = IF t[n].ty = "virtualize" THEN 1 ELSE 0
    BY <1>1
  <2>8. Len(<<>>) = 0 /\ (Len(t[n].from) = 0 => t[n].from = <<>>)
    BY <2>3, EmptySeq
  <2> QED
    BY <1>1, <2>2, <2>6, <2>7, <2>8
<1> QED
  BY <1>1, <1>2 DEF TreeOf, t

LEMMA HostInitRInv == HostInit => RInv
<1> SUFFICES ASSUME HostInit PROVE RInv
  OBVIOUS
<1>1. PICK s \in Setups : tree = s.tree /\ host = s.host /\ tasks = Calls(s.tree)
  BY DEF HostInit
<1>2. /\ stage = "walk" /\ changed = FALSE /\ moved = FALSE
      /\ virtual_files = [k \in {} |-> <<>>]
  BY DEF HostInit
<1>3. TreeOf(tree) /\ host \in Host
  BY <1>1, ConfiguredTree, SetupsAssumption
<1>4. \A n \in DOMAIN tree :
        ~tree[n].listed /\ Len(tree[n].from) = IF tree[n].ty = "virtualize" THEN 1 ELSE 0
  BY <1>1, SetupsAssumption
<1>5. /\ tasks \in Seq(Task) /\ Followed(tasks)
      /\ \A j \in 1..Len(tasks) : \A i \in 1..j :
           InOrder(tasks[i].node[1], tasks[j].node[1])
      /\ \A p \in Elements(Preopens) :
           <<p>> \in DOMAIN tree =>
             /\ \E i \in 1..Len(tasks) : tasks[i] = Visiting(<<p>>)
             /\ \E i \in 1..Len(tasks) : tasks[i] = Inner(<<p>>)
  <2>1. tasks = Calls(tree)
    BY <1>1
  <2> QED
    BY <2>1, CallsAre
<1>6. ASSUME NEW n \in DOMAIN tree
      PROVE  \E i \in 1..Len(tasks) : Reaches(tasks[i], n)
  <2> DEFINE p == n[1]
  <2>1. n \in Path /\ n # <<>> /\ p \in Elements(Preopens)
    BY <1>3, EntryParts
  <2>2. Len(n) \in Nat /\ Len(n) >= 1 /\ 1 \in 1..Len(n)
    BY <2>1, PathParts
  <2>3. SubSeq(n, 1, 1) = <<p>>
    <3>1. /\ SubSeq(n, 1, 1) \in Path /\ Len(SubSeq(n, 1, 1)) = 1
          /\ \A i \in 1..1 : SubSeq(n, 1, 1)[i] = n[i]
      BY <2>1, <2>2, PathParts
    <3>2. p \in STRING
      BY <2>1, NamesAreStrings
    <3> HIDE DEF p
    <3>3. <<p>> \in Path
      BY <3>2, OneElement DEF Path
    <3>4. Len(<<p>>) = 1 /\ \A i \in 1..1 : <<p>>[i] = p
      OBVIOUS
    <3>5. \A i \in 1..1 : SubSeq(n, 1, 1)[i] = p
      BY <3>1 DEF p
    <3> QED
      BY <3>1, <3>3, <3>4, <3>5, SamePath
  <2>4. <<p>> \in DOMAIN tree
    BY <1>3, <2>2, <2>3, EntryParts
  <2> HIDE DEF p
  <2>5. /\ \E i \in 1..Len(tasks) : tasks[i] = Visiting(<<p>>)
        /\ \E i \in 1..Len(tasks) : tasks[i] = Inner(<<p>>)
    BY <1>5, <2>1, <2>4
  <2>6. CASE Len(n) = 1
    <3>1. n = <<p>>
      BY <2>1, <2>3, <2>6, PathParts
    <3> QED
      BY <2>5, <3>1 DEF Reaches
  <2>7. CASE Len(n) # 1
    <3>1. Len(<<p>>) = 1
      OBVIOUS
    <3>2. Above(<<p>>, n)
      <4>1. 1 < Len(n)
        <5> DEFINE l == Len(n)
        <5>1. l \in Nat /\ l >= 1 /\ l # 1
          BY <2>2, <2>7
        <5> HIDE DEF l
        <5>2. 1 < l
          BY <5>1
        <5> QED
          BY <5>2 DEF l
      <4>2. <<p>> = SubSeq(n, 1, Len(<<p>>))
        BY <2>3, <3>1
      <4> QED
        BY <3>1, <4>1, <4>2 DEF Above
    <3>3. Inner(<<p>>).call = "inner" /\ Inner(<<p>>).node = <<p>>
      BY <2>4, CallsAreTasks
    <3> QED
      BY <2>5, <3>2, <3>3 DEF Reaches
  <2> QED
    BY <2>6, <2>7
<1>7. TasksOK
  BY <1>5, <1>6 DEF TasksOK
<1>8. StageOK
  BY <1>2 DEF StageOK
<1>9. ReadOK
  <2>1. ASSUME NEW n \in DOMAIN tree, tree[n].from # <<>>
        PROVE  tree[n].ty = "virtualize"
    <3>1. Len(tree[n].from) # 0
      BY <1>3, <2>1, EntryParts
    <3> QED
      BY <1>4, <3>1
  <2> QED
    BY <2>1 DEF ReadOK
<1>10. FilesOK
  <2>1. Brought = {}
    BY <1>4 DEF Brought
  <2>2. DOMAIN virtual_files = {}
    BY <1>2
  <2> QED
    BY <1>5, <2>1, <2>2 DEF FilesOK
<1> QED
  BY <1>3, <1>7, <1>8, <1>9, <1>10 DEF RInv

(***************************************************************************)
(* One lemma for each step.                                                *)
(***************************************************************************)
LEMMA Unmoved ==
  ASSUME RInv, UNCHANGED <<tree, tasks, host, changed, virtual_files>>
  PROVE  /\ host' \in Host /\ TreeOf(tree') /\ TasksOK' /\ ReadOK' /\ FilesOK'
         /\ KindAt(HostPath)' = KindAt(HostPath) /\ Listing(HostPath)' = Listing(HostPath)
         /\ Current' = Current /\ HostPath' = HostPath
<1>1. host' \in Host /\ TreeOf(tree')
  BY DEF RInv
<1>2. TasksOK'
  BY DEF RInv, TasksOK, Unread, Reaches, Followed, Task
<1>3. FilesOK'
  BY DEF RInv, FilesOK, Brought, Over, Key, InOrder
<1>4. Current' = Current /\ HostPath' = HostPath
  BY DEF Current, HostPath
<1>5. \A path : KindAt(path)' = KindAt(path) /\ Listing(path)' = Listing(path)
  BY HostHolds
<1>6. ReadOK'
  <2> SUFFICES ASSUME ~changed, NEW n \in DOMAIN tree, tree[n].from # <<>>,
                      tree[n].ty # "virtualize"
               PROVE  ReadIs(n)'
    BY DEF ReadOK, ReadIs
  <2>1. ReadIs(n)
    BY DEF RInv, ReadOK, ReadIs
  <2>2. NamesBelow(n)' = NamesBelow(n)
    BY DEF NamesBelow
  <2>3. /\ KindAt(tree[n].from[1])' = KindAt(tree[n].from[1])
        /\ Listing(tree[n].from[1])' = Listing(tree[n].from[1])
    <3> DEFINE path == tree[n].from[1]
    <3>1. path' = path
      OBVIOUS
    <3> HIDE DEF path
    <3> QED
      BY <1>5, <3>1
  <2> QED
    BY <2>1, <2>2, <2>3 DEF ReadIs
<1>7. KindAt(HostPath)' = KindAt(HostPath) /\ Listing(HostPath)' = Listing(HostPath)
  <2> DEFINE path == HostPath
  <2>1. path' = path
    BY <1>4
  <2> HIDE DEF path
  <2>2. KindAt(path)' = KindAt(path) /\ Listing(path)' = Listing(path)
    BY <1>5, <2>1
  <2> QED
    BY <2>2 DEF path
<1> QED
  BY <1>1, <1>2, <1>3, <1>4, <1>6, <1>7

LEMMA VisitInlineStep == RInv /\ VisitInline => RInv'
<1> SUFFICES ASSUME RInv, VisitInline PROVE RInv'
  OBVIOUS
<1> DEFINE c == Current
           ty == IF tree[c].ty = "source" THEN "active" ELSE tree[c].ty
<1>1. /\ stage = "walk" /\ tasks # <<>> /\ Head(tasks).call = "visit"
      /\ tree[c].ty # "virtualize"
      /\ tree' = [tree EXCEPT ![c].ty = ty]
      /\ tasks' = Tail(tasks)
      /\ stage' = stage /\ host' = host /\ changed' = changed /\ moved' = moved
      /\ virtual_files' = virtual_files
  BY DEF VisitInline, Calling
<1>2. /\ tasks \in Seq(Task) /\ TreeOf(tree) /\ TasksOK /\ ReadOK /\ FilesOK /\ host \in Host
  BY DEF RInv, TasksOK
<1>3. c \in DOMAIN tree
  BY <1>1, <1>2, CurrentIs
<1>4. ty \in Types \ {"virtualize", "source"} /\ (tree[c].ty = "dir" => ty = "dir")
  <2>1. tree[c].ty \in Types
    BY <1>2, <1>3, EntryParts DEF Entry
  <2> QED
    BY <1>1, <2>1 DEF Types, EntryTypes, FileTypes
<1>5. Turned(tree, c, tree') /\ tree'[c].ty = ty
  <2> HIDE DEF c, ty
  <2> QED
    BY <1>1, <1>2, <1>3, <1>4, Turns
<1>6. TreeOf(tree')
  BY <1>2, <1>3, <1>5, TurnedTree
<1>7. TasksOK'
  BY <1>1, <1>2, <1>5, TurnedTasks
<1>8. ReadOK'
  <2>1. tree[c].from # <<>> => tree[c].ty # "source"
    BY <1>2, <1>3 DEF TreeOf
  <2>2. tree[c].from # <<>> => tree'[c].ty = tree[c].ty
    BY <1>5, <2>1
  <2> QED
    BY <1>1, <1>2, <1>3, <1>5, <2>2, TurnedRead
<1>9. FilesOK'
  BY <1>1, <1>2, <1>5, TurnedFiles
<1>10. StageOK'
  BY <1>1 DEF RInv, StageOK
<1> QED
  BY <1>1, <1>2, <1>6, <1>7, <1>8, <1>9, <1>10 DEF RInv

\* An error of the host's own, where an entry is to be read.
LEMMA RefusedStep ==
  ASSUME RInv, Refused, tasks # <<>>, Head(tasks).call = "visit",
         tree[Current].ty = "virtualize"
  PROVE  RInv'
<1>1. /\ stage' = "failed" /\ cause' = "refused" /\ moved' = moved
      /\ UNCHANGED <<tree, tasks, host, changed, virtual_files>>
  BY DEF Refused, Abort
<1>2. host' \in Host /\ TreeOf(tree') /\ TasksOK' /\ ReadOK' /\ FilesOK' /\ Current' = Current
  BY <1>1, Unmoved
<1>3. StageOK'
  BY <1>1, <1>2 DEF RInv, StageOK
<1> QED
  BY <1>2, <1>3 DEF RInv

LEMMA MetadataStep == RInv /\ Metadata => RInv'
<1> SUFFICES ASSUME RInv, Metadata PROVE RInv'
  OBVIOUS
<1>1. /\ tasks # <<>> /\ Head(tasks).call = "visit"
      /\ tree[Current].ty = "virtualize"
  BY DEF Metadata, Calling
<1>2. CASE Refused
  BY <1>1, <1>2, RefusedStep
<1>3. CASE ~Refused
  <2>1. /\ UNCHANGED <<tree, tasks, host, changed, virtual_files>>
        /\ \/ /\ stage' = KindAt(HostPath) /\ stage' \in {"dir", "file"} /\ ~moved'
           \/ /\ stage' = "failed" /\ cause' = "metadata" /\ moved' = moved
              /\ KindAt(HostPath) \notin {"dir", "file"}
    BY <1>3 DEF Metadata, Abort
  <2>2. /\ host' \in Host /\ TreeOf(tree') /\ TasksOK' /\ ReadOK' /\ FilesOK'
        /\ KindAt(HostPath)' = KindAt(HostPath) /\ Current' = Current
    BY <2>1, Unmoved
  <2>3. tasks' # <<>> /\ Head(tasks').call = "visit" /\ tree'[Current'].ty = "virtualize"
    BY <1>1, <2>1, <2>2
  <2>4. moved => changed
    BY DEF RInv, StageOK
  <2>5. StageOK'
    BY <2>1, <2>2, <2>3, <2>4 DEF StageOK
  <2> QED
    BY <2>2, <2>5 DEF RInv
<1> QED
  BY <1>2, <1>3

LEMMA ReadDirStep == RInv /\ ReadDir => RInv'
<1> SUFFICES ASSUME RInv, ReadDir PROVE RInv'
  OBVIOUS
<1>1. /\ stage = "dir" /\ tasks # <<>> /\ Head(tasks).call = "visit"
      /\ tree[Current].ty = "virtualize"
      /\ moved \/ KindAt(HostPath) = "dir"
      /\ moved => changed
  BY DEF RInv, StageOK, ReadDir
<1>2. /\ tasks \in Seq(Task) /\ TreeOf(tree) /\ TasksOK /\ ReadOK /\ FilesOK /\ host \in Host
  BY DEF RInv, TasksOK
<1>6. CASE Refused
  BY <1>1, <1>6, RefusedStep
<1>3. CASE ~Refused /\ KindAt(HostPath) # "dir"
  <2>1. /\ stage' = "failed" /\ cause' = "read_dir" /\ moved' = moved
        /\ UNCHANGED <<tree, tasks, host, changed, virtual_files>>
    BY <1>3 DEF ReadDir, Abort
  <2>2. /\ host' \in Host /\ TreeOf(tree') /\ TasksOK' /\ ReadOK' /\ FilesOK' /\ Current' = Current
        /\ KindAt(HostPath)' = KindAt(HostPath)
    BY <2>1, Unmoved
  <2>3. StageOK'
    BY <1>1, <1>3, <2>1, <2>2 DEF StageOK
  <2> QED
    BY <2>2, <2>3 DEF RInv
<1>4. CASE ~Refused /\ KindAt(HostPath) = "dir" /\ Listing(HostPath) \cap Garbled # {}
  <2>1. /\ stage' = "panicked" /\ moved' = moved
        /\ UNCHANGED <<tree, tasks, host, changed, virtual_files>>
    BY <1>4 DEF ReadDir, Abort
  <2>2. /\ host' \in Host /\ TreeOf(tree') /\ TasksOK' /\ ReadOK' /\ FilesOK' /\ Current' = Current
        /\ Listing(HostPath)' = Listing(HostPath)
    BY <2>1, Unmoved
  <2>3. StageOK'
    BY <1>1, <1>4, <2>1, <2>2 DEF StageOK
  <2> QED
    BY <2>2, <2>3 DEF RInv
<1>5. CASE ~Refused /\ KindAt(HostPath) = "dir" /\ ~(Listing(HostPath) \cap Garbled # {})
  <2> DEFINE c == Current
             names == Listing(HostPath)
  <2>1. /\ tree' = Extend([tree EXCEPT ![c].ty = "dir"],
                          [n \in {Append(c, x) : x \in names} |->
                             Virtualize(Full(HostPath, n[Len(n)]), TRUE)])
        /\ virtual_files' = Extend(virtual_files, Listed(names))
        /\ tasks' = Tail(tasks) /\ stage' = "walk"
        /\ host' = host /\ changed' = changed /\ moved' = moved
    BY <1>5 DEF ReadDir
  <2>2. c \in DOMAIN tree /\ HostPath \in Path
    BY <1>1, <1>2, CurrentIs
  <2>3. names \in SUBSET Elements(Names)
    BY <1>2, <2>2, ListingNames
  <2>4. Grown(tree, c, names, tree')
    <3>1. tree' = Read(tree, c, names)
      BY <2>1 DEF Read, Entries, Below, HostPath
    <3>2. tree[c].ty = "virtualize"
      BY <1>1
    <3> HIDE DEF c, names
    <3> QED
      BY <1>2, <2>2, <2>3, <3>1, <3>2, Reads
  <2>5. TreeOf(tree')
    BY <1>1, <1>2, <2>2, <2>3, <2>4, GrownTree
  <2>6. TasksOK'
    BY <1>1, <1>2, <2>1, <2>3, <2>4, ReadTasks
  <2>7. ReadOK'
    BY <1>1, <1>2, <1>5, <2>1, <2>2, <2>3, <2>4, ReadRead
  <2>8. FilesOK'
    BY <1>1, <1>2, <2>1, <2>3, <2>4, ReadFiles
  <2>9. StageOK'
    BY <1>1, <2>1 DEF StageOK
  <2> QED
    BY <1>2, <2>1, <2>5, <2>6, <2>7, <2>8, <2>9 DEF RInv
<1> QED
  BY <1>3, <1>4, <1>5, <1>6

LEMMA ReadFileStep == RInv /\ ReadFile => RInv'
<1> SUFFICES ASSUME RInv, ReadFile PROVE RInv'
  OBVIOUS
<1>1. /\ stage = "file" /\ tasks # <<>> /\ Head(tasks).call = "visit"
      /\ tree[Current].ty = "virtualize"
      /\ moved \/ KindAt(HostPath) = "file"
      /\ moved => changed
  BY DEF RInv, StageOK, ReadFile
<1>2. /\ tasks \in Seq(Task) /\ TreeOf(tree) /\ TasksOK /\ ReadOK /\ FilesOK /\ host \in Host
  BY DEF RInv, TasksOK
<1>5. CASE Refused
  BY <1>1, <1>5, RefusedStep
<1>3. CASE KindAt(HostPath) # "file" /\ Abort("failed", "read")
  <2>1. /\ stage' = "failed" /\ cause' = "read" /\ moved' = moved
        /\ UNCHANGED <<tree, tasks, host, changed, virtual_files>>
    BY <1>3 DEF Abort
  <2>2. /\ host' \in Host /\ TreeOf(tree') /\ TasksOK' /\ ReadOK' /\ FilesOK' /\ Current' = Current
        /\ KindAt(HostPath)' = KindAt(HostPath)
    BY <2>1, Unmoved
  <2>3. StageOK'
    BY <1>1, <1>3, <2>1, <2>2 DEF StageOK
  <2> QED
    BY <2>2, <2>3 DEF RInv
<1>4. CASE /\ tree' = [tree EXCEPT ![Current].ty = "active"]
           /\ tasks' = Tail(tasks) /\ stage' = "walk"
           /\ UNCHANGED <<vars, host, changed, moved, virtual_files>>
  <2> DEFINE c == Current
  <2>1. /\ tree' = [tree EXCEPT ![c].ty = "active"]
        /\ tasks' = Tail(tasks) /\ stage' = "walk"
        /\ host' = host /\ changed' = changed /\ moved' = moved
        /\ virtual_files' = virtual_files
    BY <1>4
  <2>2. c \in DOMAIN tree
    BY <1>1, <1>2, CurrentIs
  <2>3. Turned(tree, c, tree') /\ tree'[c].ty = "active"
    <3>1. "active" \in Types \ {"virtualize", "source"} /\ tree[c].ty # "dir"
      BY <1>1 DEF Types, EntryTypes, FileTypes
    <3> HIDE DEF c
    <3> QED
      BY <1>2, <2>1, <2>2, <3>1, Turns
  <2>4. TreeOf(tree')
    BY <1>2, <2>2, <2>3, TurnedTree
  <2>5. TasksOK'
    BY <1>1, <1>2, <2>1, <2>3, TurnedTasks
  <2>6. ReadOK'
    <3>1. ~changed => KindAt(tree[c].from[1]) = "file"
      BY <1>1 DEF HostPath
    <3> QED
      BY <1>2, <2>1, <2>2, <2>3, <3>1, TurnedRead
  <2>7. FilesOK'
    BY <1>1, <1>2, <2>1, <2>3, TurnedFiles
  <2>8. StageOK'
    BY <1>1, <2>1 DEF StageOK
  <2> QED
    BY <1>2, <2>1, <2>4, <2>5, <2>6, <2>7, <2>8 DEF RInv
<1>6. Refused \/ (KindAt(HostPath) # "file" /\ Abort("failed", "read"))
      \/ /\ tree' = [tree EXCEPT ![Current].ty = "active"]
         /\ tasks' = Tail(tasks) /\ stage' = "walk"
         /\ UNCHANGED <<vars, host, changed, moved, virtual_files>>
  BY DEF ReadFile
<1> QED
  BY <1>3, <1>4, <1>5, <1>6

LEMMA WalkStep == RInv /\ Walk => RInv'
<1> SUFFICES ASSUME RInv, Walk PROVE RInv'
  OBVIOUS
<1> DEFINE calls == IF tree[Current].ty = "dir" THEN Loops(Current) ELSE <<>>
<1>1. /\ stage = "walk" /\ tasks # <<>> /\ Head(tasks).call = "inner"
      /\ tasks' = calls \o Tail(tasks)
      /\ stage' = stage /\ tree' = tree /\ host' = host /\ changed' = changed
      /\ moved' = moved
      /\ virtual_files' = virtual_files
  BY DEF Walk, Calling
<1>2. /\ tasks \in Seq(Task) /\ TreeOf(tree) /\ TasksOK /\ ReadOK /\ FilesOK /\ host \in Host
  BY DEF RInv, TasksOK
<1>3. Walked(calls)
  BY <1>1, <1>2, WalkedLoops
<1> HIDE DEF calls
<1>4. TasksOK'
  BY <1>1, <1>2, <1>3, WalkTasks
<1>5. FilesOK'
  BY <1>1, <1>2, <1>3, WalkFiles
<1>6. ReadOK'
  <2> SUFFICES ASSUME ~changed, NEW n \in DOMAIN tree, tree[n].from # <<>>,
                      tree[n].ty # "virtualize"
               PROVE  ReadIs(n)'
    BY <1>1 DEF ReadOK, ReadIs
  <2>1. ReadIs(n)
    BY <1>2 DEF ReadOK, ReadIs
  <2>2. NamesBelow(n)' = NamesBelow(n)
    BY <1>1 DEF NamesBelow
  <2>3. \A path : KindAt(path)' = KindAt(path) /\ Listing(path)' = Listing(path)
    BY <1>1, HostHolds
  <2>4. /\ KindAt(tree[n].from[1])' = KindAt(tree[n].from[1])
        /\ Listing(tree[n].from[1])' = Listing(tree[n].from[1])
    <3> DEFINE path == tree[n].from[1]
    <3>1. path' = path
      BY <1>1
    <3> HIDE DEF path
    <3> QED
      BY <1>1, <2>3, <3>1
  <2> QED
    BY <1>1, <2>1, <2>2, <2>4 DEF ReadIs
<1>7. StageOK'
  BY <1>1 DEF RInv, StageOK
<1> QED
  BY <1>1, <1>2, <1>4, <1>5, <1>6, <1>7 DEF RInv

LEMMA LinearizeStep == RInv /\ Linearize => RInv'
<1> SUFFICES ASSUME RInv, Linearize PROVE RInv'
  OBVIOUS
<1>1. /\ stage' = "index" /\ tasks = <<>> /\ moved' = moved
      /\ UNCHANGED <<tree, tasks, host, changed, virtual_files>>
  BY DEF Linearize
<1>2. host' \in Host /\ TreeOf(tree') /\ TasksOK' /\ ReadOK' /\ FilesOK'
  BY <1>1, Unmoved
<1>3. StageOK'
  BY <1>1 DEF RInv, StageOK
<1> QED
  BY <1>2, <1>3 DEF RInv

LEMMA StillStep == RInv /\ UNCHANGED rvars => RInv'
<1> SUFFICES ASSUME RInv, UNCHANGED rvars PROVE RInv'
  OBVIOUS
<1>1. /\ stage' = stage /\ moved' = moved /\ cause' = cause
      /\ UNCHANGED <<tree, tasks, host, changed, virtual_files>>
  BY DEF rvars
<1>2. /\ host' \in Host /\ TreeOf(tree') /\ TasksOK' /\ ReadOK' /\ FilesOK'
      /\ KindAt(HostPath)' = KindAt(HostPath) /\ Listing(HostPath)' = Listing(HostPath)
      /\ Current' = Current
  BY <1>1, Unmoved
<1>3. StageOK'
  BY <1>1, <1>2 DEF RInv, StageOK
<1> QED
  BY <1>2, <1>3 DEF RInv

LEMMA HostChangesStep == RInv /\ HostChanges => RInv'
<1> SUFFICES ASSUME RInv, HostChanges PROVE RInv'
  OBVIOUS
<1>1. /\ stage \in {"walk", "dir", "file"} /\ stage' = stage /\ changed' /\ moved'
      /\ UNCHANGED <<tree, tasks, virtual_files>>
  BY DEF HostChanges
<1>2. host' \in Host
  BY HostChangesHost DEF RInv
<1>3. TreeOf(tree')
  BY <1>1 DEF RInv
<1>4. TasksOK'
  BY <1>1 DEF RInv, TasksOK, Unread, Reaches, Followed, Task
<1>5. FilesOK'
  BY <1>1 DEF RInv, FilesOK, Brought, Over, Key, InOrder
<1>6. ReadOK'
  BY <1>1 DEF ReadOK
<1>7. StageOK'
  <2>1. Current' = Current
    BY <1>1 DEF Current
  <2> QED
    BY <1>1, <2>1 DEF RInv, StageOK
<1> QED
  BY <1>2, <1>3, <1>4, <1>5, <1>6, <1>7 DEF RInv

LEMMA RInvariance == HostSpec => []RInv
<1>1. RInv /\ [HostNext]_hvars => RInv'
  <2> SUFFICES ASSUME RInv, [HostNext]_hvars PROVE RInv'
    OBVIOUS
  <2>1. CASE VisitInline
    BY <2>1, VisitInlineStep
  <2>2. CASE Metadata
    BY <2>2, MetadataStep
  <2>3. CASE ReadDir
    BY <2>3, ReadDirStep
  <2>4. CASE ReadFile
    BY <2>4, ReadFileStep
  <2>5. CASE Walk
    BY <2>5, WalkStep
  <2>6. CASE Linearize
    BY <2>6, LinearizeStep
  <2>7. CASE IndexStep
    <3>1. UNCHANGED rvars
      BY <2>7 DEF IndexStep
    <3> QED
      BY <3>1, StillStep
  <2>8. CASE HostChanges
    BY <2>8, HostChangesStep
  <2>9. CASE UNCHANGED hvars
    <3>1. UNCHANGED rvars
      BY <2>9 DEF hvars
    <3> QED
      BY <3>1, StillStep
  <2> QED
    BY <2>1, <2>2, <2>3, <2>4, <2>5, <2>6, <2>7, <2>8, <2>9 DEF HostNext, Virtualizing
<1> QED
  BY <1>1, HostInitRInv, PTL DEF HostSpec

(***************************************************************************)
(* HostInlined: what gets through has nothing left to read, and is what    *)
(* the host has if it held still.                                          *)
(***************************************************************************)
THEOREM HostIsInlined == HostSpec => []HostInlined
<1>1. RInv => HostInlined
  <2> SUFFICES ASSUME RInv, stage = "index", NEW n \in DOMAIN tree
               PROVE  /\ tree[n].ty \notin {"virtualize", "source"}
                      /\ OfHost(n) /\ ~changed =>
                           IF tree[n].ty = "dir"
                           THEN /\ KindAt(Source(n)) = "dir"
                                /\ {x \in Elements(Names) : Append(n, x) \in DOMAIN tree}
                                     = Listing(Source(n))
                           ELSE tree[n].ty = "active" /\ KindAt(Source(n)) = "file"
    BY DEF HostInlined, Finished
  <2>1. TreeOf(tree) /\ TasksOK /\ ReadOK /\ Len(tasks) = 0
    <3>1. tasks = <<>>
      BY DEF RInv, StageOK
    <3>2. Len(<<>>) = 0
      OBVIOUS
    <3> QED
      BY <3>1, <3>2 DEF RInv
  <2>2. tree[n].ty \notin {"virtualize", "source"}
    BY <2>1 DEF TasksOK, Unread
  <2>3. ASSUME OfHost(n), ~changed
        PROVE  IF tree[n].ty = "dir"
               THEN /\ KindAt(Source(n)) = "dir"
                    /\ {x \in Elements(Names) : Append(n, x) \in DOMAIN tree}
                         = Listing(Source(n))
               ELSE tree[n].ty = "active" /\ KindAt(Source(n)) = "file"
    <3>1. tree[n].from # <<>> /\ Source(n) = tree[n].from[1]
      BY <2>1, <2>3, SourceIs
    <3>2. IF tree[n].ty = "dir"
          THEN /\ KindAt(tree[n].from[1]) = "dir"
               /\ NamesBelow(n) = Listing(tree[n].from[1])
          ELSE tree[n].ty = "active" /\ KindAt(tree[n].from[1]) = "file"
      BY <2>1, <2>2, <2>3, <3>1 DEF ReadOK
    <3> QED
      BY <3>1, <3>2 DEF NamesBelow
  <2> QED
    BY <2>2, <2>3
<1> QED
  BY <1>1, RInvariance, PTL

(***************************************************************************)
(* ListedExact: virtual_files has every path that the host's directories   *)
(* brought, with the host path behind what the guest opens there.          *)
(***************************************************************************)
THEOREM ListedIsExact == HostSpec => []ListedExact
<1>1. RInv => ListedExact
  <2> SUFFICES ASSUME RInv
               PROVE  /\ DOMAIN virtual_files
                           = {Key(n) : n \in {m \in DOMAIN tree : tree[m].listed}}
                      /\ \A n \in DOMAIN tree :
                           tree[n].listed /\ Opens(n, Key(n)) =>
                             virtual_files[Key(n)] = Source(n)
    BY DEF ListedExact
  <2>1. /\ DOMAIN virtual_files = {Key(n) : n \in Brought}
        /\ \A n \in Brought : Over(n) => virtual_files[Key(n)] = tree[n].from[1]
        /\ TreeOf(tree)
    BY DEF RInv, FilesOK
  <2>2. ASSUME NEW n \in DOMAIN tree, tree[n].listed, Opens(n, Key(n))
        PROVE  virtual_files[Key(n)] = Source(n)
    <3>1. n \in Brought
      BY <2>2 DEF Brought
    <3>2. Over(n)
      BY <2>2 DEF Over, Opens, Brought
    <3>3. tree[n].from # <<>>
      BY <2>1, <2>2 DEF TreeOf
    <3>4. Source(n) = tree[n].from[1]
      BY <2>1, <3>3, SourceIs
    <3> QED
      BY <2>1, <3>1, <3>2, <3>4
  <2> QED
    BY <2>1, <2>2 DEF Brought
<1> QED
  BY <1>1, RInvariance, PTL

(***************************************************************************)
(* From the host to the index.  What is read becomes a forest, so that the *)
(* index of it is what FsIndex promises of any.                            *)
(***************************************************************************)
HostOK ==
  /\ \A d \in HostNode : DOMAIN host[d].entries \subseteq HostNames
  /\ host[Gone].kind \notin {"dir", "file"}

NodesOK ==
  \A n \in DOMAIN tree :
    /\ n \in Node
    /\ tree[n].ty = "virtualize" =>
         \A p \in Remaining(tree[n].from[1]) : n \o p \in Node

Waiting ==
  /\ pc = "waiting"
  /\ visits = <<>> /\ preopen_indices = <<>>
  /\ children_of = <<>> /\ next_children_of = <<>>
  /\ parent = 1 /\ child = 1 /\ child_offset = 0

HandedOver ==
  IF stage = "index" THEN fs = AsForest(tree) /\ IInv /\ RootsOK ELSE Waiting

LEMMA WiderSeq ==
  ASSUME NEW S, NEW T, S \subseteq T, NEW s \in Seq(S)
  PROVE  s \in Seq(T)
<1>1. Len(s) \in Nat /\ s = [i \in 1..Len(s) |-> s[i]] /\ \A i \in 1..Len(s) : s[i] \in T
  OBVIOUS
<1> QED
  BY <1>1

LEMMA InitNodes == HostInit => HostOK /\ NodesOK
<1> SUFFICES ASSUME HostInit PROVE HostOK /\ NodesOK
  OBVIOUS
<1>1. PICK s \in Setups : tree = s.tree /\ host = s.host
  BY DEF HostInit
<1>2. HostOK
  BY <1>1, NodeAssumption DEF HostOK, HostNames
<1>3. NodesOK
  BY <1>1, NodeAssumption DEF NodesOK
<1> QED
  BY <1>2, <1>3

(***************************************************************************)
(* What is listed is among the names of the hosts, in a directory that is  *)
(* not too far down.                                                       *)
(***************************************************************************)
LEMMA DirectoryIs ==
  ASSUME host \in Host, HostOK, NEW path \in Path, KindAt(path) = "dir"
  PROVE  Listing(path) \subseteq HostNames /\ Len(path) \in Nat /\ Len(path) <= MaxPath
<1>1. Resolve(path) \in HostNode
  BY ResolvesIn
<1>2. Listing(path) \subseteq HostNames
  BY <1>1 DEF Listing, HostOK
<1>3. Len(path) \in Nat
  BY DEF Path
<1>4. Len(path) > MaxPath => Resolve(path) = Gone
  BY DEF Resolve
<1>5. ~(Len(path) > MaxPath)
  BY <1>4 DEF KindAt, HostOK
<1> QED
  BY <1>2, <1>3, <1>5, HostAssumption

\* A name and what may follow it may follow the directory.
LEMMA RemainingBelow ==
  ASSUME NEW path \in Path, Len(path) <= MaxPath, NEW x \in HostNames \ Garbled,
         x \in STRING
  PROVE  /\ <<x>> \in Remaining(path)
         /\ \A p \in Remaining(Append(path, x)) :
              <<x>> \o p \in Remaining(path) /\ p \in Seq(HostNames \ Garbled)
<1> DEFINE S == HostNames \ Garbled
           l == Len(path)
<1>1. l \in Nat /\ MaxPath \in Nat /\ Len(Append(path, x)) = l + 1
  BY ChildPath, HostAssumption DEF Path
<1> HIDE DEF S
<1>2. x \in S
  BY DEF S
<1> HIDE DEF l
<1>3. \A q : q \in Seq(S) /\ Len(q) <= MaxPath + 1 - l => q \in Remaining(path)
  <2> SUFFICES ASSUME NEW q \in Seq(S), Len(q) <= MaxPath + 1 - l
               PROVE  q \in Remaining(path)
    OBVIOUS
  <2>1. Len(q) \in 0..(MaxPath + 1 - l) /\ q \in [1..Len(q) -> S]
    BY <1>1
  <2> QED
    BY <2>1 DEF Remaining, S, l
<1>4. <<x>> \in Seq(S) /\ Len(<<x>>) = 1
  <2>1. <<x>> \in Seq(S)
    BY <1>2, OneElement
  <2>2. Len(<<x>>) = 1
    OBVIOUS
  <2> QED
    BY <2>1, <2>2
<1>5. <<x>> \in Remaining(path)
  <2>1. 1 <= MaxPath + 1 - l
    BY <1>1 DEF l
  <2> QED
    BY <1>3, <1>4, <2>1
<1>6. ASSUME NEW p \in Remaining(Append(path, x))
      PROVE  <<x>> \o p \in Remaining(path) /\ p \in Seq(S)
  <2>1. PICK k \in 0..(MaxPath + 1 - (l + 1)) : p \in [1..k -> S]
    BY <1>1, <1>6 DEF Remaining, S
  <2>2. k \in Nat /\ p \in Seq(S) /\ Len(p) = k
    BY <1>1, <2>1
  <2>3. <<x>> \o p \in Seq(S) /\ Len(<<x>> \o p) = 1 + k
    BY <1>4, <2>2, ConcatProperties
  <2>4. 1 + k <= MaxPath + 1 - l
    BY <1>1, <2>1
  <2> QED
    BY <1>3, <2>2, <2>3, <2>4
<1> QED
  BY <1>5, <1>6 DEF S

LEMMA ReadNodes ==
  ASSUME TreeOf(tree), host \in Host, HostOK, NodesOK,
         NEW c \in DOMAIN tree, tree[c].ty = "virtualize",
         NEW path \in Path, path = tree[c].from[1], KindAt(path) = "dir",
         NEW names, names = Listing(path), names \cap Garbled = {},
         Grown(tree, c, names, tree')
  PROVE  NodesOK'
<1>1. /\ tree' \in [DOMAIN tree \cup Below(c, names) -> Entry]
      /\ tree'[c].ty = "dir"
      /\ \A n \in DOMAIN tree \ {c} : tree'[n] = tree[n]
      /\ \A x \in names : tree'[Append(c, x)] = Virtualize(Append(path, x), TRUE)
  BY DEF Grown
<1>2. names \subseteq HostNames /\ Len(path) <= MaxPath /\ names \subseteq Elements(Names)
  BY DirectoryIs, ListingNames
<1>3. c \in Path
  BY EntryParts
<1>4. ASSUME NEW x \in names
      PROVE  /\ Append(c, x) \in Node
             /\ \A p \in Remaining(Append(path, x)) : Append(c, x) \o p \in Node
  <2>1. x \in HostNames \ Garbled /\ x \in STRING
    BY <1>2, <1>4, NamesAreStrings
  <2>2. /\ <<x>> \in Remaining(path)
        /\ \A p \in Remaining(Append(path, x)) :
             <<x>> \o p \in Remaining(path) /\ p \in Seq(HostNames \ Garbled)
    BY <1>2, <2>1, RemainingBelow
  <2>3. \A p \in Remaining(path) : c \o p \in Node
    BY DEF NodesOK
  <2>4. Append(c, x) = c \o <<x>>
    BY <1>3, <2>1, AppendIsConcat DEF Path
  <2>5. ASSUME NEW p \in Remaining(Append(path, x))
        PROVE  Append(c, x) \o p = c \o (<<x>> \o p)
    <3>1. PICK T : c \in Seq(T) /\ <<x>> \in Seq(T) /\ p \in Seq(T)
      <4> DEFINE T == STRING \cup (HostNames \ Garbled)
      <4>1. c \in Seq(T) /\ p \in Seq(T)
        BY <1>3, <2>2, WiderSeq DEF Path
      <4>2. <<x>> \in Seq(T)
        BY <2>1, OneElement
      <4> QED
        BY <4>1, <4>2
    <3> QED
      BY <2>4, <3>1, ConcatAssociative
  <2> QED
    BY <2>2, <2>3, <2>4, <2>5
<1>5. ASSUME NEW n \in DOMAIN tree'
      PROVE  /\ n \in Node
             /\ tree'[n].ty = "virtualize" =>
                  \A p \in Remaining(tree'[n].from[1]) : n \o p \in Node
  <2>1. CASE n = c
    BY <1>1, <2>1 DEF NodesOK
  <2>2. CASE n \in DOMAIN tree \ {c}
    BY <1>1, <2>2 DEF NodesOK
  <2>3. CASE n \in Below(c, names)
    <3>1. PICK x \in names : n = Append(c, x)
      BY <2>3 DEF Below
    <3>2. Append(path, x) \in Path
      BY <1>2, <3>1, NamesAreStrings, ChildPath
    <3>3. tree'[n].from[1] = Append(path, x)
      BY <1>1, <3>1, <3>2, VirtualizeIs
    <3> QED
      BY <1>4, <3>1, <3>3
  <2> QED
    BY <1>1, <2>1, <2>2, <2>3
<1> QED
  BY <1>5 DEF NodesOK

\* An entry that is turned is not to be read any more.
LEMMA TurnedNodes ==
  ASSUME NodesOK, NEW c \in DOMAIN tree, Turned(tree, c, tree')
  PROVE  NodesOK'
<1>1. DOMAIN tree' = DOMAIN tree
  BY DEF Turned
<1>2. ASSUME NEW n \in DOMAIN tree
      PROVE  /\ n \in Node
             /\ tree'[n].ty = "virtualize" =>
                  \A p \in Remaining(tree'[n].from[1]) : n \o p \in Node
  BY DEF NodesOK, Turned
<1> QED
  BY <1>1, <1>2 DEF NodesOK

NInv == HostOK /\ NodesOK

LEMMA HostChangesNames ==
  ASSUME host \in Host, HostOK, HostChanges
  PROVE  HostOK'
<1>1. PICK d \in HostNode : \E x \in DOMAIN host[d].entries :
             \E to \in HostNode \ {host[d].entries[x]} :
               host' = [host EXCEPT ![d].entries =
                          [y \in DOMAIN @ \ (IF to = Gone THEN {x} ELSE {}) |->
                             IF y = x THEN to ELSE @[y]]]
  BY DEF HostChanges
<1> DEFINE e == host[d].entries
<1>2. PICK f : host' = [host EXCEPT ![d].entries = f] /\ DOMAIN f \subseteq DOMAIN e
  <2>1. PICK x \in DOMAIN e : \E to \in HostNode \ {e[x]} :
               host' = [host EXCEPT ![d].entries =
                          [y \in DOMAIN e \ (IF to = Gone THEN {x} ELSE {}) |->
                             IF y = x THEN to ELSE e[y]]]
    BY <1>1
  <2>2. PICK to \in HostNode \ {e[x]} :
               host' = [host EXCEPT ![d].entries =
                          [y \in DOMAIN e \ (IF to = Gone THEN {x} ELSE {}) |->
                             IF y = x THEN to ELSE e[y]]]
    BY <2>1
  <2> DEFINE f == [y \in DOMAIN e \ (IF to = Gone THEN {x} ELSE {}) |->
                     IF y = x THEN to ELSE e[y]]
  <2>3. DOMAIN f \subseteq DOMAIN e
    OBVIOUS
  <2>4. host' = [host EXCEPT ![d].entries = f]
    BY <2>2
  <2> HIDE DEF f
  <2> QED
    BY <2>3, <2>4
<1>3. \A n \in HostNode : host[n] \in [kind : STRING,
                   entries : UNION {[D -> HostNode] : D \in SUBSET Elements(Names)}]
  BY DEF Host
<1>4. \A n \in HostNode : host'[n].kind = host[n].kind
                          /\ DOMAIN host'[n].entries \subseteq DOMAIN host[n].entries
  BY <1>2, <1>3 DEF Host
<1> QED
  BY <1>4, HostAssumption DEF HostOK

LEMMA NodesStep == RInv /\ NInv /\ [HostNext]_hvars => NInv'
<1> SUFFICES ASSUME RInv, NInv, [HostNext]_hvars PROVE NInv'
  OBVIOUS
<1>1. TreeOf(tree) /\ tasks \in Seq(Task) /\ host \in Host /\ HostOK /\ NodesOK
  BY DEF RInv, TasksOK, NInv
<1>2. CASE UNCHANGED <<tree, host>>
  BY <1>1, <1>2 DEF NInv, HostOK, NodesOK
<1>3. CASE HostChanges
  <2>1. HostOK'
    BY <1>1, <1>3, HostChangesNames
  <2>2. UNCHANGED tree
    BY <1>3 DEF HostChanges
  <2> QED
    BY <1>1, <2>1, <2>2 DEF NInv, NodesOK
<1>4. ASSUME host' = host, tasks # <<>>, Turned(tree, Current, tree')
      PROVE  NInv'
  <2>1. Current \in DOMAIN tree
    BY <1>1, <1>4, CurrentIs
  <2>2. NodesOK'
    BY <1>1, <1>4, <2>1, TurnedNodes
  <2>3. HostOK'
    BY <1>1, <1>4 DEF HostOK
  <2> QED
    BY <2>2, <2>3 DEF NInv
<1>5. CASE VisitInline
  <2> DEFINE ty == IF tree[Current].ty = "source" THEN "active" ELSE tree[Current].ty
  <2>1. /\ tasks # <<>> /\ tree[Current].ty # "virtualize" /\ host' = host
        /\ tree' = [tree EXCEPT ![Current].ty = ty]
    BY <1>5 DEF VisitInline, Calling
  <2>2. Current \in DOMAIN tree
    BY <1>1, <2>1, CurrentIs
  <2>3. ty \in Types \ {"virtualize", "source"} /\ (tree[Current].ty = "dir" => ty = "dir")
    <3>1. tree[Current].ty \in Types
      BY <1>1, <2>2, EntryParts DEF Entry
    <3> QED
      BY <2>1, <3>1 DEF Types, EntryTypes, FileTypes
  <2> HIDE DEF ty
  <2>4. Turned(tree, Current, tree')
    BY <1>1, <2>1, <2>2, <2>3, Turns
  <2> QED
    BY <1>4, <2>1, <2>4
<1>6. CASE /\ ReadFile /\ host' = host
           /\ tree' = [tree EXCEPT ![Current].ty = "active"]
  <2>1. tasks # <<>> /\ tree[Current].ty = "virtualize"
    BY <1>6 DEF ReadFile, RInv, StageOK
  <2>2. Current \in DOMAIN tree
    BY <1>1, <2>1, CurrentIs
  <2>3. "active" \in Types \ {"virtualize", "source"}
    BY DEF Types, EntryTypes, FileTypes
  <2>4. Turned(tree, Current, tree')
    BY <1>1, <1>6, <2>1, <2>2, <2>3, Turns
  <2> QED
    BY <1>4, <1>6, <2>1, <2>4
<1>7. CASE /\ ReadDir /\ KindAt(HostPath) = "dir" /\ Listing(HostPath) \cap Garbled = {}
           /\ ~UNCHANGED <<tree, host>>
  <2> DEFINE c == Current
             names == Listing(HostPath)
  <2>1. /\ tasks # <<>> /\ tree[c].ty = "virtualize" /\ host' = host
        /\ tree' = Extend([tree EXCEPT ![c].ty = "dir"],
                          [n \in {Append(c, x) : x \in names} |->
                             Virtualize(Full(HostPath, n[Len(n)]), TRUE)])
    BY <1>7 DEF ReadDir, Refused, Abort, RInv, StageOK
  <2>2. c \in DOMAIN tree /\ HostPath \in Path /\ HostPath = tree[c].from[1]
    BY <1>1, <2>1, CurrentIs DEF HostPath
  <2>3. names \in SUBSET Elements(Names)
    BY <1>1, <2>2, ListingNames
  <2>4. tree' = Read(tree, c, names)
    BY <2>1 DEF Read, Entries, Below, HostPath
  <2> HIDE DEF c, names
  <2>5. Grown(tree, c, names, tree')
    BY <1>1, <2>1, <2>2, <2>3, <2>4, Reads
  <2>6. NodesOK'
    BY <1>1, <1>7, <2>1, <2>2, <2>5, ReadNodes DEF names
  <2>7. HostOK'
    BY <1>1, <2>1 DEF HostOK
  <2> QED
    BY <2>6, <2>7 DEF NInv
<1>8. CASE ReadFile \/ ReadDir
  BY <1>2, <1>6, <1>7, <1>8 DEF ReadFile, ReadDir, Refused, Abort
<1>9. CASE Metadata \/ Walk \/ Linearize \/ IndexStep \/ UNCHANGED hvars
  <2>1. UNCHANGED <<tree, host>>
    BY <1>9 DEF Metadata, Refused, Abort, Walk, Linearize, IndexStep, rvars, hvars
  <2> QED
    BY <1>2, <2>1
<1> QED
  BY <1>3, <1>5, <1>8, <1>9 DEF HostNext, Virtualizing

(***************************************************************************)
(* The forest.                                                             *)
(***************************************************************************)
LEMMA ForestRead ==
  ASSUME TreeOf(tree), TasksOK, tasks = <<>>, NodesOK
  PROVE  Forest(AsForest(tree))
<1> DEFINE f == AsForest(tree)
<1>1. /\ f.preopens = [i \in 1..Len(Roots(tree)) |-> <<Roots(tree)[i]>>]
      /\ f.children = [n \in Node |->
                        IF n \in DOMAIN tree /\ tree[n].ty = "dir" THEN ChildrenOf(tree, n)
                        ELSE <<>>]
      /\ f.ty = [n \in Node |-> IF n \in DOMAIN tree THEN tree[n].ty ELSE "active"]
      /\ f.name = [n \in Node |-> n[Len(n)]]
  BY DEF AsForest
<1> HIDE DEF f
<1>2. f.preopens \in Seq(Node)
  <2> DEFINE keys == {x \in Elements(Preopens) : <<x>> \in DOMAIN tree}
             r == Roots(tree)
  <2>1. r = Only(Preopens, keys)
    BY DEF Roots
  <2>2. r \in Seq(STRING) /\ \A x : (\E i \in 1..Len(r) : r[i] = x) => x \in keys
    <3> HIDE DEF keys, r
    <3> QED
      BY <2>1, SetupsAssumption, OnlyElements
  <2>3. \A x \in keys : <<x>> \in Node
    BY DEF NodesOK
  <2> HIDE DEF keys, r
  <2>4. Len(r) \in Nat /\ \A i \in 1..Len(r) : <<r[i]>> \in Node
    BY <2>2, <2>3
  <2> DEFINE s == [i \in 1..Len(r) |-> <<r[i]>>]
  <2>5. s \in Seq(Node)
    BY <2>4
  <2> QED
    BY <1>1, <2>5 DEF r
<1>3. ASSUME NEW n \in Node, n \in DOMAIN tree
      PROVE  ChildrenOf(tree, n) \in Seq(Node)
  <2> DEFINE s == ChildrenOf(tree, n)
  <2>1. Len(s) \in Nat /\ \A i \in 1..Len(s) : s[i] \in DOMAIN tree
    BY ChildrenAre
  <2>2. s = [i \in 1..Len(s) |-> s[i]]
    BY DEF ChildrenOf
  <2>3. \A i \in 1..Len(s) : s[i] \in Node
    BY <2>1 DEF NodesOK
  <2> HIDE DEF s
  <2>4. s \in Seq(Node)
    BY <2>1, <2>2, <2>3
  <2> QED
    BY <2>4 DEF s
<1>4. <<>> \in Seq(Node)
  OBVIOUS
<1>5. f.children \in [Node -> Seq(Node)]
  BY <1>1, <1>3, <1>4
<1>6. ASSUME NEW n \in DOMAIN tree
      PROVE  tree[n].ty \in EntryTypes
  <2>1. tree[n].ty \in Types
    BY EntryParts DEF Entry
  <2>2. Len(tasks) = 0
    OBVIOUS
  <2>3. ~Unread(n)
    BY <2>2 DEF TasksOK
  <2> QED
    BY <2>1, <2>3 DEF Types, Unread
<1>7. f.ty \in [Node -> EntryTypes]
  <2>1. "active" \in EntryTypes
    BY DEF EntryTypes, FileTypes
  <2> QED
    BY <1>1, <1>6, <2>1
<1>8. f.name \in [Node -> STRING]
  <2>1. ASSUME NEW n \in Node
        PROVE  n[Len(n)] \in STRING
    <3>1. n \in Path /\ n # <<>>
      BY NodeAssumption
    <3>2. Len(n) \in 1..Len(n)
      BY <3>1, PathParts
    <3> QED
      BY <3>1, <3>2, PathParts
  <2> QED
    BY <1>1, <2>1
<1>9. ASSUME NEW n \in Node, f.ty[n] # "dir"
      PROVE  f.children[n] = <<>>
  BY <1>1, <1>9
<1> QED
  BY <1>2, <1>5, <1>7, <1>8, <1>9 DEF Forest, f

LEMMA LinearizeStarts ==
  ASSUME RInv, NInv, HandedOver, Linearize
  PROVE  Starting' /\ fs' = AsForest(tree')
<1>1. Waiting /\ TreeOf(tree) /\ TasksOK /\ tasks = <<>> /\ NodesOK
  BY DEF HandedOver, RInv, NInv, Linearize
<1>2. fs' = AsForest(tree) /\ tree' = tree /\ pc' = "preopen"
      /\ UNCHANGED <<visits, preopen_indices, level, child_offset>>
  BY DEF Linearize
<1>3. Forest(fs')
  BY <1>1, <1>2, ForestRead
<1>4. fs' = AsForest(tree')
  BY <1>2 
<1> QED
  BY <1>1, <1>2, <1>3, <1>4 DEF Starting, Waiting, level

LEMMA StartedNext == Starting' => IInv' /\ RootsOK'
BY StartingIInv, StartingRoots, PTL

LEMMA HandedStep == RInv /\ NInv /\ HandedOver /\ [HostNext]_hvars => HandedOver'
<1> SUFFICES ASSUME RInv, NInv, HandedOver, [HostNext]_hvars PROVE HandedOver'
  OBVIOUS
<1>1. CASE Linearize
  <2>1. Starting' /\ fs' = AsForest(tree')
    BY <1>1, LinearizeStarts
  <2>2. stage' = "index"
    BY <1>1 DEF Linearize
  <2> QED
    BY <2>1, <2>2, StartedNext DEF HandedOver
<1>2. CASE IndexStep
  <2>1. stage = "index" /\ stage' = stage /\ Next /\ tree' = tree
    BY <1>2 DEF IndexStep, rvars
  <2>2. IInv /\ RootsOK /\ fs = AsForest(tree)
    BY <2>1 DEF HandedOver
  <2>3. IInv' /\ RootsOK' /\ fs' = fs
    BY <2>1, <2>2, StepIInv, RootsStep, ForestKept
  <2>4. fs' = AsForest(tree')
    BY <2>1, <2>2, <2>3
  <2> QED
    BY <2>1, <2>3, <2>4 DEF HandedOver
<1>3. CASE UNCHANGED <<vars, rvars>>
  <2>1. UNCHANGED vars /\ stage' = stage /\ tree' = tree
    BY <1>3 DEF rvars
  <2>2. CASE stage = "index"
    <3>1. IInv' /\ RootsOK' /\ fs' = fs
      BY <2>1, <2>2, StepIInv, RootsStep, ForestKept DEF HandedOver
    <3>2. fs' = AsForest(tree')
      BY <2>1, <2>2, <3>1 DEF HandedOver
    <3> QED
      BY <2>1, <2>2, <3>1, <3>2 DEF HandedOver
  <2>3. CASE stage # "index"
    BY <2>1, <2>3 DEF HandedOver, Waiting, vars, level
  <2> QED
    BY <2>2, <2>3
<1>4. CASE VisitInline \/ Metadata \/ ReadDir \/ ReadFile \/ Walk \/ HostChanges
  <2>1. stage # "index" /\ stage' # "index" /\ UNCHANGED vars
    BY <1>4 DEF VisitInline, Metadata, ReadDir, ReadFile, Walk, HostChanges, Calling, Refused, Abort
  <2> QED
    BY <2>1 DEF HandedOver, Waiting, vars, level
<1> QED
  BY <1>1, <1>2, <1>3, <1>4 DEF HostNext, Virtualizing, hvars

LEMMA HandedAlways == HostSpec => [](RInv /\ NInv /\ HandedOver)
<1>1. HostInit => HandedOver
  <2> SUFFICES ASSUME HostInit PROVE HandedOver
    OBVIOUS
  <2>1. stage = "walk"
    BY DEF HostInit
  <2> QED
    BY <2>1 DEF HostInit, HandedOver, Waiting
<1>2. HostInit => NInv
  BY InitNodes DEF NInv
<1> QED
  BY <1>1, <1>2, NodesStep, HandedStep, RInvariance, PTL DEF HostSpec

(***************************************************************************)
(* FailsForACause: a virtualization is only given up for what the host has *)
(* or did, and only panics for a name or for a symlink that is configured. *)
(***************************************************************************)
SymlinkMet == pc = "panicked" => \E n \in Node : fs.ty[n] = "symlink"

LEMMA SymlinkMetStep == IInv /\ SymlinkMet /\ [Next]_vars => SymlinkMet'
<1> SUFFICES ASSUME IInv, SymlinkMet, [Next]_vars PROVE SymlinkMet'
  OBVIOUS
<1>1. fs' = fs
  BY ForestKept
<1>2. CASE MeetSymlink
  <2>1. /\ fs.preopens \in Seq(Node) /\ fs.children \in [Node -> Seq(Node)]
        /\ preopen_indices \in Seq(Nat \ {0}) /\ children_of \in Seq(Node)
        /\ parent \in Nat \ {0} /\ child \in Nat \ {0}
    BY DEF IInv, TypeOK, Forest
  <2>2. CASE /\ Len(preopen_indices) < Len(fs.preopens)
             /\ fs.ty[fs.preopens[Len(preopen_indices) + 1]] = "symlink"
    <3>1. fs.preopens[Len(preopen_indices) + 1] \in Node
      BY <2>1, <2>2
    <3> QED
      BY <1>1, <2>2, <3>1 DEF SymlinkMet
  <2>3. CASE /\ parent <= Len(children_of) /\ child <= Size(children_of[parent])
             /\ fs.ty[Children(children_of[parent])[child]] = "symlink"
    <3>1. children_of[parent] \in Node
      BY <2>1, <2>3
    <3>2. Children(children_of[parent])[child] \in Node
      BY <2>1, <2>3, <3>1 DEF Children, Size
    <3> QED
      BY <1>1, <2>3, <3>2 DEF SymlinkMet
  <2> QED
    BY <1>2, <2>2, <2>3 DEF MeetSymlink
<1>3. CASE [Next]_vars /\ ~MeetSymlink
  <2>1. pc' = "panicked" => pc = "panicked"
    BY <1>3 DEF Next, vars, StartPreopen, BeginLevel, Complete, CountParent, CountDone,
                EmitChild, NextParent, LevelDone
  <2> QED
    BY <1>1, <2>1 DEF SymlinkMet
<1> QED
  BY <1>2, <1>3

\* What is linearized has the symlinks that the tree has.
HandedSymlink == IF stage = "index" THEN SymlinkMet ELSE pc = "waiting"

LEMMA HandedSymlinkStep ==
  HandedOver /\ HandedSymlink /\ [HostNext]_hvars => HandedSymlink'
<1> SUFFICES ASSUME HandedOver, HandedSymlink, [HostNext]_hvars PROVE HandedSymlink'
  OBVIOUS
<1>1. CASE Linearize
  <2>1. stage' = "index" /\ pc' = "preopen"
    BY <1>1 DEF Linearize
  <2> QED
    BY <2>1 DEF HandedSymlink, SymlinkMet
<1>2. CASE stage = "index" /\ stage' = stage /\ [Next]_vars
  <2>1. SymlinkMet'
    BY <1>2, SymlinkMetStep DEF HandedSymlink, HandedOver
  <2> QED
    BY <1>2, <2>1 DEF HandedSymlink
<1>3. CASE IndexStep
  BY <1>2, <1>3 DEF IndexStep, rvars
<1>4. CASE UNCHANGED <<vars, rvars>>
  <2>1. UNCHANGED vars /\ stage' = stage
    BY <1>4 DEF rvars
  <2>2. CASE stage # "index"
    BY <2>1, <2>2 DEF HandedSymlink, vars
  <2> QED
    BY <1>2, <2>1, <2>2
<1>5. CASE VisitInline \/ Metadata \/ ReadDir \/ ReadFile \/ Walk \/ HostChanges
  <2>1. stage # "index" /\ stage' # "index" /\ pc' = pc
    BY <1>5 DEF VisitInline, Metadata, ReadDir, ReadFile, Walk, HostChanges, Calling,
                Refused, Abort, vars
  <2> QED
    BY <2>1 DEF HandedSymlink
<1> QED
  BY <1>1, <1>3, <1>4, <1>5 DEF HostNext, Virtualizing, hvars

\* Whatever is configured and whatever the host has, answers or turns into, the
\* virtualization fails or panics only for a cause that is there.
THEOREM FailsOnlyForACause == HostSpec => []FailsForACause
<1>1. RInv /\ HandedOver /\ HandedSymlink => FailsForACause
  <2> SUFFICES ASSUME RInv, HandedOver, HandedSymlink PROVE FailsForACause
    OBVIOUS
  <2>1. ASSUME stage \in {"failed", "panicked"}
        PROVE  Source(Current) = HostPath
    <3>1. tasks # <<>> /\ tree[Current].ty = "virtualize"
      BY <2>1 DEF RInv, StageOK
    <3>2. TreeOf(tree) /\ tasks \in Seq(Task)
      BY DEF RInv, TasksOK
    <3>3. Current \in DOMAIN tree /\ tree[Current].from # <<>>
      BY <3>1, <3>2, CurrentIs
    <3> QED
      BY <3>2, <3>3, SourceIs DEF HostPath
  <2>2. /\ stage = "failed" =>
              \/ cause = "refused"
              \/ cause = "metadata" /\ KindAt(Source(Current)) \notin {"dir", "file"}
              \/ cause = "read_dir" /\ KindAt(Source(Current)) # "dir" /\ moved
              \/ cause = "read" /\ KindAt(Source(Current)) # "file" /\ moved
        /\ stage = "panicked" => Listing(Source(Current)) \cap Garbled # {}
    BY <2>1 DEF RInv, StageOK
  <2>3. ASSUME pc = "panicked"
        PROVE  \E n \in DOMAIN tree : tree[n].ty = "symlink"
    <3>1. stage = "index"
      BY <2>3 DEF HandedSymlink
    <3>2. fs = AsForest(tree)
      BY <3>1 DEF HandedOver
    <3>3. PICK n \in Node : fs.ty[n] = "symlink"
      BY <2>3, <3>1 DEF HandedSymlink, SymlinkMet
    <3>4. fs.ty[n] = IF n \in DOMAIN tree THEN tree[n].ty ELSE "active"
      BY <3>2 DEF AsForest
    <3> QED
      BY <3>3, <3>4
  <2> QED
    BY <2>2, <2>3 DEF FailsForACause
<1>2. HostInit => HandedSymlink
  BY DEF HostInit, HandedSymlink
<1> QED
  BY <1>1, <1>2, HandedSymlinkStep, HandedAlways, PTL DEF HostSpec

\* Whatever is configured and whatever the host has, the index that is written has
\* every directory's children where the adapter looks for them.
THEOREM HostIndexSound == HostSpec => []ChildListsExact
<1>1. HandedOver => ChildListsExact
  <2>1. Waiting => ChildListsExact
    BY DEF Waiting, ChildListsExact
  <2> QED
    BY <2>1, ListsExact DEF HandedOver
<1> QED
  BY <1>1, HandedAlways, PTL

(***************************************************************************)
(* Without runtime directories, what is read is as PlainForest has it.     *)
(***************************************************************************)
NoRuntimeDirs == \A n \in DOMAIN tree : tree[n].ty # "rdir"

LEMMA InitNoRuntimeDirs ==
  ASSUME PlainTrees
  PROVE  HostInit => NoRuntimeDirs
BY DEF PlainTrees, HostInit, NoRuntimeDirs

LEMMA NoRuntimeDirsStep == RInv /\ NoRuntimeDirs /\ [HostNext]_hvars => NoRuntimeDirs'
<1> SUFFICES ASSUME RInv, NoRuntimeDirs, [HostNext]_hvars PROVE NoRuntimeDirs'
  OBVIOUS
<1>1. /\ TreeOf(tree) /\ tasks \in Seq(Task) /\ host \in Host
      /\ tree \in [DOMAIN tree -> Entry]
  BY DEF RInv, TasksOK, TreeOf, Filesystem
<1>2. CASE UNCHANGED tree
  BY <1>2 DEF NoRuntimeDirs
<1>3. ASSUME NEW ty, ty # "rdir", tree' = [tree EXCEPT ![Current].ty = ty],
             Current \in DOMAIN tree
      PROVE  NoRuntimeDirs'
  <2>1. tree[Current] = [ty |-> tree[Current].ty, from |-> tree[Current].from,
                         listed |-> tree[Current].listed]
    BY <1>1, <1>3 DEF Entry
  <2>2. DOMAIN tree' = DOMAIN tree /\ tree'[Current].ty = ty
        /\ \A n \in DOMAIN tree \ {Current} : tree'[n] = tree[n]
    BY <1>1, <1>3, <2>1
  <2> QED
    BY <1>3, <2>2 DEF NoRuntimeDirs
<1>4. CASE VisitInline
  <2> DEFINE ty == IF tree[Current].ty = "source" THEN "active" ELSE tree[Current].ty
  <2>1. tasks # <<>> /\ tree' = [tree EXCEPT ![Current].ty = ty]
    BY <1>4 DEF VisitInline, Calling
  <2>2. Current \in DOMAIN tree
    BY <1>1, <2>1, CurrentIs
  <2>3. ty # "rdir"
    BY <2>2 DEF NoRuntimeDirs
  <2> HIDE DEF ty
  <2> QED
    BY <1>3, <2>1, <2>2, <2>3
<1>5. CASE ReadFile /\ tree' = [tree EXCEPT ![Current].ty = "active"]
  <2>1. tasks # <<>>
    BY <1>5 DEF ReadFile, RInv, StageOK
  <2>2. Current \in DOMAIN tree
    BY <1>1, <2>1, CurrentIs
  <2> QED
    BY <1>3, <1>5, <2>2
<1>6. CASE /\ ReadDir /\ KindAt(HostPath) = "dir" /\ Listing(HostPath) \cap Garbled = {}
           /\ tree' # tree
  <2> DEFINE c == Current
             names == Listing(HostPath)
  <2>1. /\ tasks # <<>> /\ tree[c].ty = "virtualize"
        /\ tree' = Extend([tree EXCEPT ![c].ty = "dir"],
                          [n \in {Append(c, x) : x \in names} |->
                             Virtualize(Full(HostPath, n[Len(n)]), TRUE)])
    BY <1>6 DEF ReadDir, Refused, Abort, RInv, StageOK
  <2>2. c \in DOMAIN tree /\ HostPath \in Path /\ HostPath = tree[c].from[1]
    BY <1>1, <2>1, CurrentIs DEF HostPath
  <2>3. names \in SUBSET Elements(Names)
    BY <1>1, <2>2, ListingNames
  <2>4. tree' = Read(tree, c, names)
    BY <2>1 DEF Read, Entries, Below, HostPath
  <2> HIDE DEF c, names
  <2>5. Grown(tree, c, names, tree')
    BY <1>1, <2>1, <2>2, <2>3, <2>4, Reads
  <2>6. /\ DOMAIN tree' = DOMAIN tree \cup Below(c, names)
        /\ tree'[c].ty = "dir"
        /\ \A n \in DOMAIN tree \ {c} : tree'[n] = tree[n]
        /\ \A x \in names : tree'[Append(c, x)].ty = "virtualize"
    <3>1. \A x \in names : tree'[Append(c, x)] = Virtualize(Append(HostPath, x), TRUE)
      BY <2>2, <2>5 DEF Grown
    <3>2. ASSUME NEW x \in names
          PROVE  tree'[Append(c, x)].ty = "virtualize"
      <4>1. Append(HostPath, x) \in Path
        BY <2>2, <2>3, NamesAreStrings, ChildPath
      <4> QED
        BY <3>1, <4>1, VirtualizeIs
    <3> QED
      BY <2>5, <3>2 DEF Grown
  <2> QED
    BY <2>6 DEF NoRuntimeDirs, Below
<1>7. CASE ReadFile \/ ReadDir
  BY <1>2, <1>5, <1>6, <1>7 DEF ReadFile, ReadDir, Refused, Abort
<1>8. CASE Metadata \/ Walk \/ Linearize \/ IndexStep \/ HostChanges \/ UNCHANGED hvars
  <2>1. UNCHANGED tree
    BY <1>8 DEF Metadata, Refused, Abort, Walk, Linearize, IndexStep, HostChanges, rvars, hvars
  <2> QED
    BY <1>2, <2>1
<1> QED
  BY <1>4, <1>7, <1>8 DEF HostNext, Virtualizing

\* The names of a directory come in the order of all names.
LEMMA OnlyOrdered ==
  ASSUME NEW S, NEW s \in Seq(S), NEW keys, NEW Less,
         \A a, b \in 1..Len(s) : a < b => <<s[a], s[b]>> \in Less
  PROVE  \A i, j \in 1..Len(Only(s, keys)) :
           i < j => <<Only(s, keys)[i], Only(s, keys)[j]>> \in Less
<1> DEFINE o == Only(s, keys)
           n == Len(s)
           l == Len(o)
<1>1. o \in Seq(S) /\ KeptTo(s, keys, o, n)
  BY OnlyKeeps
<1> HIDE DEF o
<1>2. n \in Nat /\ l \in Nat
  BY <1>1
<1>3. \A j \in 1..l : \A i \in 1..(j - 1) :
        \E b \in 1..n : \E a \in 1..(b - 1) : o[i] = s[a] /\ o[j] = s[b]
  BY <1>1 DEF KeptTo
<1> HIDE DEF n, l
<1>4. ASSUME NEW j \in 1..l, NEW i \in 1..(j - 1)
      PROVE  <<o[i], o[j]>> \in Less
  <2>1. PICK b \in 1..n : \E a \in 1..(b - 1) : o[i] = s[a] /\ o[j] = s[b]
    BY <1>3
  <2>2. PICK a \in 1..(b - 1) : o[i] = s[a] /\ o[j] = s[b]
    BY <2>1
  <2>3. a \in 1..n /\ a < b
    BY <1>2
  <2> QED
    BY <2>2, <2>3 DEF n
<1>5. \A i, j \in 1..l : i < j => <<o[i], o[j]>> \in Less
  BY <1>2, <1>4
<1> QED
  BY <1>5 DEF o, l

\* The names of a directory are in it once.
LEMMA OnlyOnce ==
  ASSUME NEW S, NEW s \in Seq(S), NEW keys,
         \A a, b \in 1..Len(s) : s[a] = s[b] => a = b
  PROVE  \A i, j \in 1..Len(Only(s, keys)) :
           Only(s, keys)[i] = Only(s, keys)[j] => i = j
<1> DEFINE o == Only(s, keys)
           n == Len(s)
           l == Len(o)
<1>1. o \in Seq(S) /\ KeptTo(s, keys, o, n)
  BY OnlyKeeps
<1> HIDE DEF o
<1>2. n \in Nat /\ l \in Nat
  BY <1>1
<1>3. \A j \in 1..l : \A i \in 1..(j - 1) :
        \E b \in 1..n : \E a \in 1..(b - 1) : o[i] = s[a] /\ o[j] = s[b]
  BY <1>1 DEF KeptTo
<1> HIDE DEF n, l
<1>4. ASSUME NEW j \in 1..l, NEW i \in 1..(j - 1)
      PROVE  o[i] # o[j]
  <2>1. PICK b \in 1..n : \E a \in 1..(b - 1) : o[i] = s[a] /\ o[j] = s[b]
    BY <1>3
  <2>2. PICK a \in 1..(b - 1) : o[i] = s[a] /\ o[j] = s[b]
    BY <2>1
  <2>3. a \in 1..n /\ a # b
    BY <1>2
  <2> QED
    BY <2>2, <2>3 DEF n
<1>5. ASSUME NEW i \in 1..l, NEW j \in 1..l, o[i] = o[j]
      PROVE  i = j
  <2>1. CASE i < j
    BY <1>2, <1>4, <1>5, <2>1
  <2>2. CASE j < i
    BY <1>2, <1>4, <1>5, <2>2
  <2> QED
    BY <1>2, <2>1, <2>2
<1> QED
  BY <1>5 DEF o, l

LEMMA PlainRead ==
  ASSUME TreeOf(tree), NodesOK, NoRuntimeDirs
  PROVE  PlainForest(AsForest(tree))
<1> DEFINE f == AsForest(tree)
<1>1. /\ f.children = [n \in Node |->
                        IF n \in DOMAIN tree /\ tree[n].ty = "dir" THEN ChildrenOf(tree, n)
                        ELSE <<>>]
      /\ f.ty = [n \in Node |-> IF n \in DOMAIN tree THEN tree[n].ty ELSE "active"]
      /\ f.name = [n \in Node |-> n[Len(n)]]
  BY DEF AsForest
<1> HIDE DEF f
<1>2. ASSUME NEW n \in Node
      PROVE  f.ty[n] # "rdir"
  BY <1>1 DEF NoRuntimeDirs
<1>3. ASSUME NEW n \in DOMAIN tree
      PROVE  LET s == ChildrenOf(tree, n)
             IN  \A c, d \in 1..Len(s) :
                   /\ f.name[s[c]] = f.name[s[d]] => c = d
                   /\ c < d => <<f.name[s[c]], f.name[s[d]]>> \in ByteOrder
  <2> DEFINE keys == {x \in Elements(Names) : Append(n, x) \in DOMAIN tree}
             o == Only(Names, keys)
             s == ChildrenOf(tree, n)
  <2>1. /\ o \in Seq(STRING)
        /\ \A x : (\E i \in 1..Len(o) : o[i] = x) <=> x \in Elements(Names) /\ x \in keys
        /\ \A i, j \in 1..Len(o) : o[i] = o[j] => i = j
        /\ \A i, j \in 1..Len(o) : i < j => <<o[i], o[j]>> \in ByteOrder
    <3>1. /\ Names \in Seq(STRING)
          /\ \A a, b \in 1..Len(Names) : Names[a] = Names[b] => a = b
          /\ \A a, b \in 1..Len(Names) : a < b => <<Names[a], Names[b]>> \in ByteOrder
      BY SetupsAssumption
    <3> HIDE DEF keys
    <3>2. /\ Only(Names, keys) \in Seq(STRING)
          /\ \A x : (\E i \in 1..Len(Only(Names, keys)) : Only(Names, keys)[i] = x)
                     <=> x \in Elements(Names) /\ x \in keys
      BY <3>1, OnlyElements
    <3>3. \A i, j \in 1..Len(Only(Names, keys)) :
            Only(Names, keys)[i] = Only(Names, keys)[j] => i = j
      BY <3>1, OnlyOnce
    <3>4. \A i, j \in 1..Len(Only(Names, keys)) :
            i < j => <<Only(Names, keys)[i], Only(Names, keys)[j]>> \in ByteOrder
      BY <3>1, OnlyOrdered
    <3> QED
      BY <3>2, <3>3, <3>4
  <2>2. s = [i \in 1..Len(o) |-> Append(n, o[i])]
    BY DEF ChildrenOf, ChildNames, Under
  <2>3. \A x \in keys : Append(n, x) \in DOMAIN tree
    OBVIOUS
  <2> HIDE DEF o, keys
  <2>4. Len(o) \in Nat /\ Len(s) = Len(o) /\ \A i \in 1..Len(o) : s[i] = Append(n, o[i])
    BY <2>1, <2>2
  <2>5. ASSUME NEW i \in 1..Len(o)
        PROVE  f.name[s[i]] = o[i]
    <3>1. o[i] \in keys /\ o[i] \in STRING /\ n \in Path
      BY <2>1, EntryParts
    <3>2. s[i] \in Node
      BY <2>3, <2>4, <3>1 DEF NodesOK
    <3>3. Len(s[i]) = Len(n) + 1 /\ s[i][Len(n) + 1] = o[i]
      BY <2>4, <3>1, ChildPath
    <3> QED
      BY <1>1, <3>2, <3>3
  <2> HIDE DEF s
  <2>6. \A c, d \in 1..Len(s) :
          /\ f.name[s[c]] = f.name[s[d]] => c = d
          /\ c < d => <<f.name[s[c]], f.name[s[d]]>> \in ByteOrder
    BY <2>1, <2>4, <2>5
  <2> QED
    BY <2>6 DEF s
<1>4. ASSUME NEW n \in Node
      PROVE  \A c, d \in 1..Len(f.children[n]) :
               /\ f.name[f.children[n][c]] = f.name[f.children[n][d]] => c = d
               /\ c < d => <<f.name[f.children[n][c]], f.name[f.children[n][d]]>> \in ByteOrder
  <2>1. CASE n \in DOMAIN tree /\ tree[n].ty = "dir"
    <3> DEFINE s == ChildrenOf(tree, n)
    <3>1. f.children[n] = s
      BY <1>1, <2>1
    <3>2. \A c, d \in 1..Len(s) :
            /\ f.name[s[c]] = f.name[s[d]] => c = d
            /\ c < d => <<f.name[s[c]], f.name[s[d]]>> \in ByteOrder
      BY <1>3, <2>1
    <3> HIDE DEF s
    <3> QED
      BY <3>1, <3>2
  <2>2. CASE ~(n \in DOMAIN tree /\ tree[n].ty = "dir")
    <3>1. f.children[n] = <<>>
      BY <1>1, <2>2
    <3> QED
      BY <3>1
  <2> QED
    BY <2>1, <2>2
<1> QED
  BY <1>2, <1>4 DEF PlainForest, f

\* For every configuration without runtime directories and every host, a path
\* looked up in the index that is written leads to what was read there.
THEOREM HostLookupsFindTheTree ==
  ASSUME PlainTrees
  PROVE  HostSpec => []LookupAgrees
<1>1. HandedOver /\ RInv /\ NInv /\ NoRuntimeDirs => LookupAgrees
  <2> SUFFICES ASSUME HandedOver, RInv, NInv, NoRuntimeDirs PROVE LookupAgrees
    OBVIOUS
  <2>1. CASE stage = "index"
    <3>1. fs = AsForest(tree) /\ IInv /\ RootsOK
      BY <2>1 DEF HandedOver
    <3>2. PlainForest(fs)
      BY <3>1, PlainRead DEF RInv, NInv
    <3> QED
      BY <3>1, <3>2, AllLookupsAgree DEF PlainTrees
  <2>2. CASE stage # "index"
    BY <2>2 DEF HandedOver, Waiting, LookupAgrees
  <2> QED
    BY <2>1, <2>2
<1> QED
  BY <1>1, HandedAlways, InitNoRuntimeDirs, NoRuntimeDirsStep, PTL DEF HostSpec

=============================================================================
