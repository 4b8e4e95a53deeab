-------------------------- MODULE AdapterImageProofs --------------------------
(***************************************************************************)
(* Proofs about DataSection, for every stack size, every set of names and  *)
(* files and every number of entries, and about AdapterImage, for every    *)
(* layout of the adapter that the assumptions admit and every              *)
(* configuration.  AdapterImage implements DataSection, so that all that   *)
(* is proved of the data section holds of the patched adapter; what        *)
(* finish writes fits where it is written; and the adapter that is loaded  *)
(* finds what was written for it.                                          *)
(***************************************************************************)
EXTENDS AdapterImage, TLAPS

(***************************************************************************)
(* What the struct Data satisfies between two of its calls.                *)
(***************************************************************************)
DataOK(d) ==
  /\ DataType(d)
  /\ d.stack_ptr <= d.stack_start
  /\ \A a \in d.placed : /\ d.stack_ptr <= a.lo
                         /\ a.lo <= a.hi
                         /\ a.hi <= d.stack_start
  /\ Disjoint(d.placed)
  /\ \A s \in DOMAIN d.strings :
       [what |-> "string", lo |-> d.strings[s],
        hi |-> d.strings[s] + StrLen[s] + 1] \in d.placed
  /\ \A a \in d.placed : a.what = "preopens" => (a.lo % 4) = 0

(***************************************************************************)
(* The inductive invariant.  Besides the properties themselves it needs    *)
(* that Data starts at the very stack pointer that finish will lower, that *)
(* the stack pointer keeps its alignment, and that the write of the index  *)
(* leaves an even pointer to the write of the preopen table.               *)
(***************************************************************************)
IInv ==
  /\ TypeOK
  /\ DataOK(data)
  /\ StackBelowData
  /\ stack_pointer <= StackTop
  /\ phase \in {"linearize", "preopens", "finish"} =>
       data.stack_start = stack_pointer
  /\ phase = "preopens" => (data.stack_ptr % 2) = 0
  /\ AllEmbedded

-----------------------------------------------------------------------------
(***************************************************************************)
(* Lemmas about the allocator.                                             *)
(***************************************************************************)

\* An allocation that passed the room check stays at or above zero and ends at
\* or below the old pointer, however it was padded.
LEMMA NewPtrBounds ==
  ASSUME NEW ptr \in Nat, NEW len \in Nat, NEW align \in {1, 4},
         len + align <= ptr
  PROVE  /\ NewPtr(ptr, len, align) \in Nat
         /\ NewPtr(ptr, len, align) + len <= ptr
<1>1. CASE align = 1
  BY <1>1 DEF NewPtr
<1>2. CASE align = 4
  BY <1>2 DEF NewPtr
<1> QED BY <1>1, <1>2

\* With an element size that is a multiple of 4, the padding computed from the
\* pointer before the allocation aligns it when that pointer is even; from an
\* odd one the result is even, but not aligned.
LEMMA NewPtrParity ==
  ASSUME NEW ptr \in Nat, NEW len \in Nat, len + 4 <= ptr, (len % 4) = 0
  PROVE  /\ (NewPtr(ptr, len, 4) % 2) = 0
         /\ (ptr % 2) = 0 => (NewPtr(ptr, len, 4) % 4) = 0
  BY DEF NewPtr

\* An allocation keeps everything Data guarantees, provided it does not claim to
\* be an aligned preopen table without being one.
LEMMA StackAllocOK ==
  ASSUME NEW d, DataOK(d),
         NEW what \in What, NEW len \in Nat, NEW align \in {1, 4},
         HasRoom(d, len, align),
         what = "preopens" => (NewPtr(d.stack_ptr, len, align) % 4) = 0
  PROVE  LET e == StackAlloc(d, what, len, align)
         IN  /\ DataOK(e)
             /\ e.stack_start = d.stack_start
             /\ e.strings = d.strings
             /\ e.stack_ptr = NewPtr(d.stack_ptr, len, align)
             /\ [what |-> what, lo |-> e.stack_ptr, hi |-> e.stack_ptr + len]
                  \in e.placed
<1> DEFINE lo == NewPtr(d.stack_ptr, len, align)
           new == [what |-> what, lo |-> lo, hi |-> lo + len]
           e == StackAlloc(d, what, len, align)
<1>1. lo \in Nat /\ lo + len <= d.stack_ptr
  BY NewPtrBounds DEF DataOK, DataType, HasRoom
<1>2. e = [stack_start |-> d.stack_start, stack_ptr |-> lo,
           strings |-> d.strings, passive |-> d.passive,
           placed |-> d.placed \cup {new}]
  <2>1. d \in [stack_start : Nat, stack_ptr : Nat, strings : {d.strings},
               passive : Nat, placed : SUBSET Placement]
    BY DEF DataOK, DataType
  <2> DEFINE m == [d EXCEPT !.stack_ptr = lo]
  <2>2. e = [m EXCEPT !.placed = d.placed \cup {new}]
    BY DEF StackAlloc
  <2>3. /\ m = [stack_start |-> d.stack_start, stack_ptr |-> lo,
                strings |-> d.strings, passive |-> d.passive,
                placed |-> d.placed]
        /\ m \in [stack_start : Nat, stack_ptr : Nat, strings : {d.strings},
                  passive : Nat, placed : SUBSET Placement]
    BY <1>1, <2>1
  <2> HIDE DEF m, lo, e
  <2> QED BY <2>2, <2>3
<1> HIDE DEF lo, e
<1>3. new \in Placement
  BY <1>1 DEF Placement
<1>4. DataType(e)
  BY <1>1, <1>2, <1>3 DEF DataOK, DataType
<1>5. e.stack_ptr <= e.stack_start
  BY <1>1, <1>2 DEF DataOK, DataType
<1>6. \A a \in e.placed : /\ e.stack_ptr <= a.lo
                         /\ a.lo <= a.hi
                         /\ a.hi <= e.stack_start
  <2> TAKE a \in e.placed
  <2>1. CASE a = new
    BY <1>1, <1>2, <2>1 DEF DataOK, DataType
  <2>2. CASE a \in d.placed
    BY <1>1, <1>2, <2>2 DEF DataOK, DataType, Placement
  <2> QED BY <1>2, <2>1, <2>2
<1>7. Disjoint(e.placed)
  <2> SUFFICES ASSUME NEW a \in e.placed, NEW b \in e.placed
               PROVE  a = b \/ a.hi <= b.lo \/ b.hi <= a.lo
    BY DEF Disjoint
  <2>1. \A c \in d.placed : new.hi <= c.lo
    BY <1>1 DEF DataOK, DataType, Placement
  <2>2. CASE a \in d.placed /\ b \in d.placed
    BY <2>2 DEF DataOK, Disjoint
  <2> QED BY <1>2, <2>1, <2>2
<1>8. \A s \in DOMAIN e.strings :
        [what |-> "string", lo |-> e.strings[s],
         hi |-> e.strings[s] + StrLen[s] + 1] \in e.placed
  BY <1>2 DEF DataOK
<1>9. \A a \in e.placed : a.what = "preopens" => (a.lo % 4) = 0
  BY <1>2 DEF DataOK, lo
<1>10. DataOK(e)
  BY <1>4, <1>5, <1>6, <1>7, <1>8, <1>9 DEF DataOK
<1> QED BY <1>2, <1>10 DEF e, lo

\* Interning a string, new or known, keeps it too.
LEMMA WithStringOK ==
  ASSUME NEW d, DataOK(d), NEW s \in Strings, StringRoom(d, s)
  PROVE  /\ DataOK(WithString(d, s))
         /\ WithString(d, s).stack_start = d.stack_start
         /\ \A t \in DOMAIN d.strings :
              /\ t \in DOMAIN WithString(d, s).strings
              /\ WithString(d, s).strings[t] = d.strings[t]
<1>1. CASE Known(d, s)
  BY <1>1 DEF WithString
<1>2. CASE ~Known(d, s)
  <2> DEFINE len == StringLen(s)
             e == StackAlloc(d, "string", len, 1)
             strs == [t \in DOMAIN d.strings \cup {s} |->
                        IF t = s THEN e.stack_ptr ELSE d.strings[t]]
             f == WithString(d, s)
  <2>1. len \in Nat
    BY StrLenAssumption DEF StringLen
  <2>2. /\ DataOK(e)
        /\ e.stack_start = d.stack_start
        /\ e.strings = d.strings
        /\ [what |-> "string", lo |-> e.stack_ptr, hi |-> e.stack_ptr + len]
             \in e.placed
    BY <1>2, <2>1, StackAllocOK DEF StringRoom, What
  <2>3. f = [e EXCEPT !.strings = strs]
    BY <1>2 DEF WithString
  <2> HIDE DEF e
  <2>4. f = [stack_start |-> e.stack_start, stack_ptr |-> e.stack_ptr,
             strings |-> strs, passive |-> e.passive, placed |-> e.placed]
    BY <2>2, <2>3 DEF DataOK, DataType
  <2> HIDE DEF f
  <2>5. DataType(f)
    BY <2>2, <2>4 DEF DataOK, DataType
  <2>6. \A t \in DOMAIN f.strings :
          [what |-> "string", lo |-> f.strings[t],
           hi |-> f.strings[t] + StrLen[t] + 1] \in f.placed
    <3> TAKE t \in DOMAIN f.strings
    <3>1. CASE t = s
      <4>1. e.stack_ptr \in Nat /\ StrLen[s] \in Nat
        BY <2>2, StrLenAssumption DEF DataOK, DataType
      <4>2. e.stack_ptr + len = e.stack_ptr + StrLen[s] + 1
        BY <4>1 DEF StringLen
      <4> QED BY <2>2, <2>4, <3>1, <4>2
    <3>2. CASE t # s
      BY <2>2, <2>4, <3>2 DEF DataOK
    <3> QED BY <3>1, <3>2
  <2>7. DataOK(f)
    BY <2>2, <2>4, <2>5, <2>6 DEF DataOK
  <2> QED BY <1>2, <2>2, <2>4, <2>7 DEF Known, f
<1> QED BY <1>1, <1>2

\* A longer history of passive segments changes no address.
LEMMA PassiveOK ==
  ASSUME NEW d, DataOK(d)
  PROVE  LET e == [d EXCEPT !.passive = @ + 1]
         IN  DataOK(e) /\ e.stack_start = d.stack_start /\ e.strings = d.strings
<1> DEFINE e == [d EXCEPT !.passive = @ + 1]
<1>1. d \in [stack_start : Nat, stack_ptr : Nat, strings : {d.strings},
             passive : Nat, placed : SUBSET Placement]
  BY DEF DataOK, DataType
<1>2. e = [stack_start |-> d.stack_start, stack_ptr |-> d.stack_ptr,
           strings |-> d.strings, passive |-> d.passive + 1,
           placed |-> d.placed]
  BY <1>1
<1> HIDE DEF e
<1>3. DataType(e)
  BY <1>1, <1>2 DEF DataOK, DataType
<1> QED BY <1>2, <1>3 DEF DataOK, e

\* Rounding the section keeps it at or above zero, because it starts aligned.
LEMMA FinishPtrBounds ==
  ASSUME NEW d, DataOK(d), (d.stack_start % 8) = 0
  PROVE  /\ FinishPtr(d) \in Nat
         /\ FinishPtr(d) <= d.stack_ptr
         /\ ((d.stack_start - FinishPtr(d)) % 8) = 0
         /\ (FinishPtr(d) % 8) = 0
<1>1. ASSUME NEW start \in Nat, NEW ptr \in Nat, ptr <= start, (start % 8) = 0
      PROVE  LET rem == (start - ptr) % 8
                 new == IF rem # 0 THEN ptr - (8 - rem) ELSE ptr
             IN  /\ new \in Nat
                 /\ new <= ptr
                 /\ ((start - new) % 8) = 0
                 /\ (new % 8) = 0
  BY <1>1
<1>2. /\ d.stack_start \in Nat
      /\ d.stack_ptr \in Nat
      /\ d.stack_ptr <= d.stack_start
  BY DEF DataOK, DataType
<1> QED BY <1>1, <1>2 DEF FinishPtr

-----------------------------------------------------------------------------
(***************************************************************************)
(* Every visit either fails, which changes nothing, or moves Data from one *)
(* consistent state to another with the same start and the same pointers   *)
(* for the strings it already had.                                         *)
(***************************************************************************)
Visit ==
  \/ \E name \in Strings : VisitDir(name)
  \/ \E name, path \in Strings : VisitRuntime(name, path)
  \/ \E name \in Strings, len \in FileLens : VisitFile(name, len)

Grows(d, e) ==
  /\ DataOK(e)
  /\ e.stack_start = d.stack_start
  /\ \A t \in DOMAIN d.strings :
       t \in DOMAIN e.strings /\ e.strings[t] = d.strings[t]

LEMMA VisitGrows ==
  ASSUME DataOK(data), Visit
  PROVE  Fail \/ (Grows(data, data') /\ entries' = entries + 1
                  /\ UNCHANGED <<phase, stack_pointer, segments>>)
<1>1. ASSUME NEW name \in Strings, VisitDir(name)
      PROVE  Fail \/ (Grows(data, data') /\ entries' = entries + 1
                      /\ UNCHANGED <<phase, stack_pointer, segments>>)
  BY <1>1, WithStringOK DEF VisitDir, Push, Grows
<1>2. ASSUME NEW name \in Strings, NEW path \in Strings,
             VisitRuntime(name, path)
      PROVE  Fail \/ (Grows(data, data') /\ entries' = entries + 1
                      /\ UNCHANGED <<phase, stack_pointer, segments>>)
  <2> DEFINE d == WithString(data, name)
             room == StringRoom(data, name) /\ StringRoom(d, path)
  <2>1. CASE ~room
    BY <1>2, <2>1 DEF VisitRuntime, Push
  <2>2. CASE room
    <3>1. Grows(data, d)
      BY <2>2, WithStringOK DEF Grows
    <3>2. Grows(d, WithString(d, path))
      BY <2>2, <3>1, WithStringOK DEF Grows
    <3>3. Grows(data, WithString(d, path))
      BY <3>1, <3>2 DEF Grows
    <3> QED BY <1>2, <2>2, <3>3 DEF VisitRuntime, Push
  <2> QED BY <2>1, <2>2
<1>3. ASSUME NEW name \in Strings, NEW len \in FileLens, VisitFile(name, len)
      PROVE  Fail \/ (Grows(data, data') /\ entries' = entries + 1
                      /\ UNCHANGED <<phase, stack_pointer, segments>>)
  <2> DEFINE d == WithString(data, name)
  <2>1. CASE ~StringRoom(data, name)
    BY <1>3, <2>1 DEF VisitFile, Push
  <2>2. CASE StringRoom(data, name) /\ len > Cutoff
    <3>1. Grows(data, d)
      BY <2>2, WithStringOK DEF Grows
    <3>2. Grows(data, [d EXCEPT !.passive = @ + 1])
      BY <3>1, PassiveOK DEF Grows
    <3> QED BY <1>3, <2>2, <3>2 DEF VisitFile, Push
  <2>3. CASE StringRoom(data, name) /\ ~(len > Cutoff)
    <3>1. Grows(data, d)
      BY <2>3, WithStringOK DEF Grows
    <3>2. CASE ~HasRoom(d, len, 1)
      BY <1>3, <2>3, <3>2 DEF VisitFile, Push
    <3>3. CASE HasRoom(d, len, 1)
      <4> DEFINE e == StackAlloc(d, "bytes", len, 1)
      <4>1. DataOK(d) /\ len \in Nat /\ "bytes" \in What /\ 1 \in {1, 4}
        BY <3>1, FileLensAssumption DEF Grows, What
      <4>2. DataOK(e) /\ e.stack_start = d.stack_start /\ e.strings = d.strings
        <5> HIDE DEF d
        <5> QED BY <3>3, <4>1, StackAllocOK
      <4>3. Grows(data, e)
        BY <3>1, <4>2 DEF Grows
      <4> QED BY <1>3, <2>3, <3>3, <4>3 DEF VisitFile, Push
    <3> QED BY <3>2, <3>3
  <2> QED BY <2>1, <2>2, <2>3
<1> QED BY <1>1, <1>2, <1>3 DEF Visit

-----------------------------------------------------------------------------
(***************************************************************************)
(* The invariant holds initially and is kept by every step.                *)
(***************************************************************************)
LEMMA EmptyOK ==
  ASSUME NEW start \in Nat
  PROVE  DataOK(Empty(start))
  BY DEF Empty, DataOK, DataType, Disjoint

LEMMA InitIInv == Init => IInv
<1> SUFFICES ASSUME Init PROVE IInv
  OBVIOUS
<1>1. DataOK(data)
  BY EmptyOK DEF Init
<1>2. TypeOK
  BY <1>1, StackTopAssumption DEF Init, TypeOK, DataOK, Phase
<1>3. StackBelowData
  BY StackTopAssumption DEF Init, StackBelowData, Disjoint
<1> QED BY <1>1, <1>2, <1>3, StackTopAssumption
        DEF Init, IInv, AllEmbedded

\* A bail! anywhere keeps the invariant: nothing was embedded.
LEMMA FailStep == IInv /\ Fail => IInv'
  BY DEF IInv, Fail, TypeOK, StackBelowData, AllEmbedded, Phase

\* A new segment that ends where the stack pointer was and starts where it now
\* is lies below every earlier one.
LEMMA SegmentStep ==
  ASSUME IInv, NEW ptr \in Nat, ptr <= stack_pointer, (ptr % 8) = 0,
         stack_pointer' = ptr,
         segments' = segments \cup {[lo |-> ptr, hi |-> stack_pointer]}
  PROVE  /\ stack_pointer' \in Nat
         /\ segments' \subseteq Region
         /\ stack_pointer' <= StackTop
         /\ StackBelowData'
<1> DEFINE new == [lo |-> ptr, hi |-> stack_pointer]
<1>1. /\ stack_pointer \in Nat
      /\ segments \subseteq Region
      /\ stack_pointer <= StackTop
      /\ StackTop \in Nat
  BY StackTopAssumption DEF IInv, TypeOK
<1>2. new \in Region
  BY <1>1 DEF Region
<1>3. \A r \in segments : r.lo \in Nat /\ r.hi \in Nat
  BY <1>1 DEF Region
<1>4. \A r \in segments :
        stack_pointer <= r.lo /\ r.lo <= r.hi /\ r.hi <= StackTop
  BY DEF IInv, StackBelowData
<1>5. \A r \in segments' : ptr <= r.lo /\ r.lo <= r.hi /\ r.hi <= StackTop
  BY <1>1, <1>3, <1>4
<1>6. Disjoint(segments')
  BY <1>4 DEF IInv, StackBelowData, Disjoint
<1> QED BY <1>1, <1>2, <1>5, <1>6 DEF StackBelowData, Disjoint

LEMMA FieldDataStep ==
  ASSUME NEW from \in {"env", "config"}, NEW to \in {"config", "io"},
         IInv, FieldData(from, to)
  PROVE  IInv'
<1> PICK words \in 0..MaxWords :
      LET len == FieldDataLen(words)
      IN  IF len = 0
          THEN phase' = to /\ UNCHANGED <<stack_pointer, segments, data, entries>>
          ELSE IF ~CanBump(len) THEN Fail
          ELSE /\ stack_pointer' = stack_pointer - len
               /\ segments' = segments \cup
                    {[lo |-> stack_pointer - len, hi |-> stack_pointer]}
               /\ phase' = to
               /\ UNCHANGED <<data, entries>>
  BY DEF FieldData
<1> DEFINE len == FieldDataLen(words)
<1>1. CASE len = 0
  BY <1>1 DEF IInv, TypeOK, StackBelowData, AllEmbedded, Phase
<1>2. CASE len # 0 /\ ~CanBump(len)
  BY <1>2, FailStep
<1>3. CASE len # 0 /\ CanBump(len)
  <2>1. len \in Nat
    BY BoundsAssumption DEF FieldDataLen
  <2>2. stack_pointer \in Nat /\ (stack_pointer % 8) = 0
    BY DEF IInv, TypeOK, StackBelowData
  <2> HIDE DEF len
  <2>3. len <= stack_pointer /\ (len % 8) = 0
    BY <1>3 DEF CanBump
  <2>4. /\ stack_pointer - len \in Nat
        /\ stack_pointer - len <= stack_pointer
        /\ ((stack_pointer - len) % 8) = 0
    BY <2>1, <2>2, <2>3
  <2>5. /\ stack_pointer' = stack_pointer - len
        /\ segments' = segments \cup
             {[lo |-> stack_pointer - len, hi |-> stack_pointer]}
        /\ phase' = to
        /\ UNCHANGED <<data, entries>>
    BY <1>3 DEF len
  <2>6. /\ stack_pointer' \in Nat
        /\ segments' \subseteq Region
        /\ stack_pointer' <= StackTop
        /\ StackBelowData'
    BY <2>4, <2>5, SegmentStep
  <2>7. DataOK(data)' /\ DataType(data)' /\ entries' \in Nat
    BY <2>5 DEF IInv, TypeOK
  <2> QED BY <2>5, <2>6, <2>7 DEF IInv, TypeOK, AllEmbedded, Phase
<1> QED BY <1>1, <1>2, <1>3

LEMMA NewDataStep == IInv /\ NewData => IInv'
<1> SUFFICES ASSUME IInv, NewData PROVE IInv'
  OBVIOUS
<1>1. stack_pointer \in Nat
  BY DEF IInv, TypeOK
<1>2. DataOK(data')
  BY <1>1, EmptyOK DEF NewData
<1>3. data'.stack_start = stack_pointer
  BY DEF NewData, Empty
<1> QED BY <1>1, <1>2, <1>3
        DEF NewData, IInv, TypeOK, DataOK, StackBelowData, AllEmbedded, Phase

LEMMA VisitStep == IInv /\ Visit => IInv'
<1> SUFFICES ASSUME IInv, Visit PROVE IInv'
  OBVIOUS
<1>1. CASE Fail
  BY <1>1, FailStep
<1>2. CASE /\ Grows(data, data')
           /\ entries' = entries + 1
           /\ UNCHANGED <<phase, stack_pointer, segments>>
  <2>1. phase = "linearize"
    BY DEF Visit, VisitDir, VisitRuntime, VisitFile, Visiting
  <2> QED BY <1>2, <2>1
          DEF Grows, IInv, TypeOK, DataOK, StackBelowData, AllEmbedded
<1> QED BY <1>1, <1>2, VisitGrows DEF IInv

LEMMA WriteIndexStep == IInv /\ WriteIndex => IInv'
<1> SUFFICES ASSUME IInv, WriteIndex PROVE IInv'
  OBVIOUS
<1> DEFINE len == entries * 16
           e == StackAlloc(data, "index", len, 4)
<1>1. CASE ~HasRoom(data, len, 4)
  BY <1>1, FailStep DEF WriteIndex, WriteSlice
<1>2. CASE HasRoom(data, len, 4)
  <2>1. len \in Nat /\ (len % 4) = 0
    BY DEF IInv, TypeOK
  <2>2. /\ data' = e
        /\ phase' = "preopens"
        /\ UNCHANGED <<stack_pointer, segments, entries>>
    BY <1>2 DEF WriteIndex, WriteSlice
  <2>3. phase = "linearize"
    BY DEF WriteIndex
  <2> HIDE DEF len
  <2>4. /\ DataOK(e)
        /\ e.stack_start = data.stack_start
        /\ e.stack_ptr = NewPtr(data.stack_ptr, len, 4)
    <3>1. DataOK(data) /\ "index" \in What /\ 4 \in {1, 4}
      BY DEF IInv, What
    <3> QED BY <1>2, <2>1, <3>1, StackAllocOK
  <2> HIDE DEF e
  <2>5. (e.stack_ptr % 2) = 0
    <3>1. data.stack_ptr \in Nat /\ len + 4 <= data.stack_ptr
      BY <1>2 DEF IInv, DataOK, DataType, HasRoom
    <3> QED BY <2>1, <2>4, <3>1, NewPtrParity
  <2> QED BY <2>2, <2>3, <2>4, <2>5
          DEF IInv, TypeOK, DataOK, StackBelowData, AllEmbedded, Phase
<1> QED BY <1>1, <1>2

LEMMA WritePreopensStep == IInv /\ WritePreopens => IInv'
<1> SUFFICES ASSUME IInv, WritePreopens PROVE IInv'
  OBVIOUS
<1>0. PICK cnt \in 0..entries : WriteSlice("preopens", cnt, 4, "finish")
  BY DEF WritePreopens
<1> DEFINE len == cnt * 4
           e == StackAlloc(data, "preopens", len, 4)
<1>1. CASE ~HasRoom(data, len, 4)
  BY <1>0, <1>1, FailStep DEF WriteSlice
<1>2. CASE HasRoom(data, len, 4)
  <2>1. len \in Nat /\ (len % 4) = 0
    BY DEF IInv, TypeOK
  <2>2. /\ data' = e
        /\ phase' = "finish"
        /\ UNCHANGED <<stack_pointer, segments, entries>>
    BY <1>0, <1>2 DEF WriteSlice
  <2>3. phase = "preopens"
    BY DEF WritePreopens
  <2> HIDE DEF len
  <2>4. (NewPtr(data.stack_ptr, len, 4) % 4) = 0
    <3>1. /\ data.stack_ptr \in Nat
          /\ len + 4 <= data.stack_ptr
          /\ (data.stack_ptr % 2) = 0
      BY <1>2, <2>3 DEF IInv, DataOK, DataType, HasRoom
    <3> QED BY <2>1, <3>1, NewPtrParity
  <2>5. DataOK(e) /\ e.stack_start = data.stack_start
    <3>1. DataOK(data) /\ "preopens" \in What /\ 4 \in {1, 4}
      BY DEF IInv, What
    <3> QED BY <1>2, <2>1, <2>4, <3>1, StackAllocOK
  <2> HIDE DEF e
  <2> QED BY <2>2, <2>3, <2>5
          DEF IInv, TypeOK, DataOK, StackBelowData, AllEmbedded, Phase
<1> QED BY <1>1, <1>2

\* What finish computes from a state of the invariant: the bump it asks for is
\* one bump_stack_global accepts.
LEMMA FinishBump ==
  ASSUME IInv, phase = "finish"
  PROVE  /\ FinishPtr(data) \in Nat
         /\ FinishPtr(data) <= data.stack_ptr
         /\ (FinishPtr(data) % 8) = 0
         /\ FinishPtr(data) <= stack_pointer
         /\ stack_pointer - (data.stack_start - FinishPtr(data)) = FinishPtr(data)
         /\ CanBump(data.stack_start - FinishPtr(data))
<1> DEFINE ptr == FinishPtr(data)
<1>1. /\ data.stack_start = stack_pointer
      /\ stack_pointer \in Nat
      /\ (stack_pointer % 8) = 0
      /\ data.stack_ptr \in Nat
      /\ data.stack_ptr <= data.stack_start
  BY DEF IInv, TypeOK, StackBelowData, DataOK, DataType
<1>2. /\ ptr \in Nat
      /\ ptr <= data.stack_ptr
      /\ ((data.stack_start - ptr) % 8) = 0
      /\ (ptr % 8) = 0
  BY <1>1, FinishPtrBounds DEF IInv
<1> HIDE DEF ptr
<1>3. ptr <= stack_pointer /\ stack_pointer - (data.stack_start - ptr) = ptr
  BY <1>1, <1>2
<1>4. CanBump(data.stack_start - ptr)
  BY <1>1, <1>2 DEF CanBump
<1> QED BY <1>2, <1>3, <1>4 DEF ptr

LEMMA FinishStep == IInv /\ Finish => IInv'
<1> SUFFICES ASSUME IInv, Finish PROVE IInv'
  OBVIOUS
<1> DEFINE ptr == FinishPtr(data)
           new == [lo |-> ptr, hi |-> stack_pointer]
<1>1. phase = "finish" /\ data.stack_start = stack_pointer
  BY DEF Finish, IInv
<1>2. /\ ptr \in Nat
      /\ ptr <= data.stack_ptr
      /\ (ptr % 8) = 0
      /\ ptr <= stack_pointer
      /\ stack_pointer - (data.stack_start - ptr) = ptr
      /\ CanBump(data.stack_start - ptr)
  BY <1>1, FinishBump
<1>3. /\ stack_pointer' = ptr
      /\ segments' = segments \cup {new}
      /\ data' = [data EXCEPT !.stack_ptr = ptr]
      /\ phase' = "done"
      /\ UNCHANGED entries
  BY <1>1, <1>2 DEF Finish
<1> HIDE DEF ptr
<1>4. /\ stack_pointer' \in Nat
      /\ segments' \subseteq Region
      /\ stack_pointer' <= StackTop
      /\ StackBelowData'
  BY <1>2, <1>3, SegmentStep
<1>5. data' = [stack_start |-> data.stack_start, stack_ptr |-> ptr,
               strings |-> data.strings, passive |-> data.passive,
               placed |-> data.placed]
  <2>1. data \in [stack_start : Nat, stack_ptr : Nat, strings : {data.strings},
                  passive : Nat, placed : SUBSET Placement]
    BY DEF IInv, DataOK, DataType
  <2> QED BY <1>3, <2>1
<1>6. /\ data.stack_start \in Nat
      /\ data.stack_ptr \in Nat
      /\ data.stack_ptr <= data.stack_start
      /\ \A a \in data.placed :
           /\ a.lo \in Nat /\ a.hi \in Nat
           /\ data.stack_ptr <= a.lo /\ a.lo <= a.hi /\ a.hi <= data.stack_start
  BY DEF IInv, DataOK, DataType, Placement
<1>7. DataType(data')
  BY <1>2, <1>5 DEF IInv, DataOK, DataType
<1>8. \A a \in data.placed :
        ptr <= a.lo /\ a.lo <= a.hi /\ a.hi <= data.stack_start
  BY <1>2, <1>6
<1>9. DataOK(data')
  BY <1>2, <1>5, <1>6, <1>7, <1>8 DEF IInv, DataOK
<1>10. AllEmbedded'
  <2> SUFFICES ASSUME NEW a \in data'.placed
               PROVE  \E r \in segments' : r.lo <= a.lo /\ a.hi <= r.hi
    BY DEF AllEmbedded
  <2>1. a \in data.placed
    BY <1>5
  <2>2. new.lo <= a.lo /\ a.hi <= new.hi
    BY <1>1, <1>8, <2>1
  <2> QED BY <1>3, <2>2
<1> QED BY <1>3, <1>4, <1>7, <1>9, <1>10 DEF IInv, TypeOK, DataOK, Phase

LEMMA StepIInv == IInv /\ [Next]_vars => IInv'
<1> SUFFICES ASSUME IInv, [Next]_vars PROVE IInv'
  OBVIOUS
<1>1. CASE EnvFieldData \/ ConfigFieldData
  BY <1>1, FieldDataStep DEF EnvFieldData, ConfigFieldData
<1>2. CASE NewData
  BY <1>2, NewDataStep
<1>3. CASE Visit
  BY <1>3, VisitStep
<1>4. CASE WriteIndex
  BY <1>4, WriteIndexStep
<1>5. CASE WritePreopens
  BY <1>5, WritePreopensStep
<1>6. CASE Finish
  BY <1>6, FinishStep
<1>7. CASE UNCHANGED vars
  BY <1>7 DEF vars, IInv, TypeOK, DataOK, StackBelowData, AllEmbedded
<1> QED BY <1>1, <1>2, <1>3, <1>4, <1>5, <1>6, <1>7 DEF Next, Visit

LEMMA Invariance == Spec => []IInv
  BY InitIInv, StepIInv, PTL DEF Spec

-----------------------------------------------------------------------------
(***************************************************************************)
(* The theorems.                                                           *)
(***************************************************************************)

\* Every variable keeps its type: in particular no pointer of the allocator,
\* padded or rounded, ever drops below zero.
THEOREM TypeCorrect == Spec => []TypeOK
  BY Invariance, PTL DEF IInv

\* No two allocations of the data section overlap.
THEOREM AllocationsDisjoint == Spec => []PlacedDisjoint
<1>1. IInv => PlacedDisjoint
  BY DEF IInv, DataOK, PlacedDisjoint
<1> QED BY <1>1, Invariance, PTL

\* Interned strings keep the bytes they were given.
THEOREM StringsSound == Spec => []StringsPlaced
<1>1. IInv => StringsPlaced
  BY DEF IInv, DataOK, StringsPlaced
<1> QED BY <1>1, Invariance, PTL

\* The running adapter's stack lies below every data segment.
THEOREM StackSound == Spec => []StackBelowData
  BY Invariance, PTL DEF IInv

\* After finish every allocated range is part of an embedded segment.
THEOREM EmbeddingComplete == Spec => []AllEmbedded
  BY Invariance, PTL DEF IInv

\* The preopen table is aligned, whatever was allocated before the index.
THEOREM PreopensSound == Spec => []PreopensAligned
<1>1. IInv => PreopensAligned
  BY DEF IInv, DataOK, PreopensAligned
<1> QED BY <1>1, Invariance, PTL

\* Data::finish never bails.
THEOREM FinishNeverBails == Spec => FinishSucceeds
<1>1. IInv /\ [Next]_vars => [phase = "finish" => phase' = "done"]_vars
  <2> SUFFICES ASSUME IInv, Next, phase = "finish"
               PROVE  phase' = "done"
    OBVIOUS
  <2>1. Finish
    BY DEF Next, EnvFieldData, ConfigFieldData, FieldData, NewData, VisitDir,
           VisitRuntime, VisitFile, Visiting, WriteIndex, WritePreopens
  <2> QED BY <2>1, FinishBump DEF Finish
<1> QED BY <1>1, Invariance, PTL DEF Spec, FinishSucceeds

\* A string's pointer never changes once it is handed out.
THEOREM StringPointersStable == Spec => StringsStable
<1> DEFINE Stable == phase = "linearize" =>
             \A s \in DOMAIN data.strings :
               s \in DOMAIN data'.strings /\ data'.strings[s] = data.strings[s]
<1>1. IInv /\ [Next]_vars => [Stable]_vars
  <2> SUFFICES ASSUME IInv, Next, phase = "linearize"
               PROVE  \A s \in DOMAIN data.strings :
                        /\ s \in DOMAIN data'.strings
                        /\ data'.strings[s] = data.strings[s]
    OBVIOUS
  <2>1. CASE Visit
    BY <2>1, VisitGrows DEF IInv, Grows, Fail
  <2>2. CASE WriteIndex
    <3>1. entries * 16 \in Nat /\ DataOK(data) /\ "index" \in What
      BY DEF IInv, TypeOK, What
    <3> DEFINE len == entries * 16
    <3>2. CASE ~HasRoom(data, len, 4)
      BY <2>2, <3>2 DEF WriteIndex, WriteSlice, Fail
    <3>3. CASE HasRoom(data, len, 4)
      <4>1. data' = StackAlloc(data, "index", len, 4)
        BY <2>2, <3>3 DEF WriteIndex, WriteSlice
      <4> HIDE DEF len
      <4>2. data'.strings = data.strings
        BY <3>1, <3>3, <4>1, StackAllocOK DEF len
      <4> QED BY <4>2
    <3> QED BY <3>2, <3>3
  <2> QED BY <2>1, <2>2
          DEF Next, Visit, EnvFieldData, ConfigFieldData, FieldData, NewData,
              WritePreopens, Finish
<1> QED BY <1>1, Invariance, PTL DEF Spec, StringsStable

-----------------------------------------------------------------------------
(***************************************************************************)
(* The image of the patched adapter.                                       *)
(***************************************************************************)
\* The visits and writes of create_io_virt, which leave the image alone.
VisitEntry ==
  \/ \E name \in Strings : VisitDirEntry(name)
  \/ \E name, path \in Strings : VisitRuntimeEntry(name, path)
  \/ \E name \in Strings, len \in FileLens : VisitFileEntry(name, len)

(***************************************************************************)
(* Refinement: every step is one of DataSection.                           *)
(***************************************************************************)
LEMMA StepRefines == [ImageNext]_avars => [Next]_vars
  BY DEF ImageNext, ImageStep, CreateEnvVirt, CreateConfigVirt, NewIo,
         VisitDirEntry, VisitRuntimeEntry, VisitFileEntry, WriteStaticIndex,
         PatchIo, FinishData, Next, avars, vars

\* The patched adapter is laid out as DataSection says: its theorems hold here.
THEOREM ImplementsDataSection == ImageSpec => Spec
  BY StepRefines, PTL DEF ImageSpec, ImageInit, Spec

-----------------------------------------------------------------------------
(***************************************************************************)
(* No panic.  Until io is patched the image is the adapter's own segments  *)
(* as they were linked, and behind them what was added at the stack, below *)
(* all of these.                                                           *)
(***************************************************************************)
IsSeq(s) == \E S : s \in Seq(S)

Segment(s) ==
  /\ s = [what |-> s.what, lo |-> s.lo, len |-> s.len, word |-> s.word]
  /\ s.lo \in Nat /\ s.len \in Nat

OwnFirst(img) ==
  /\ Len(OwnSegments) <= Len(img)
  /\ \A i \in 1..Len(img) : Segment(img[i]) /\ Loads(img[i])
  /\ \A i \in 1..Len(OwnSegments) : img[i].lo = OwnSegments[i].lo
  /\ \A i \in 1..Len(img) : i > Len(OwnSegments) => img[i].lo < StackTop

OwnWhole(img) ==
  \A i \in 1..Len(OwnSegments) : img[i].len = OwnSegments[i].len

Patching == {"env", "config", "io", "linearize", "preopens"}

ImageInv ==
  /\ IsSeq(image)
  /\ phase \in Patching => OwnFirst(image) /\ OwnWhole(image)
  /\ ~panicked

LEMMA SeqShape ==
  ASSUME NEW s, IsSeq(s)
  PROVE  Len(s) \in Nat /\ DOMAIN s = 1..Len(s)
<1>1. PICK S : s \in Seq(S)
  BY DEF IsSeq
<1> QED BY <1>1

LEMMA OwnShape ==
  Len(OwnSegments) \in Nat /\ DOMAIN OwnSegments = 1..Len(OwnSegments)
<1> DEFINE S == {OwnSegments[i] : i \in DOMAIN OwnSegments}
<1>1. OwnSegments \in Seq(S)
  BY LayoutAssumption
<1> HIDE DEF S
<1> QED BY <1>1

LEMMA SeqUpdated ==
  ASSUME NEW s, IsSeq(s), NEW i, NEW v
  PROVE  /\ IsSeq([s EXCEPT ![i] = v])
         /\ Len([s EXCEPT ![i] = v]) = Len(s)
         /\ \A j \in 1..Len(s) : j # i => [s EXCEPT ![i] = v][j] = s[j]
         /\ i \in 1..Len(s) => [s EXCEPT ![i] = v][i] = v
<1>1. PICK S : s \in Seq(S)
  BY DEF IsSeq
<1> DEFINE u == [s EXCEPT ![i] = v]
<1>2. s \in [1..Len(s) -> S] /\ Len(s) \in Nat
  BY <1>1
<1>3. u \in [1..Len(s) -> S \cup {v}]
  BY <1>2
<1>4. u \in Seq(S \cup {v}) /\ Len(u) = Len(s)
  <2> HIDE DEF u
  <2> QED BY <1>2, <1>3
<1>5. IsSeq(u)
  BY <1>4 DEF IsSeq
<1> QED BY <1>2, <1>4, <1>5

LEMMA SeqAppended ==
  ASSUME NEW s, IsSeq(s), NEW v
  PROVE  /\ IsSeq(Append(s, v))
         /\ Len(s) \in Nat /\ Len(Append(s, v)) = Len(s) + 1
         /\ \A j \in 1..Len(s) : Append(s, v)[j] = s[j]
         /\ Append(s, v)[Len(s) + 1] = v
<1>1. PICK S : s \in Seq(S)
  BY DEF IsSeq
<1> DEFINE T == S \cup {v}
<1>2. s \in Seq(T) /\ v \in T
  BY <1>1
<1> HIDE DEF T
<1>3. Append(s, v) \in Seq(T)
  BY <1>2
<1> QED BY <1>2, <1>3 DEF IsSeq

\* Below an address the segment with the highest start is one of the adapter's,
\* wherever the stack's segments are.
LEMMA SegmentForOwn ==
  ASSUME NEW img, IsSeq(img), OwnFirst(img), NEW addr \in Nat,
         NEW k \in 1..Len(OwnSegments), OwnSegments[k].lo <= addr,
         \A j \in 1..Len(OwnSegments) :
           OwnSegments[j].lo <= addr => j = k \/ OwnSegments[j].lo < OwnSegments[k].lo
  PROVE  SegmentFor(img, addr) = k
<1> DEFINE Is(i) == /\ img[i].lo <= addr
                    /\ \A j \in DOMAIN img : img[j].lo <= addr =>
                         \/ img[j].lo < img[i].lo
                         \/ img[j].lo = img[i].lo /\ i <= j
<1>1. /\ DOMAIN img = 1..Len(img) /\ Len(img) \in Nat
      /\ Len(OwnSegments) \in Nat /\ DOMAIN OwnSegments = 1..Len(OwnSegments)
  BY LayoutAssumption, OwnShape, SeqShape
<1>2. k \in DOMAIN img
  BY <1>1 DEF OwnFirst
<1>3. \A i \in DOMAIN img : img[i].lo \in Nat
  BY <1>1 DEF OwnFirst, Segment
<1>4. OwnSegments[k].lo >= StackTop /\ img[k].lo = OwnSegments[k].lo
  BY <1>1, LayoutAssumption DEF OwnFirst
<1>5. \A j \in DOMAIN img : img[j].lo <= addr /\ j # k => img[j].lo < img[k].lo
  <2> SUFFICES ASSUME NEW j \in DOMAIN img, img[j].lo <= addr, j # k
               PROVE  img[j].lo < img[k].lo
    OBVIOUS
  <2>1. CASE j \in 1..Len(OwnSegments)
    BY <1>4, <2>1 DEF OwnFirst
  <2>2. CASE j > Len(OwnSegments)
    <3>1. img[j].lo < StackTop
      BY <1>1, <2>2 DEF OwnFirst
    <3>2. img[j].lo \in Nat /\ img[k].lo \in Nat /\ img[k].lo >= StackTop /\ StackTop \in Nat
      BY <1>2, <1>3, <1>4, StackTopAssumption
    <3> QED BY <3>1, <3>2
  <2> QED BY <1>1, <2>1, <2>2
<1>6. Is(k)
  BY <1>2, <1>3, <1>4, <1>5
<1>7. \A i \in DOMAIN img : Is(i) => i = k
  BY <1>2, <1>3, <1>4, <1>5
<1> QED BY <1>2, <1>6, <1>7 DEF SegmentFor

\* The segment found for env or config is the one that holds it.
Home(at) ==
  CHOOSE k \in 1..Len(OwnSegments) :
    OwnSegments[k].lo <= at /\ at + 16 <= OwnSegments[k].lo + OwnSegments[k].len

LEMMA HomeHolds ==
  ASSUME NEW at \in {EnvAt, ConfigAt}
  PROVE  /\ at \in Nat /\ Home(at) \in 1..Len(OwnSegments)
         /\ OwnSegments[Home(at)].lo <= at
         /\ at + 16 <= OwnSegments[Home(at)].lo + OwnSegments[Home(at)].len
<1>1. DOMAIN OwnSegments = 1..Len(OwnSegments)
  BY OwnShape
<1>2. at \in Nat /\ \E k \in 1..Len(OwnSegments) :
        OwnSegments[k].lo <= at /\ at + 16 <= OwnSegments[k].lo + OwnSegments[k].len
  BY <1>1, LayoutAssumption
<1> QED BY <1>2 DEF Home

LEMMA SegmentForOptions ==
  ASSUME NEW img, IsSeq(img), OwnFirst(img), OwnWhole(img),
         NEW at \in {EnvAt, ConfigAt}
  PROVE  /\ SegmentFor(img, at) \in 1..Len(img)
         /\ SegmentFor(img, at) = Home(at)
         /\ at \in Nat
         /\ LET s == img[SegmentFor(img, at)]
            IN  s.lo <= at /\ at + 16 <= s.lo + s.len
<1>1. /\ DOMAIN OwnSegments = 1..Len(OwnSegments)
      /\ Len(OwnSegments) \in Nat
      /\ Len(img) \in Nat
  BY LayoutAssumption, OwnShape, SeqShape
<1>2. at \in Nat
  BY LayoutAssumption
<1> DEFINE k == Home(at)
<1>3. /\ k \in 1..Len(OwnSegments)
      /\ OwnSegments[k].lo <= at
      /\ at + 16 <= OwnSegments[k].lo + OwnSegments[k].len
  BY HomeHolds
<1> HIDE DEF k
<1>4. \A j \in 1..Len(OwnSegments) :
        OwnSegments[j].lo <= at => j = k \/ OwnSegments[j].lo < OwnSegments[k].lo
  <2> SUFFICES ASSUME NEW j \in 1..Len(OwnSegments), OwnSegments[j].lo <= at, j # k
               PROVE  OwnSegments[j].lo < OwnSegments[k].lo
    OBVIOUS
  <2>1. /\ OwnSegments[j].lo \in Nat /\ OwnSegments[j].len \in Nat \ {0}
        /\ OwnSegments[k].lo \in Nat /\ OwnSegments[k].len \in Nat \ {0}
    BY <1>1, <1>3, LayoutAssumption
  <2>2. CASE j < k
    <3>1. OwnSegments[j].lo + OwnSegments[j].len <= OwnSegments[k].lo
      BY <1>1, <1>3, <2>2, LayoutAssumption
    <3> QED BY <2>1, <3>1
  <2>3. CASE k < j
    <3>1. OwnSegments[k].lo + OwnSegments[k].len <= OwnSegments[j].lo
      BY <1>1, <1>3, <2>3, LayoutAssumption
    <3> QED BY <1>2, <1>3, <2>1, <3>1
  <2> QED BY <1>1, <1>3, <2>2, <2>3
<1>5. SegmentFor(img, at) = k
  BY <1>2, <1>3, <1>4, SegmentForOwn
<1>6. k \in 1..Len(img) /\ img[k].lo = OwnSegments[k].lo /\ img[k].len = OwnSegments[k].len
  BY <1>1, <1>3 DEF OwnFirst, OwnWhole
<1> QED BY <1>2, <1>3, <1>5, <1>6 DEF k

\* The segment found for io is the adapter's last, which ends before it.
LEMMA LastOwn ==
  LET last == OwnSegments[Len(OwnSegments)]
  IN  /\ Len(OwnSegments) \in 1..Len(OwnSegments) /\ IoAt \in Nat
      /\ last.lo \in Nat /\ last.len \in Nat
      /\ (last.lo % 4) = 0 /\ (IoAt % 4) = 0 /\ last.lo + last.len <= IoAt
<1>1. Len(OwnSegments) \in 1..Len(OwnSegments)
  BY OwnShape, LayoutAssumption
<1> QED BY <1>1, OwnShape, LayoutAssumption

LEMMA SegmentForIo ==
  ASSUME NEW img, IsSeq(img), OwnFirst(img)
  PROVE  SegmentFor(img, IoAt) = Len(OwnSegments)
<1> DEFINE k == Len(OwnSegments)
<1>1. \A j \in 1..k : j = k \/ OwnSegments[j].lo < OwnSegments[k].lo
  <2> SUFFICES ASSUME NEW j \in 1..k, j # k
               PROVE  OwnSegments[j].lo < OwnSegments[k].lo
    OBVIOUS
  <2>1. j < k /\ DOMAIN OwnSegments = 1..k /\ k \in 1..k
    <3>1. k \in Nat /\ DOMAIN OwnSegments = 1..k
      BY OwnShape
    <3> HIDE DEF k
    <3> QED BY <3>1
  <2>2. /\ OwnSegments[j].lo + OwnSegments[j].len <= OwnSegments[k].lo
        /\ OwnSegments[j].lo \in Nat /\ OwnSegments[j].len \in Nat \ {0}
        /\ OwnSegments[k].lo \in Nat
    BY <2>1, LayoutAssumption
  <2> QED BY <2>2
<1>2. OwnSegments[k].lo <= IoAt
  BY LastOwn
<1> QED BY <1>1, <1>2, LastOwn, SegmentForOwn

\* Patching a segment keeps where all segments are.
LEMMA PatchedKeeps ==
  ASSUME NEW img, IsSeq(img), OwnFirst(img), OwnWhole(img), NEW i, NEW fields
  PROVE  /\ IsSeq(Patched(img, i, fields))
         /\ OwnFirst(Patched(img, i, fields)) /\ OwnWhole(Patched(img, i, fields))
<1> DEFINE word == [a \in DOMAIN img[i].word \cup DOMAIN fields |->
                      IF a \in DOMAIN fields THEN fields[a] ELSE img[i].word[a]]
           v == [img[i] EXCEPT !.word = word]
<1>1. Patched(img, i, fields) = [img EXCEPT ![i] = v]
  BY DEF Patched
<1> HIDE DEF word
<1>2. ASSUME i \in 1..Len(img)
      PROVE  Segment(v) /\ Loads(v) /\ v.lo = img[i].lo /\ v.len = img[i].len
  <2>1. Segment(img[i]) /\ Loads(img[i])
    BY <1>2 DEF OwnFirst
  <2> DEFINE r == img[i]
  <2>2. r = [what |-> r.what, lo |-> r.lo, len |-> r.len, word |-> r.word]
    BY <2>1 DEF Segment
  <2> HIDE DEF r
  <2>3. [r EXCEPT !.word = word]
          = [what |-> r.what, lo |-> r.lo, len |-> r.len, word |-> word]
    BY <2>2
  <2> QED BY <2>1, <2>3 DEF r, Segment, Loads
<1> HIDE DEF v
<1>3. Len(img) \in Nat /\ Len(OwnSegments) \in Nat
  BY SeqShape, OwnShape
<1>4. /\ IsSeq([img EXCEPT ![i] = v])
      /\ Len([img EXCEPT ![i] = v]) = Len(img)
      /\ \A j \in 1..Len(img) : j # i => [img EXCEPT ![i] = v][j] = img[j]
      /\ i \in 1..Len(img) => [img EXCEPT ![i] = v][i] = v
  BY SeqUpdated
<1> QED BY <1>1, <1>2, <1>3, <1>4 DEF OwnFirst, OwnWhole

\* A block below the stack's top joins the image behind the adapter's segments.
LEMMA AppendKeeps ==
  ASSUME NEW img, IsSeq(img), OwnFirst(img), OwnWhole(img),
         NEW s, Segment(s), Loads(s), s.lo < StackTop
  PROVE  IsSeq(Append(img, s)) /\ OwnFirst(Append(img, s)) /\ OwnWhole(Append(img, s))
<1>1. Len(img) \in Nat /\ Len(OwnSegments) \in Nat
  BY SeqShape, OwnShape
<1>2. /\ IsSeq(Append(img, s)) /\ Len(Append(img, s)) = Len(img) + 1
      /\ \A j \in 1..Len(img) : Append(img, s)[j] = img[j]
      /\ Append(img, s)[Len(img) + 1] = s
  BY SeqAppended
<1> QED BY <1>1, <1>2 DEF OwnFirst, OwnWhole

\* The fields of an option lie in the 16 bytes of its struct.
LEMMA OptionFieldsFit ==
  ASSUME NEW at \in Nat, NEW o \in Option, NEW ptr, NEW s,
         at + 16 <= s.lo + s.len, s.lo \in Nat, s.len \in Nat
  PROVE  Fits(s, at, OptionFields(at, o, ptr))
<1>1. DOMAIN OptionFields(at, o, ptr) \subseteq {at, at + 1, at + 4, at + 8, at + 12}
  BY DEF OptionFields, Option, HostFallback, HostFallbackAllow, FieldCnt,
         AllowOrDenyCnt, FieldDataPtr
<1> QED BY <1>1 DEF Fits, Width

LEMMA PatchOptionsStep ==
  ASSUME IInv, IInv', IsSeq(image), OwnFirst(image), OwnWhole(image), ~panicked,
         NEW what \in {"env", "config"}, NEW at \in {EnvAt, ConfigAt},
         NEW o \in Option, PatchOptions(what, at, o)
  PROVE  IsSeq(image') /\ OwnFirst(image') /\ OwnWhole(image') /\ ~panicked'
<1>1. ASSUME NEW img, IsSeq(img), OwnFirst(img), OwnWhole(img), NEW ptr,
             Patch(img, at, OptionFields(at, o, ptr))
      PROVE  IsSeq(image') /\ OwnFirst(image') /\ OwnWhole(image') /\ ~panicked'
  <2> DEFINE i == SegmentFor(img, at)
  <2>1. /\ i \in 1..Len(img) /\ at \in Nat
        /\ img[i].lo <= at /\ at + 16 <= img[i].lo + img[i].len
    BY <1>1, SegmentForOptions
  <2>2. img[i].lo \in Nat /\ img[i].len \in Nat
    BY <1>1, <2>1 DEF OwnFirst, Segment
  <2>3. Fits(img[i], at, OptionFields(at, o, ptr))
    <3> HIDE DEF i
    <3> QED BY <2>1, <2>2, OptionFieldsFit
  <2>4. image' = Patched(img, i, OptionFields(at, o, ptr)) /\ panicked' = panicked
    BY <1>1, <2>3 DEF Patch
  <2> HIDE DEF i
  <2> QED BY <1>1, <2>4, PatchedKeeps
<1> DEFINE len == stack_pointer - stack_pointer'
           block == [what |-> what, lo |-> stack_pointer', len |-> len, word |-> <<>>]
<1>2. CASE len = 0
  BY <1>1, <1>2 DEF PatchOptions
<1>3. CASE len # 0
  <2>1. /\ stack_pointer \in Nat /\ stack_pointer' \in Nat /\ StackTop \in Nat
        /\ stack_pointer <= StackTop
    BY StackTopAssumption DEF IInv, TypeOK
  <2>2. Strs(o) \in Nat
    BY DEF Strs, Option
  <2>3. len >= 4 * Strs(o)
    BY DEF PatchOptions
  <2>4. len \in Nat /\ stack_pointer' < StackTop
    <3>1. ASSUME NEW a \in Nat, NEW b \in Nat, NEW top \in Nat, NEW n \in Nat,
                 a <= top, a - b # 0, a - b >= 4 * n
          PROVE  a - b \in Nat /\ b < top
      BY <3>1
    <3>2. stack_pointer - stack_pointer' # 0 /\ stack_pointer - stack_pointer' >= 4 * Strs(o)
      BY <1>3, <2>3
    <3> QED BY <2>1, <2>2, <3>1, <3>2
  <2>5. Segment(block) /\ Loads(block) /\ block.lo < StackTop
    BY <2>1, <2>4 DEF Segment, Loads
  <2>6. Patch(Append(image, block), at, OptionFields(at, o, block.lo))
    BY <1>3 DEF PatchOptions
  <2> HIDE DEF block
  <2>7. IsSeq(Append(image, block)) /\ OwnFirst(Append(image, block))
          /\ OwnWhole(Append(image, block))
    BY <2>5, AppendKeeps
  <2> QED BY <1>1, <2>6, <2>7
<1> QED BY <1>2, <1>3

LEMMA OptionsStep ==
  ASSUME IInv, IInv', ImageInv, CreateEnvVirt \/ CreateConfigVirt
  PROVE  ImageInv'
<1>1. CASE phase' = "failed"
  BY <1>1 DEF CreateEnvVirt, CreateConfigVirt, ivars, ImageInv, Patching
<1>2. CASE phase' # "failed"
  <2>1. IsSeq(image) /\ OwnFirst(image) /\ OwnWhole(image) /\ ~panicked
    BY DEF ImageInv, CreateEnvVirt, CreateConfigVirt, EnvFieldData, ConfigFieldData,
           FieldData, Patching
  <2>2. CASE CreateEnvVirt
    <3>1. PICK o \in EnvOptions : PatchOptions("env", EnvAt, o)
      BY <1>2, <2>2 DEF CreateEnvVirt
    <3>2. o \in Option
      BY OptionsAssumption
    <3> QED BY <2>1, <3>1, <3>2, PatchOptionsStep DEF ImageInv
  <2>3. CASE CreateConfigVirt
    <3>1. PICK o \in ConfigOptions : PatchOptions("config", ConfigAt, o)
      BY <1>2, <2>3 DEF CreateConfigVirt
    <3>2. o \in Option
      BY OptionsAssumption
    <3> QED BY <2>1, <3>1, <3>2, PatchOptionsStep DEF ImageInv
  <2> QED BY <2>2, <2>3
<1> QED BY <1>1, <1>2

\* 16 bytes are ensured and 4 to 8 more are there: the struct is aligned, and
\* the segment that is made longer for it ends before it.
LEMMA ResizedFits ==
  ASSUME NEW lo \in Nat, NEW len \in Nat, NEW at \in Nat,
         (lo % 4) = 0, (at % 4) = 0, lo + len <= at
  PROVE  /\ Resized(len, at - lo) \in Nat
         /\ at + 20 <= lo + Resized(len, at - lo)
<1> DEFINE end == at - lo + 16
<1>1. end \in Nat /\ len < end /\ (end % 4) = 0
  OBVIOUS
<1>2. Resized(len, at - lo) = end + (4 - (end % 4))
  BY <1>1 DEF Resized, FS_STATIC_LEN
<1> QED BY <1>1, <1>2

\* What a patch leaves.
LEMMA PatchedSegments ==
  ASSUME NEW img, IsSeq(img), NEW i \in 1..Len(img), Segment(img[i]), NEW fields
  PROVE  LET out == Patched(img, i, fields)
         IN  /\ IsSeq(out) /\ Len(out) = Len(img)
             /\ \A j \in 1..Len(img) :
                  /\ j # i => out[j] = img[j]
                  /\ Segment(img[j]) => Segment(out[j])
                  /\ out[j].what = img[j].what
                  /\ out[j].lo = img[j].lo /\ out[j].len = img[j].len
             /\ \A a : Field(out[i], a) = IF a \in DOMAIN fields THEN fields[a]
                                          ELSE Field(img[i], a)
<1> DEFINE word == [a \in DOMAIN img[i].word \cup DOMAIN fields |->
                      IF a \in DOMAIN fields THEN fields[a] ELSE img[i].word[a]]
           v == [img[i] EXCEPT !.word = word]
           out == Patched(img, i, fields)
<1>1. out = [img EXCEPT ![i] = v]
  BY DEF Patched
<1> HIDE DEF out
<1>2. \A a : (IF a \in DOMAIN word THEN word[a] ELSE 0)
               = IF a \in DOMAIN fields THEN fields[a] ELSE Field(img[i], a)
  BY DEF Field
<1> HIDE DEF word
<1>3. v = [what |-> img[i].what, lo |-> img[i].lo, len |-> img[i].len, word |-> word]
  <2> DEFINE r == img[i]
  <2>1. r = [what |-> r.what, lo |-> r.lo, len |-> r.len, word |-> r.word]
    BY DEF Segment
  <2> HIDE DEF r
  <2>2. [r EXCEPT !.word = word]
          = [what |-> r.what, lo |-> r.lo, len |-> r.len, word |-> word]
    BY <2>1
  <2> QED BY <2>2 DEF r
<1> HIDE DEF v
<1>4. /\ v.what = img[i].what /\ v.lo = img[i].lo /\ v.len = img[i].len
      /\ v.word = word /\ (Segment(img[i]) => Segment(v))
  BY <1>3 DEF Segment
<1>5. \A a : Field(v, a) = IF a \in DOMAIN fields THEN fields[a] ELSE Field(img[i], a)
  BY <1>2, <1>4 DEF Field
<1>6. /\ IsSeq(out) /\ Len(out) = Len(img) /\ out[i] = v
      /\ \A j \in 1..Len(img) : j # i => out[j] = img[j]
  <2>1. /\ IsSeq([img EXCEPT ![i] = v])
        /\ Len([img EXCEPT ![i] = v]) = Len(img)
        /\ \A j \in 1..Len(img) : j # i => [img EXCEPT ![i] = v][j] = img[j]
        /\ [img EXCEPT ![i] = v][i] = v
    BY SeqUpdated
  <2> QED BY <1>1, <2>1
<1>7. \A j \in 1..Len(img) :
        /\ j # i => out[j] = img[j]
        /\ Segment(img[j]) => Segment(out[j])
        /\ out[j].what = img[j].what
        /\ out[j].lo = img[j].lo /\ out[j].len = img[j].len
  BY <1>4, <1>6
<1> QED BY <1>5, <1>6, <1>7 DEF out

AllSegments(img) == \A j \in 1..Len(img) : Segment(img[j])

\* The segment of io, made longer, has its fields; the others are as they were.
LEMMA IoPatched ==
  ASSUME ImageInv, PatchIo, phase' # "failed"
  PROVE  LET k == Len(OwnSegments)
         IN  /\ k \in 1..Len(image)
             /\ IsSeq(image') /\ Len(image') = Len(image) /\ AllSegments(image')
             /\ \A j \in 1..Len(image) : j # k => image'[j] = image[j]
             /\ image'[k].what = image[k].what /\ image'[k].lo = image[k].lo
             /\ image'[k].lo <= IoAt /\ IoAt + 20 <= image'[k].lo + image'[k].len
             /\ image'[k].len >= image[k].len
             /\ \A a : Field(image'[k], a) = IF a \in DOMAIN IoFields THEN IoFields[a]
                                             ELSE Field(image[k], a)
             /\ panicked' = panicked
<1>1. phase = "preopens" /\ phase' \notin Patching
  BY DEF PatchIo, WritePreopens, WriteSlice, Fail, Patching
<1> DEFINE i == SegmentFor(image, IoAt)
           offset == IoAt - image[i].lo
           longer == [image[i] EXCEPT !.len = Resized(image[i].len, offset)]
           img == [image EXCEPT ![i] = longer]
<1>2. IsSeq(image) /\ OwnFirst(image) /\ OwnWhole(image) /\ ~panicked
  BY <1>1 DEF ImageInv, Patching
<1>3. Patch(img, IoAt, IoFields)
  BY DEF PatchIo
<1>4. i = Len(OwnSegments)
  BY <1>2, SegmentForIo
<1>5. /\ i \in 1..Len(image) /\ Segment(image[i]) /\ Loads(image[i])
      /\ image[i].lo = OwnSegments[i].lo /\ image[i].len = OwnSegments[i].len
  BY <1>2, <1>4, LastOwn, OwnShape, SeqShape DEF OwnFirst, OwnWhole
<1>6. /\ Resized(image[i].len, offset) \in Nat
      /\ IoAt + 20 <= image[i].lo + Resized(image[i].len, offset)
      /\ image[i].lo + image[i].len <= IoAt
      /\ image[i].lo \in Nat /\ image[i].len \in Nat /\ IoAt \in Nat
  BY <1>4, <1>5, LastOwn, ResizedFits
<1>7. Resized(image[i].len, offset) >= image[i].len /\ image[i].lo <= IoAt
  <2>1. ASSUME NEW lo \in Nat, NEW len \in Nat, NEW n \in Nat, NEW at \in Nat,
               at + 20 <= lo + n, lo + len <= at
        PROVE  n >= len /\ lo <= at
    BY <2>1
  <2> HIDE DEF i, offset
  <2> QED BY <1>6, <2>1
<1> HIDE DEF i, offset
<1>8. longer = [what |-> image[i].what, lo |-> image[i].lo,
                len |-> Resized(image[i].len, offset), word |-> image[i].word]
  <2> DEFINE r == image[i]
  <2>1. r = [what |-> r.what, lo |-> r.lo, len |-> r.len, word |-> r.word]
    BY <1>5 DEF Segment
  <2> HIDE DEF r
  <2>2. [r EXCEPT !.len = Resized(r.len, offset)]
          = [what |-> r.what, lo |-> r.lo, len |-> Resized(r.len, offset),
             word |-> r.word]
    BY <2>1
  <2> QED BY <2>2 DEF r
<1>9. /\ Segment(longer) /\ Loads(longer)
      /\ longer.what = image[i].what /\ longer.lo = image[i].lo
      /\ longer.lo <= IoAt /\ IoAt + 20 <= longer.lo + longer.len
      /\ longer.len >= image[i].len /\ longer.word = image[i].word
  BY <1>5, <1>6, <1>7, <1>8 DEF Segment, Loads
<1> HIDE DEF longer
<1>10. /\ IsSeq(img) /\ Len(img) = Len(image)
       /\ \A j \in 1..Len(image) : j # i => img[j] = image[j]
       /\ img[i] = longer
  BY <1>2, <1>5, SeqUpdated
<1> HIDE DEF img
<1>11. OwnFirst(img)
  BY <1>2, <1>5, <1>9, <1>10 DEF OwnFirst
<1>12. SegmentFor(img, IoAt) = i
  BY <1>4, <1>10, <1>11, SegmentForIo
<1>13. Fits(img[i], IoAt, IoFields)
  <2>1. DOMAIN IoFields = {IoAt, IoAt + 4, IoAt + 8, IoAt + 12, IoAt + 16}
    BY DEF IoFields, PreopenCnt, PreopensPtr, StaticIndexCnt, StaticIndexPtr, Flags
  <2>2. longer.lo \in Nat /\ longer.len \in Nat
    BY <1>9 DEF Segment
  <2>3. ASSUME NEW end \in Nat, IoAt + 20 <= end, NEW a \in DOMAIN IoFields
        PROVE  a + Width(IoAt, a) <= end
    <3>1. a \in {IoAt, IoAt + 4, IoAt + 8, IoAt + 12, IoAt + 16} /\ IoAt \in Nat
      BY <1>6, <2>1, <2>3
    <3>2. Width(IoAt, a) \in {1, 4}
      BY DEF Width
    <3> HIDE DEF offset
    <3> QED BY ONLY <3>1, <3>2, <2>3
  <2>4. img[i].lo + img[i].len \in Nat /\ IoAt + 20 <= img[i].lo + img[i].len
    BY <1>9, <1>10, <2>2
  <2> QED BY <2>3, <2>4 DEF Fits
<1>14. image' = Patched(img, i, IoFields) /\ panicked' = panicked
  BY <1>3, <1>12, <1>13 DEF Patch
<1>15. i \in 1..Len(img) /\ Segment(img[i])
  BY <1>5, <1>9, <1>10
<1>16. /\ IsSeq(image') /\ Len(image') = Len(img)
       /\ \A j \in 1..Len(img) :
            /\ j # i => image'[j] = img[j]
            /\ Segment(img[j]) => Segment(image'[j])
            /\ image'[j].what = img[j].what
            /\ image'[j].lo = img[j].lo /\ image'[j].len = img[j].len
       /\ \A a : Field(image'[i], a) = IF a \in DOMAIN IoFields THEN IoFields[a]
                                       ELSE Field(img[i], a)
  <2> DEFINE fields == IoFields
  <2>1. image' = Patched(img, i, fields)
    BY <1>14
  <2> HIDE DEF fields
  <2>2. /\ IsSeq(image') /\ Len(image') = Len(img)
        /\ \A j \in 1..Len(img) :
             /\ j # i => image'[j] = img[j]
             /\ Segment(img[j]) => Segment(image'[j])
             /\ image'[j].what = img[j].what
             /\ image'[j].lo = img[j].lo /\ image'[j].len = img[j].len
        /\ \A a : Field(image'[i], a) = IF a \in DOMAIN fields THEN fields[a]
                                        ELSE Field(img[i], a)
    BY <1>10, <1>15, <2>1, PatchedSegments
  <2> QED BY <2>2 DEF fields
<1>17. AllSegments(image')
  BY <1>10, <1>11, <1>16 DEF AllSegments, OwnFirst
<1>18. \A a : Field(img[i], a) = Field(image[i], a)
  BY <1>9, <1>10 DEF Field
<1>19. /\ \A j \in 1..Len(image) : j # i => image'[j] = image[j]
       /\ image'[i].what = longer.what /\ image'[i].lo = longer.lo
       /\ image'[i].len = longer.len
  BY <1>10, <1>15, <1>16
<1> QED BY <1>4, <1>5, <1>9, <1>10, <1>14, <1>16, <1>17, <1>18, <1>19

LEMMA PatchIoStep ==
  ASSUME ImageInv, PatchIo
  PROVE  ImageInv'
<1>1. phase' \notin Patching
  BY DEF PatchIo, WritePreopens, WriteSlice, Fail, Patching
<1>2. CASE phase' = "failed"
  BY <1>1, <1>2 DEF PatchIo, ImageInv
<1>3. CASE phase' # "failed"
  BY <1>1, <1>3, IoPatched DEF ImageInv
<1> QED BY <1>2, <1>3

-----------------------------------------------------------------------------
(***************************************************************************)
(* Passive files.  The bytes of the k-th are those of the entries that     *)
(* refer to index k - 1, from the visit on; finish gives them segments and *)
(* slots in the same order.                                                *)
(***************************************************************************)
PassiveInv ==
  /\ IsSeq(passive_segments) /\ Len(passive_segments) = data.passive
  /\ phase \in {"env", "config", "io"} =>
       passive_segments = <<>> /\ passive_refs = {}
  /\ \A f \in passive_refs :
       /\ f.idx \in Nat /\ f.idx < Len(passive_segments) /\ f.len \in Nat
       /\ passive_segments[f.idx + 1] = [entry |-> f.entry, len |-> f.len]
  /\ phase = "done" =>
       /\ Len(table) = Len(passive_segments)
       /\ \A k \in 1..Len(passive_segments) :
            LET s == image[table[k]]
            IN  /\ s.what = "passive" /\ s.len = passive_segments[k].len
                /\ s.word[0] = passive_segments[k].entry

Record(d) ==
  d = [stack_start |-> d.stack_start, stack_ptr |-> d.stack_ptr,
       strings |-> d.strings, passive |-> d.passive, placed |-> d.placed]

\* Allocating and interning are not about passive segments.
LEMMA AllocPassive ==
  ASSUME NEW d, Record(d), NEW what, NEW len, NEW align
  PROVE  /\ Record(StackAlloc(d, what, len, align))
         /\ StackAlloc(d, what, len, align).passive = d.passive
<1> DEFINE lo == NewPtr(d.stack_ptr, len, align)
           p == d.placed \cup {[what |-> what, lo |-> lo, hi |-> lo + len]}
<1>1. StackAlloc(d, what, len, align) = [d EXCEPT !.stack_ptr = lo, !.placed = p]
  BY DEF StackAlloc
<1> HIDE DEF p, lo
<1> DEFINE m == [d EXCEPT !.stack_ptr = lo]
<1>2. m = [stack_start |-> d.stack_start, stack_ptr |-> lo, strings |-> d.strings,
           passive |-> d.passive, placed |-> d.placed]
  BY DEF Record
<1>3. StackAlloc(d, what, len, align) = [m EXCEPT !.placed = p]
  BY <1>1
<1> HIDE DEF m
<1>4. [m EXCEPT !.placed = p]
        = [stack_start |-> d.stack_start, stack_ptr |-> lo, strings |-> d.strings,
           passive |-> d.passive, placed |-> p]
  BY <1>2
<1> QED BY <1>3, <1>4 DEF Record

LEMMA WithStringPassive ==
  ASSUME NEW d, Record(d), NEW s
  PROVE  Record(WithString(d, s)) /\ WithString(d, s).passive = d.passive
<1> DEFINE e == StackAlloc(d, "string", StringLen(s), 1)
           strings == [t \in DOMAIN d.strings \cup {s} |->
                         IF t = s THEN e.stack_ptr ELSE d.strings[t]]
<1>1. Record(e) /\ e.passive = d.passive
  BY AllocPassive
<1>2. WithString(d, s) = IF Known(d, s) THEN d ELSE [e EXCEPT !.strings = strings]
  BY DEF WithString
<1> HIDE DEF e, strings
<1>3. [e EXCEPT !.strings = strings]
        = [stack_start |-> e.stack_start, stack_ptr |-> e.stack_ptr,
           strings |-> strings, passive |-> e.passive, placed |-> e.placed]
  BY <1>1 DEF Record
<1> QED BY <1>1, <1>2, <1>3 DEF Record

\* A visit makes a passive segment, or none.
LEMMA VisitPassive ==
  ASSUME Record(data), NEW name \in Strings, NEW path \in Strings, NEW len \in FileLens
  PROVE  /\ VisitDir(name) => data'.passive = data.passive
         /\ VisitRuntime(name, path) => data'.passive = data.passive
         /\ VisitFile(name, len) => data'.passive \in {data.passive, data.passive + 1}
<1> DEFINE d == WithString(data, name)
<1>1. Record(d) /\ d.passive = data.passive
  BY WithStringPassive
<1> HIDE DEF d
<1>2. WithString(d, path).passive = data.passive
  BY <1>1, WithStringPassive
<1>3. StackAlloc(d, "bytes", len, 1).passive = data.passive
  BY <1>1, AllocPassive
<1>4. [d EXCEPT !.passive = @ + 1].passive = data.passive + 1
  BY <1>1 DEF Record
<1>5. VisitDir(name) => data' = data \/ data' = d
  BY DEF VisitDir, Push, Fail, d
<1>6. VisitRuntime(name, path) => data' = data \/ data' = WithString(d, path)
  BY DEF VisitRuntime, Push, Fail, d
<1>7. VisitFile(name, len) => \/ data' = data
                             \/ data' = [d EXCEPT !.passive = @ + 1]
                             \/ data' = StackAlloc(d, "bytes", len, 1)
  BY DEF VisitFile, Push, Fail, d
<1> QED BY <1>1, <1>2, <1>3, <1>4, <1>5, <1>6, <1>7

LEMMA PassiveRestStep ==
  ASSUME Record(data), PassiveInv, data'.passive = data.passive,
         UNCHANGED <<passive_segments, passive_refs>>, phase' # "done",
         phase' \in {"env", "config", "io"} => phase \in {"env", "config", "io"}
  PROVE  PassiveInv'
  BY DEF PassiveInv

LEMMA VisitFileStep ==
  ASSUME IInv, PassiveInv, NEW name \in Strings, NEW len \in FileLens,
         VisitFileEntry(name, len)
  PROVE  PassiveInv'
<1>1. Record(data) /\ data.passive \in Nat /\ len \in Nat
  BY FileLensAssumption DEF IInv, TypeOK, DataType, Record
<1>2. phase = "linearize" /\ phase' \in {"linearize", "failed"}
  BY DEF VisitFileEntry, VisitFile, Visiting, Push, Fail
<1>3. CASE data'.passive = data.passive
  <2>1. UNCHANGED <<passive_segments, passive_refs>>
    BY <1>3 DEF VisitFileEntry
  <2> QED BY <1>1, <1>2, <1>3, <2>1, PassiveRestStep
<1>4. CASE data'.passive # data.passive
  <2> DEFINE s == [entry |-> entries, len |-> len]
             f == [entry |-> entries, idx |-> data.passive, len |-> len]
  <2>1. /\ passive_segments' = Append(passive_segments, s)
        /\ passive_refs' = passive_refs \cup {f}
    BY <1>4 DEF VisitFileEntry, PassiveIdx
  <2>2. data'.passive = data.passive + 1
    BY <1>1, <1>4, VisitPassive DEF VisitFileEntry
  <2>3. IsSeq(passive_segments) /\ Len(passive_segments) = data.passive
    BY DEF PassiveInv
  <2> HIDE DEF s
  <2>4. /\ IsSeq(passive_segments') /\ Len(passive_segments') = data.passive + 1
        /\ \A j \in 1..data.passive : passive_segments'[j] = passive_segments[j]
        /\ passive_segments'[data.passive + 1] = s
    BY <2>1, <2>3, SeqAppended
  <2>5. ASSUME NEW g \in passive_refs'
        PROVE  /\ g.idx \in Nat /\ g.idx < Len(passive_segments') /\ g.len \in Nat
               /\ passive_segments'[g.idx + 1] = [entry |-> g.entry, len |-> g.len]
    <3>1. CASE g = f
      BY <1>1, <2>4, <3>1 DEF s
    <3>2. CASE g \in passive_refs
      <4>1. /\ g.idx \in Nat /\ g.idx < data.passive /\ g.len \in Nat
            /\ passive_segments[g.idx + 1] = [entry |-> g.entry, len |-> g.len]
        BY <2>3, <3>2 DEF PassiveInv
      <4> QED BY <1>1, <2>4, <4>1
    <3> QED BY <2>1, <3>1, <3>2
  <2> QED BY <1>2, <2>2, <2>4, <2>5 DEF PassiveInv
<1> QED BY <1>3, <1>4

LEMMA SeqJoined ==
  ASSUME NEW s, IsSeq(s), NEW t, IsSeq(t)
  PROVE  /\ IsSeq(s \o t) /\ Len(s) \in Nat /\ Len(t) \in Nat
         /\ \A k \in 1..Len(t) : (s \o t)[Len(s) + k] = t[k]
<1>1. PICK S : s \in Seq(S)
  BY DEF IsSeq
<1>2. PICK T : t \in Seq(T)
  BY DEF IsSeq
<1> DEFINE U == S \cup T
<1>3. s \in Seq(U) /\ t \in Seq(U)
  BY <1>1, <1>2
<1> HIDE DEF U
<1>4. s \o t \in Seq(U)
  BY <1>3
<1> QED BY <1>3, <1>4 DEF IsSeq

\* A function on 1..n is a sequence of length n.
LEMMA SeqOf ==
  ASSUME NEW n \in Nat, NEW S, NEW f \in [1..n -> S]
  PROVE  IsSeq(f) /\ Len(f) = n
<1>1. f \in Seq(S)
  OBVIOUS
<1>2. Len(f) = n
  BY <1>1
<1> QED BY <1>1, <1>2 DEF IsSeq

LEMMA FinishDataStep ==
  ASSUME IInv, ImageInv, PassiveInv, FinishData
  PROVE  ImageInv' /\ PassiveInv'
<1>1. /\ phase' \in {"done", "failed"} /\ panicked' = panicked
      /\ UNCHANGED <<passive_segments, passive_refs>>
  BY DEF FinishData, Finish, Fail
<1>2. Record(data) /\ data'.passive = data.passive
  <2>1. Record(data)
    BY DEF IInv, TypeOK, DataType, Record
  <2>2. [data EXCEPT !.stack_ptr = FinishPtr(data)].passive = data.passive
    BY <2>1 DEF Record
  <2>3. data' = data \/ data' = [data EXCEPT !.stack_ptr = FinishPtr(data)]
    BY DEF FinishData, Finish, Fail
  <2> QED BY <2>1, <2>2, <2>3
<1>3. CASE phase' = "failed"
  <2>1. ImageInv'
    BY <1>1, <1>3 DEF FinishData, ImageInv, Patching
  <2> QED BY <1>1, <1>2, <1>3, <2>1, PassiveRestStep
<1>4. CASE phase' = "done"
  <2> DEFINE n == Len(passive_segments)
             begin == Append(image, Section)
  <2>1. n \in Nat /\ DOMAIN passive_segments = 1..n
    BY SeqShape DEF PassiveInv
  <2>2. /\ image' = begin \o Passive
        /\ table' = [k \in DOMAIN Passive |-> Len(image) + 1 + k]
    BY <1>4 DEF FinishData
  <2>3. IsSeq(begin) /\ Len(begin) = Len(image) + 1 /\ Len(image) \in Nat
    <3> HIDE DEF begin
    <3>1. IsSeq(image)
      BY DEF ImageInv
    <3> QED BY <3>1, SeqAppended DEF begin
  <2>4. Passive \in [1..n -> {Passive[k] : k \in 1..n}]
    BY <2>1 DEF Passive
  <2>5. IsSeq(Passive) /\ Len(Passive) = n /\ DOMAIN Passive = 1..n
    <3> HIDE DEF n
    <3> QED BY <2>1, <2>4, SeqOf
  <2> HIDE DEF begin, n
  <2>6. table' \in [1..n -> Nat] /\ \A k \in 1..n : table'[k] = Len(begin) + k
    BY <2>1, <2>2, <2>3, <2>5
  <2>7. Len(table') = n
    BY <2>1, <2>6, SeqOf
  <2>8. IsSeq(image') /\ \A k \in 1..n : image'[Len(begin) + k] = Passive[k]
    BY <2>2, <2>3, <2>5, SeqJoined
  <2>9. ASSUME NEW k \in 1..n
        PROVE  LET s == image'[table'[k]]
               IN  /\ s.what = "passive" /\ s.len = passive_segments[k].len
                   /\ s.word[0] = passive_segments[k].entry
    <3>1. image'[table'[k]] = Passive[k]
      BY <2>6, <2>8
    <3>2. Passive[k] = [what |-> "passive", lo |-> 0, len |-> passive_segments[k].len,
                        word |-> [a \in {0} |-> passive_segments[k].entry]]
      BY <2>1 DEF Passive
    <3> QED BY <3>1, <3>2
  <2>10. ImageInv'
    BY <1>1, <1>4, <2>8 DEF ImageInv, Patching
  <2>11. PassiveInv'
    BY <1>1, <1>2, <1>4, <2>7, <2>9 DEF PassiveInv, n
  <2> QED BY <2>10, <2>11
<1> QED BY <1>1, <1>3, <1>4

-----------------------------------------------------------------------------
(***************************************************************************)
(* Every step, and the theorems.                                           *)
(***************************************************************************)
LEMMA ImageInitInv == ImageInit => ImageInv /\ PassiveInv
<1> SUFFICES ASSUME ImageInit PROVE ImageInv /\ PassiveInv
  OBVIOUS
<1>1. IsSeq(OwnSegments)
  <2> DEFINE S == {OwnSegments[i] : i \in DOMAIN OwnSegments}
  <2>1. OwnSegments \in Seq(S)
    BY LayoutAssumption
  <2> QED BY <2>1 DEF IsSeq
<1>2. OwnFirst(OwnSegments) /\ OwnWhole(OwnSegments)
  <2>1. ASSUME NEW i \in 1..Len(OwnSegments)
        PROVE  Segment(OwnSegments[i]) /\ Loads(OwnSegments[i])
    <3>1. /\ OwnSegments[i].lo \in Nat /\ OwnSegments[i].len \in Nat
          /\ OwnSegments[i] = [what |-> "own", lo |-> OwnSegments[i].lo,
                               len |-> OwnSegments[i].len,
                               word |-> OwnSegments[i].word]
      BY OwnShape, LayoutAssumption
    <3> QED BY <3>1 DEF Segment, Loads
  <2> QED BY <2>1, OwnShape DEF OwnFirst, OwnWhole
<1>3. ImageInv
  BY <1>1, <1>2 DEF ImageInit, ImageInv
<1>4. IsSeq(<<>>) /\ Len(<<>>) = 0
  <2>1. <<>> \in Seq({})
    OBVIOUS
  <2> QED BY <2>1 DEF IsSeq
<1>5. data.passive = 0 /\ phase = "env"
  BY DEF ImageInit, Init, Empty
<1>6. PassiveInv
  BY <1>4, <1>5 DEF ImageInit, PassiveInv
<1> QED BY <1>3, <1>6

LEMMA ImageStepInv ==
  IInv /\ IInv' /\ ImageInv /\ PassiveInv /\ [ImageNext]_avars => ImageInv' /\ PassiveInv'
<1> SUFFICES ASSUME IInv, IInv', ImageInv, PassiveInv, [ImageNext]_avars
             PROVE  ImageInv' /\ PassiveInv'
  OBVIOUS
<1>1. Record(data)
  BY DEF IInv, TypeOK, DataType, Record
<1>2. CASE CreateEnvVirt \/ CreateConfigVirt
  <2>1. /\ data' = data /\ UNCHANGED <<passive_segments, passive_refs>>
        /\ phase \in {"env", "config", "io"} /\ phase' # "done"
    BY <1>2 DEF CreateEnvVirt, CreateConfigVirt, EnvFieldData, ConfigFieldData,
                FieldData, Fail, ivars
  <2> QED BY <1>1, <1>2, <2>1, OptionsStep, PassiveRestStep
<1>3. CASE NewIo
  <2>1. /\ phase = "io" /\ phase' = "linearize" /\ data'.passive = 0
        /\ UNCHANGED <<image, panicked, passive_segments, passive_refs>>
    BY <1>3 DEF NewIo, NewData, Empty
  <2>2. Len(<<>>) = 0
    OBVIOUS
  <2>3. ImageInv'
    BY <2>1 DEF ImageInv, Patching
  <2>4. PassiveInv'
    BY <2>1, <2>2 DEF PassiveInv
  <2> QED BY <2>3, <2>4
<1>4. CASE VisitEntry
  <2>1. /\ phase = "linearize" /\ phase' \in {"linearize", "failed"}
        /\ UNCHANGED <<image, panicked>>
    BY <1>4 DEF VisitEntry, VisitDirEntry, VisitDir, VisitRuntimeEntry, VisitRuntime,
                VisitFileEntry, VisitFile, Visiting, Push, Fail, ivars
  <2>2. ImageInv'
    BY <2>1 DEF ImageInv, Patching
  <2>3. ASSUME NEW name \in Strings, NEW path \in Strings,
               VisitDirEntry(name) \/ VisitRuntimeEntry(name, path)
        PROVE  PassiveInv'
    <3>1. data'.passive = data.passive
      <4>1. CASE VisitDirEntry(name)
        <5>1. data' = data \/ data' = WithString(data, name)
          BY <4>1 DEF VisitDirEntry, VisitDir, Push, Fail
        <5> QED BY <1>1, <5>1, WithStringPassive
      <4>2. CASE VisitRuntimeEntry(name, path)
        <5> DEFINE d == WithString(data, name)
        <5>1. data' = data \/ data' = WithString(d, path)
          BY <4>2 DEF VisitRuntimeEntry, VisitRuntime, Push, Fail
        <5>2. Record(d) /\ d.passive = data.passive
          BY <1>1, WithStringPassive
        <5> HIDE DEF d
        <5> QED BY <5>1, <5>2, WithStringPassive
      <4> QED BY <2>3, <4>1, <4>2
    <3>2. UNCHANGED <<passive_segments, passive_refs>>
      BY <2>3 DEF VisitDirEntry, VisitRuntimeEntry, ivars
    <3> QED BY <1>1, <2>1, <3>1, <3>2, PassiveRestStep
  <2>4. PassiveInv'
    BY <1>4, <2>3, VisitFileStep DEF VisitEntry
  <2> QED BY <2>2, <2>4
<1>5. CASE WriteStaticIndex
  <2>1. /\ phase = "linearize" /\ phase' \in {"preopens", "failed"}
        /\ UNCHANGED <<image, panicked, passive_segments, passive_refs>>
    BY <1>5 DEF WriteStaticIndex, WriteIndex, WriteSlice, Fail
  <2>2. data'.passive = data.passive
    BY <1>1, <1>5, AllocPassive DEF WriteStaticIndex, WriteIndex, WriteSlice, Fail
  <2>3. ImageInv'
    BY <2>1 DEF ImageInv, Patching
  <2> QED BY <1>1, <2>1, <2>2, <2>3, PassiveRestStep
<1>6. CASE PatchIo
  <2>1. /\ phase = "preopens" /\ phase' \in {"finish", "failed"}
        /\ UNCHANGED <<passive_segments, passive_refs>>
    BY <1>6 DEF PatchIo, WritePreopens, WriteSlice, Fail
  <2>2. data'.passive = data.passive
    BY <1>1, <1>6, AllocPassive DEF PatchIo, WritePreopens, WriteSlice, Fail
  <2> QED BY <1>1, <1>6, <2>1, <2>2, PatchIoStep, PassiveRestStep
<1>7. CASE FinishData
  BY <1>7, FinishDataStep
<1>8. CASE UNCHANGED avars
  BY <1>8 DEF avars, vars, ivars, ImageInv, PassiveInv
<1> QED BY <1>2, <1>3, <1>4, <1>5, <1>6, <1>7, <1>8
        DEF ImageNext, ImageStep, VisitEntry

LEMMA ImageInvariance == ImageSpec => [](IInv /\ ImageInv /\ PassiveInv)
<1>1. ImageSpec => []IInv
  BY ImplementsDataSection, Invariance, PTL
<1> QED BY <1>1, ImageInitInv, ImageStepInv, PTL DEF ImageSpec

\* Wherever the adapter's segments lie, whatever blocks were added at the stack
\* and whatever is configured, finish writes only inside the segments it finds.
THEOREM WritesFit == ImageSpec => []NeverPanics
<1>1. ImageInv => NeverPanics
  <2> SUFFICES ASSUME ImageInv, phase \in Patching, NEW at \in {EnvAt, ConfigAt, IoAt}
               PROVE  CanFind(image, at)
    BY DEF NeverPanics, Patching, ImageInv
  <2>1. IsSeq(image) /\ OwnFirst(image) /\ OwnWhole(image)
    BY DEF ImageInv
  <2>2. DOMAIN image = 1..Len(image) /\ Len(image) \in Nat
    BY <2>1, SeqShape
  <2>3. \A i \in DOMAIN image : Loads(image[i])
    BY <2>1, <2>2 DEF OwnFirst
  <2>4. \E i \in DOMAIN image : image[i].lo <= at
    <3>1. CASE at = IoAt
      <4> DEFINE k == Len(OwnSegments)
      <4>1. k \in DOMAIN image /\ image[k].lo = OwnSegments[k].lo
        BY <2>1, <2>2, LastOwn DEF OwnFirst
      <4>2. OwnSegments[k].lo <= IoAt
        BY LastOwn
      <4> QED BY <3>1, <4>1, <4>2
    <3>2. CASE at \in {EnvAt, ConfigAt}
      <4>1. SegmentFor(image, at) \in DOMAIN image /\ image[SegmentFor(image, at)].lo <= at
        BY <2>1, <2>2, <3>2, SegmentForOptions
      <4> QED BY <4>1
    <3> QED BY <3>1, <3>2
  <2> QED BY <2>3, <2>4 DEF CanFind
<1> QED BY <1>1, ImageInvariance, PTL

\* Any passive file, however many there are, is read through the slot its entry
\* names: never another's bytes, never a trap.
THEOREM PassiveReadsExact == ImageSpec => []PassiveExact
<1>1. PassiveInv => PassiveExact
  <2> SUFFICES ASSUME PassiveInv, phase = "done", NEW f \in passive_refs,
                      NEW offset \in 0..(f.len - 1), NEW len \in 1..(f.len - offset)
               PROVE  PassiveAlloc(f.idx, offset, len) = <<"bytes", f.entry, offset, len>>
    BY DEF PassiveExact
  <2> DEFINE s == image[table[f.idx + 1]]
  <2>1. /\ f.idx \in Nat /\ f.idx < Len(passive_segments) /\ f.len \in Nat
        /\ passive_segments[f.idx + 1] = [entry |-> f.entry, len |-> f.len]
        /\ Len(table) = Len(passive_segments)
    BY DEF PassiveInv
  <2>2. Len(passive_segments) \in Nat
    BY SeqShape DEF PassiveInv
  <2>3. f.idx + 1 \in 1..Len(passive_segments)
    BY <2>1, <2>2
  <2>4. s.what = "passive" /\ s.len = f.len /\ s.word[0] = f.entry
    BY <2>1, <2>3 DEF PassiveInv
  <2>5. ~(f.idx >= Len(table)) /\ ~(offset + len > f.len)
    BY <2>1, <2>2
  <2> QED BY <2>4, <2>5 DEF PassiveAlloc
<1> QED BY <1>1, ImageInvariance, PTL

-----------------------------------------------------------------------------
(***************************************************************************)
(* What is loaded.  The adapter's own segments go up and every block is    *)
(* put below all that is there, so that no two share a byte; each patch    *)
(* reaches the struct it is for, and leaves the others.                    *)
(***************************************************************************)
Ordered(img, floor) ==
  /\ \A i \in 1..Len(img) : Loads(img[i]) => Segment(img[i]) /\ floor <= img[i].lo
  /\ \A i, j \in 1..Len(img) :
       i < j /\ Loads(img[i]) /\ Loads(img[j]) =>
         \/ j <= Len(OwnSegments) /\ img[i].lo + img[i].len <= img[j].lo
         \/ Len(OwnSegments) < j /\ img[j].lo + img[j].len <= img[i].lo

\* A segment of the image that has all of a struct.
Has(img, k, at, len) ==
  /\ k \in 1..Len(img) /\ Loads(img[k])
  /\ img[k].lo <= at /\ at + len <= img[k].lo + img[k].len

Word(img, at, a) == Field(img[Home(at)], a)

\* The struct as its source initializes it.
Initial(img, at) ==
  /\ Word(img, at, HostFallback(at)) = 1
  /\ Word(img, at, HostFallbackAllow(at)) = 0
  /\ Word(img, at, AllowOrDenyCnt(at)) = 0

\* A segment for what at lo, with size bytes or more.
BlockAt(img, what, lo, size) ==
  \E j \in 1..Len(img) :
    /\ Loads(img[j]) /\ img[j].what = what
    /\ img[j].lo = lo /\ img[j].len >= size /\ img[j].len > 0

\* The struct, and the block it points to, say what o does.
OptionsSet(img, what, at, o) ==
  /\ Word(img, at, HostFallback(at)) = (IF o.host = "none" THEN 0 ELSE 1)
  /\ Word(img, at, HostFallbackAllow(at)) = (IF o.host = "allow" THEN 1 ELSE 0)
  /\ Word(img, at, FieldCnt(at)) = o.cnt
  /\ Word(img, at, AllowOrDenyCnt(at)) = (IF o.host \in {"allow", "deny"} THEN o.list ELSE 0)
  /\ Strs(o) > 0 => BlockAt(img, what, Word(img, at, FieldDataPtr(at)), 4 * Strs(o))

\* The structs that are configured at a stage, and those that are not yet.
StructsInv ==
  /\ Ordered(image, stack_pointer)
  /\ Has(image, Home(EnvAt), EnvAt, 16) /\ Has(image, Home(ConfigAt), ConfigAt, 16)
  /\ IF phase = "env" THEN Initial(image, EnvAt)
     ELSE OptionsSet(image, "env", EnvAt, options.env)
  /\ IF phase \in {"env", "config"} THEN Initial(image, ConfigAt)
     ELSE OptionsSet(image, "config", ConfigAt, options.config)

\* The tables: none of a kind, or one that is at lo and has size bytes.
NoTable(what) == \A a \in data.placed : a.what # what
OneTable(what, lo, size) ==
  {a \in data.placed : a.what = what} = {[what |-> what, lo |-> lo, hi |-> lo + size]}

IoWord(a) == Field(image[Len(OwnSegments)], a)

IoInv ==
  /\ phase = "linearize" => NoTable("index")
  /\ phase \in {"linearize", "preopens"} => NoTable("preopens")
  /\ phase \in {"preopens", "finish", "done"} =>
       OneTable("index", static_index_addr, 16 * entries)
  /\ phase \in {"finish", "done"} =>
       /\ Has(image, Len(OwnSegments), IoAt, 20)
       /\ IoWord(PreopensPtr) \in Nat /\ IoWord(PreopenCnt) \in Nat
       /\ OneTable("preopens", IoWord(PreopensPtr), 4 * IoWord(PreopenCnt))
       /\ IoWord(StaticIndexPtr) = static_index_addr
       /\ IoWord(StaticIndexCnt) = entries
       /\ IoWord(Flags) = FlagsOf(options)

SectionInv ==
  phase = "done" =>
    \E i \in 1..Len(image) :
      /\ Loads(image[i]) /\ image[i].what = "section"
      /\ \A p \in data.placed :
           image[i].lo <= p.lo /\ p.hi <= image[i].lo + image[i].len

OptionsRecord ==
  /\ options = [env |-> options.env, config |-> options.config,
                host_preopens |-> options.host_preopens,
                passthrough |-> options.passthrough, stdio |-> options.stdio]
  /\ options.env \in Option /\ options.config \in Option
  /\ options.host_preopens \in BOOLEAN /\ options.passthrough \in BOOLEAN
  /\ options.stdio \in [StdStreams -> StdioCfg]

LoadInv ==
  /\ OptionsRecord
  /\ static_index_addr \in Nat
  /\ phase # "failed" => StructsInv /\ IoInv /\ SectionInv

\* Only the last of the adapter's own segments may be made longer.
LEMMA OrderedKept ==
  ASSUME NEW img, IsSeq(img), NEW out, Len(out) = Len(img), NEW floor, Ordered(img, floor),
         \A j \in 1..Len(img) :
           /\ Segment(img[j]) => Segment(out[j])
           /\ out[j].what = img[j].what /\ out[j].lo = img[j].lo
           /\ j # Len(OwnSegments) => out[j].len = img[j].len
  PROVE  Ordered(out, floor)
<1>1. Len(img) \in Nat /\ Len(OwnSegments) \in Nat
  BY SeqShape, OwnShape
<1>2. \A j \in 1..Len(img) : Loads(out[j]) <=> Loads(img[j])
  BY DEF Loads
<1>3. ASSUME NEW i \in 1..Len(out), NEW j \in 1..Len(out), i < j,
             Loads(out[i]), Loads(out[j])
      PROVE  \/ j <= Len(OwnSegments) /\ out[i].lo + out[i].len <= out[j].lo
             \/ Len(OwnSegments) < j /\ out[j].lo + out[j].len <= out[i].lo
  <2>1. \/ j <= Len(OwnSegments) /\ img[i].lo + img[i].len <= img[j].lo
        \/ Len(OwnSegments) < j /\ img[j].lo + img[j].len <= img[i].lo
    BY <1>2, <1>3 DEF Ordered
  <2>2. j <= Len(OwnSegments) => i # Len(OwnSegments)
    BY <1>1, <1>3
  <2>3. Len(OwnSegments) < j => j # Len(OwnSegments)
    BY <1>1, <1>3
  <2> QED BY <1>3, <2>1, <2>2, <2>3
<1>4. \A j \in 1..Len(out) : Loads(out[j]) => Segment(out[j]) /\ floor <= out[j].lo
  BY <1>2 DEF Ordered
<1> QED BY <1>3, <1>4 DEF Ordered

\* A block that ends at the floor.
LEMMA OrderedAppend ==
  ASSUME NEW img, IsSeq(img), NEW floor \in Nat, Ordered(img, floor),
         Len(OwnSegments) <= Len(img),
         NEW s, Segment(s), s.lo + s.len = floor
  PROVE  Ordered(Append(img, s), s.lo)
<1> DEFINE out == Append(img, s)
           n == Len(img)
<1>1. /\ n \in Nat /\ Len(OwnSegments) \in Nat
      /\ Len(out) = n + 1 /\ out[n + 1] = s
      /\ \A j \in 1..n : out[j] = img[j]
  BY SeqAppended, OwnShape
<1>2. s.lo \in Nat /\ s.len \in Nat
  BY DEF Segment
<1> HIDE DEF out, n
<1>3. ASSUME NEW j \in 1..n, Loads(img[j]) PROVE Segment(img[j]) /\ s.lo + s.len <= img[j].lo
  BY <1>3 DEF Ordered, n
<1>4. ASSUME NEW j \in 1..(n + 1), Loads(out[j]) PROVE Segment(out[j]) /\ s.lo <= out[j].lo
  <2>1. CASE j = n + 1
    BY <1>1, <1>2, <2>1
  <2>2. CASE j # n + 1
    <3>1. j \in 1..n
      BY <1>1, <2>2
    <3>2. Segment(img[j]) /\ s.lo + s.len <= img[j].lo
      BY <1>1, <1>3, <1>4, <3>1
    <3>3. img[j].lo \in Nat
      BY <3>2 DEF Segment
    <3> QED BY <1>1, <1>2, <3>1, <3>2, <3>3
  <2> QED BY <2>1, <2>2
<1>5. ASSUME NEW i \in 1..(n + 1), NEW j \in 1..(n + 1), i < j,
             Loads(out[i]), Loads(out[j])
      PROVE  \/ j <= Len(OwnSegments) /\ out[i].lo + out[i].len <= out[j].lo
             \/ Len(OwnSegments) < j /\ out[j].lo + out[j].len <= out[i].lo
  <2>1. i \in 1..n
    BY <1>1, <1>5
  <2>2. CASE j = n + 1
    <3>1. Len(OwnSegments) < j
      BY <1>1, <2>2 DEF n
    <3> QED BY <1>1, <1>3, <1>5, <2>1, <2>2, <3>1
  <2>3. CASE j # n + 1
    <3>1. j \in 1..n
      BY <1>1, <2>3
    <3> QED BY <1>1, <1>5, <2>1, <3>1 DEF Ordered, n
  <2> QED BY <2>2, <2>3
<1> QED BY <1>1, <1>4, <1>5 DEF Ordered, out

-----------------------------------------------------------------------------
\* Two images that agree on a struct, the second with all blocks of the first.
Keeps(img, out, at) ==
  /\ Len(img) <= Len(out)
  /\ \A j \in 1..Len(img) :
       /\ out[j].what = img[j].what /\ out[j].lo = img[j].lo
       /\ out[j].len >= img[j].len
  /\ \A a \in {HostFallback(at), HostFallbackAllow(at), FieldCnt(at),
               AllowOrDenyCnt(at), FieldDataPtr(at)} : Word(out, at, a) = Word(img, at, a)

\* What an image keeps is found in the next.
LEMMA KeepsHas ==
  ASSUME NEW img, NEW out, IsSeq(img), IsSeq(out), AllSegments(img), AllSegments(out),
         NEW at, Keeps(img, out, at)
  PROVE  \A k \in Nat, addr \in Nat, len \in Nat : Has(img, k, addr, len) => Has(out, k, addr, len)
<1> SUFFICES ASSUME NEW k \in Nat, NEW addr \in Nat, NEW len \in Nat, Has(img, k, addr, len)
             PROVE  Has(out, k, addr, len)
  OBVIOUS
<1>1. /\ k \in 1..Len(img) /\ Loads(img[k])
      /\ img[k].lo <= addr /\ addr + len <= img[k].lo + img[k].len
  BY DEF Has
<1>2. Len(img) \in Nat /\ Len(out) \in Nat
  BY SeqShape
<1>3. /\ k \in 1..Len(out) /\ Len(img) <= Len(out)
      /\ out[k].what = img[k].what /\ out[k].lo = img[k].lo /\ out[k].len >= img[k].len
  BY <1>1, <1>2 DEF Keeps
<1>4. /\ img[k].lo \in Nat /\ img[k].len \in Nat /\ out[k].len \in Nat
  BY <1>1, <1>3 DEF AllSegments, Segment
<1>5. addr + len <= out[k].lo + out[k].len
  BY <1>1, <1>3, <1>4
<1> QED BY <1>1, <1>3, <1>5 DEF Has, Loads

LEMMA KeepsBlock ==
  ASSUME NEW img, NEW out, IsSeq(img), IsSeq(out), AllSegments(img), AllSegments(out),
         NEW at, Keeps(img, out, at), NEW what, NEW lo, NEW size \in Nat,
         BlockAt(img, what, lo, size)
  PROVE  BlockAt(out, what, lo, size)
<1>1. PICK j \in 1..Len(img) :
        /\ Loads(img[j]) /\ img[j].what = what
        /\ img[j].lo = lo /\ img[j].len >= size /\ img[j].len > 0
  BY DEF BlockAt
<1>2. Len(img) \in Nat /\ Len(out) \in Nat /\ Len(img) <= Len(out)
  BY SeqShape DEF Keeps
<1>3. j \in 1..Len(out)
  BY <1>2
<1>4. img[j].len \in Nat /\ out[j].len \in Nat
  BY <1>3 DEF AllSegments, Segment
<1>5. /\ out[j].what = img[j].what /\ out[j].lo = img[j].lo /\ out[j].len >= img[j].len
  BY DEF Keeps
<1>6. out[j].len >= size /\ out[j].len > 0
  BY <1>1, <1>4, <1>5
<1> QED BY <1>1, <1>3, <1>5, <1>6 DEF BlockAt, Loads

LEMMA KeepsStruct ==
  ASSUME NEW img, NEW out, IsSeq(img), IsSeq(out), AllSegments(img), AllSegments(out),
         NEW at, Keeps(img, out, at)
  PROVE  /\ Initial(img, at) => Initial(out, at)
         /\ \A what, o : o \in Option /\ OptionsSet(img, what, at, o) => OptionsSet(out, what, at, o)
<1>1. Initial(img, at) => Initial(out, at)
  BY DEF Initial, Keeps
<1>2. ASSUME NEW what, NEW o \in Option, OptionsSet(img, what, at, o)
      PROVE  OptionsSet(out, what, at, o)
  <2>1. /\ Word(out, at, HostFallback(at)) = (IF o.host = "none" THEN 0 ELSE 1)
        /\ Word(out, at, HostFallbackAllow(at)) = (IF o.host = "allow" THEN 1 ELSE 0)
        /\ Word(out, at, FieldCnt(at)) = o.cnt
        /\ Word(out, at, AllowOrDenyCnt(at))
             = (IF o.host \in {"allow", "deny"} THEN o.list ELSE 0)
    BY <1>2 DEF OptionsSet, Keeps
  <2>2. ASSUME Strs(o) > 0
        PROVE  BlockAt(out, what, Word(out, at, FieldDataPtr(at)), 4 * Strs(o))
    <3>1. 4 * Strs(o) \in Nat
      BY DEF Strs, Option
    <3>2. BlockAt(img, what, Word(img, at, FieldDataPtr(at)), 4 * Strs(o))
      BY <1>2, <2>2 DEF OptionsSet
    <3>3. Word(out, at, FieldDataPtr(at)) = Word(img, at, FieldDataPtr(at))
      BY DEF Keeps
    <3> QED BY <3>1, <3>2, <3>3, KeepsBlock
  <2> QED BY <2>1, <2>2 DEF OptionsSet
<1> QED BY <1>1, <1>2

\* The fields of a struct: 16 bytes, apart from the other's.
StructFields(at) ==
  {HostFallback(at), HostFallbackAllow(at), FieldCnt(at), AllowOrDenyCnt(at),
   FieldDataPtr(at)}

\* Which fields an option writes, and what.
LEMMA OptionFieldsAre ==
  ASSUME NEW at \in Nat, NEW o \in Option, NEW ptr
  PROVE  LET f == OptionFields(at, o, ptr)
         IN  /\ DOMAIN f \subseteq StructFields(at)
             /\ HostFallback(at) \in DOMAIN f <=> o.host = "none"
             /\ o.host = "none" => f[HostFallback(at)] = 0
             /\ HostFallbackAllow(at) \in DOMAIN f <=> o.host \in {"allow", "deny"}
             /\ o.host \in {"allow", "deny"} =>
                  /\ f[HostFallbackAllow(at)] = (IF o.host = "allow" THEN 1 ELSE 0)
                  /\ f[AllowOrDenyCnt(at)] = o.list
             /\ AllowOrDenyCnt(at) \in DOMAIN f <=> o.host \in {"allow", "deny"}
             /\ FieldCnt(at) \in DOMAIN f /\ f[FieldCnt(at)] = o.cnt
             /\ ptr # NoBlock => /\ FieldDataPtr(at) \in DOMAIN f
                                 /\ f[FieldDataPtr(at)] = ptr
<1> DEFINE f == OptionFields(at, o, ptr)
           host == CASE o.host = "all" -> {}
                     [] o.host = "none" -> {HostFallback(at)}
                     [] o.host \in {"allow", "deny"} ->
                          {HostFallbackAllow(at), AllowOrDenyCnt(at)}
           data_ptr == IF ptr = NoBlock THEN {} ELSE {FieldDataPtr(at)}
           D == {FieldCnt(at)} \cup host \cup data_ptr
           v(a) == CASE a = HostFallback(at) -> 0
                     [] a = HostFallbackAllow(at) -> IF o.host = "allow" THEN 1 ELSE 0
                     [] a = FieldCnt(at) -> o.cnt
                     [] a = AllowOrDenyCnt(at) -> o.list
                     [] a = FieldDataPtr(at) -> ptr
<1>1. f = [a \in D |-> v(a)]
  BY DEF OptionFields
<1>2. /\ HostFallback(at) = at /\ HostFallbackAllow(at) = at + 1
      /\ FieldCnt(at) = at + 4 /\ AllowOrDenyCnt(at) = at + 8
      /\ FieldDataPtr(at) = at + 12
  BY DEF HostFallback, HostFallbackAllow, FieldCnt, AllowOrDenyCnt, FieldDataPtr
<1>3. /\ v(HostFallback(at)) = 0
      /\ v(HostFallbackAllow(at)) = (IF o.host = "allow" THEN 1 ELSE 0)
      /\ v(FieldCnt(at)) = o.cnt
      /\ v(AllowOrDenyCnt(at)) = o.list
      /\ v(FieldDataPtr(at)) = ptr
  BY <1>2
<1>4. o.host \in {"all", "none", "allow", "deny"}
  BY DEF Option
<1>5. /\ o.host = "all" => host = {}
      /\ o.host = "none" => host = {HostFallback(at)}
      /\ o.host \in {"allow", "deny"} => host = {HostFallbackAllow(at), AllowOrDenyCnt(at)}
  OBVIOUS
<1>6. data_ptr \subseteq {FieldDataPtr(at)} /\ (ptr # NoBlock => FieldDataPtr(at) \in data_ptr)
  OBVIOUS
<1> HIDE DEF host, data_ptr, v
<1>7. /\ HostFallback(at) \in D <=> o.host = "none"
      /\ HostFallbackAllow(at) \in D <=> o.host \in {"allow", "deny"}
      /\ AllowOrDenyCnt(at) \in D <=> o.host \in {"allow", "deny"}
      /\ FieldCnt(at) \in D
      /\ ptr # NoBlock => FieldDataPtr(at) \in D
      /\ D \subseteq StructFields(at)
  BY <1>2, <1>4, <1>5, <1>6 DEF StructFields
<1> HIDE DEF D, f
<1>8. DOMAIN f = D /\ \A a \in D : f[a] = v(a)
  BY <1>1
<1> QED BY <1>3, <1>7, <1>8 DEF f

\* Env and config share no field.
LEMMA FieldsApart ==
  ASSUME NEW at \in {EnvAt, ConfigAt}, NEW other \in {EnvAt, ConfigAt}, other # at
  PROVE  StructFields(at) \cap StructFields(other) = {}
<1>1. /\ at \in Nat /\ other \in Nat
      /\ at + 16 <= other \/ other + 16 <= at
  BY HomeHolds, StaticsAssumption
<1> QED
  BY <1>1 DEF StructFields, HostFallback, HostFallbackAllow, FieldCnt, AllowOrDenyCnt,
              FieldDataPtr

\* What an option needs is there.
Backed(img, what, o, ptr) ==
  Strs(o) > 0 => ptr # NoBlock /\ BlockAt(img, what, ptr, 4 * Strs(o))

\* The patch of env or config in the segment that has it.
LEMMA StructPatched ==
  ASSUME NEW img, IsSeq(img), AllSegments(img), NEW at \in {EnvAt, ConfigAt},
         Len(OwnSegments) <= Len(img), Initial(img, at),
         NEW what, NEW o \in Option, NEW ptr,
         Backed(img, what, o, ptr)
  PROVE  LET out == Patched(img, Home(at), OptionFields(at, o, ptr))
         IN  /\ IsSeq(out) /\ AllSegments(out) /\ Len(out) = Len(img)
             /\ \A j \in 1..Len(img) : /\ out[j].what = img[j].what
                                       /\ out[j].lo = img[j].lo
                                       /\ out[j].len = img[j].len
             /\ OptionsSet(out, what, at, o)
             /\ \A other \in {EnvAt, ConfigAt} : other # at => Keeps(img, out, other)
<1> DEFINE f == OptionFields(at, o, ptr)
           k == Home(at)
           out == Patched(img, k, f)
<1>0. \A a \in {EnvAt, ConfigAt} : Home(a) \in 1..Len(img)
  BY HomeHolds, SeqShape, OwnShape
<1>1. Segment(img[k])
  BY <1>0 DEF AllSegments
<1>2. /\ IsSeq(out) /\ Len(out) = Len(img)
      /\ \A j \in 1..Len(img) :
           /\ j # k => out[j] = img[j]
           /\ Segment(img[j]) => Segment(out[j])
           /\ out[j].what = img[j].what
           /\ out[j].lo = img[j].lo /\ out[j].len = img[j].len
      /\ \A a : Field(out[k], a) = IF a \in DOMAIN f THEN f[a] ELSE Field(img[k], a)
  <2> HIDE DEF f, k
  <2>1. k \in 1..Len(img)
    BY <1>0 DEF k
  <2> QED BY <1>1, <2>1, PatchedSegments
<1>3. at \in Nat
  BY HomeHolds
<1>4. /\ DOMAIN f \subseteq StructFields(at)
      /\ HostFallback(at) \in DOMAIN f <=> o.host = "none"
      /\ o.host = "none" => f[HostFallback(at)] = 0
      /\ HostFallbackAllow(at) \in DOMAIN f <=> o.host \in {"allow", "deny"}
      /\ o.host \in {"allow", "deny"} =>
           /\ f[HostFallbackAllow(at)] = (IF o.host = "allow" THEN 1 ELSE 0)
           /\ f[AllowOrDenyCnt(at)] = o.list
      /\ AllowOrDenyCnt(at) \in DOMAIN f <=> o.host \in {"allow", "deny"}
      /\ FieldCnt(at) \in DOMAIN f /\ f[FieldCnt(at)] = o.cnt
      /\ ptr # NoBlock => /\ FieldDataPtr(at) \in DOMAIN f
                          /\ f[FieldDataPtr(at)] = ptr
  BY <1>3, OptionFieldsAre
<1> HIDE DEF f, out
<1>5. \A a : Word(out, at, a) = IF a \in DOMAIN f THEN f[a] ELSE Word(img, at, a)
  BY <1>2 DEF Word
<1>6. AllSegments(out)
  BY <1>2 DEF AllSegments
<1>7. OptionsSet(out, what, at, o)
  <2>1. o.host \in {"all", "none", "allow", "deny"}
    BY DEF Option
  <2>2. Word(out, at, HostFallback(at)) = (IF o.host = "none" THEN 0 ELSE 1)
    BY <1>4, <1>5 DEF Initial
  <2>3. Word(out, at, HostFallbackAllow(at)) = (IF o.host = "allow" THEN 1 ELSE 0)
    BY <1>4, <1>5, <2>1 DEF Initial
  <2>4. Word(out, at, FieldCnt(at)) = o.cnt
    BY <1>4, <1>5
  <2>5. Word(out, at, AllowOrDenyCnt(at)) = (IF o.host \in {"allow", "deny"} THEN o.list ELSE 0)
    BY <1>4, <1>5 DEF Initial
  <2>6. ASSUME Strs(o) > 0
        PROVE  BlockAt(out, what, Word(out, at, FieldDataPtr(at)), 4 * Strs(o))
    <3>1. Word(out, at, FieldDataPtr(at)) = ptr
      BY <1>4, <1>5, <2>6 DEF Backed
    <3>2. BlockAt(img, what, ptr, 4 * Strs(o))
      BY <2>6 DEF Backed
    <3>3. BlockAt(out, what, ptr, 4 * Strs(o))
      BY <1>2, <3>2 DEF BlockAt, Loads
    <3> QED BY <3>1, <3>3
  <2> QED BY <2>2, <2>3, <2>4, <2>5, <2>6 DEF OptionsSet
<1>8. ASSUME NEW other \in {EnvAt, ConfigAt}, other # at PROVE Keeps(img, out, other)
  <2>1. \A a \in StructFields(other) : a \notin DOMAIN f
    BY <1>4, <1>8, FieldsApart
  <2>2. ASSUME NEW a \in StructFields(other) PROVE Word(out, other, a) = Word(img, other, a)
    <3>1. CASE Home(other) = k
      BY <1>2, <2>1, <3>1 DEF Word
    <3>2. CASE Home(other) # k
      BY <1>0, <1>2, <3>2 DEF Word
    <3> QED BY <3>1, <3>2
  <2>3. Len(img) <= Len(out)
    BY <1>2, SeqShape
  <2>4. \A j \in 1..Len(img) : out[j].len >= img[j].len
    <3>1. \A j \in 1..Len(img) : img[j].len \in Nat
      BY DEF AllSegments, Segment
    <3> QED BY <1>2, <3>1
  <2> QED BY <1>2, <2>2, <2>3, <2>4 DEF Keeps, StructFields
<1> QED BY <1>2, <1>6, <1>7, <1>8 DEF out, f

\* The structs lie in the segments that were linked.
LEMMA OwnHas ==
  ASSUME NEW img, IsSeq(img), OwnFirst(img), OwnWhole(img), NEW at \in {EnvAt, ConfigAt}
  PROVE  AllSegments(img) /\ Has(img, Home(at), at, 16)
<1>1. Len(img) \in Nat /\ Len(OwnSegments) \in Nat
  BY SeqShape, OwnShape
<1>2. /\ Home(at) \in 1..Len(OwnSegments)
      /\ OwnSegments[Home(at)].lo <= at
      /\ at + 16 <= OwnSegments[Home(at)].lo + OwnSegments[Home(at)].len
  BY HomeHolds
<1>3. Home(at) \in 1..Len(img)
  BY <1>1, <1>2 DEF OwnFirst
<1> QED BY <1>2, <1>3 DEF OwnFirst, OwnWhole, Has, AllSegments

\* A segment put behind the others changes nothing, and so on in steps.
LEMMA KeepsAppend ==
  ASSUME NEW img, IsSeq(img), AllSegments(img), Len(OwnSegments) <= Len(img), NEW s,
         NEW at \in {EnvAt, ConfigAt}
  PROVE  Keeps(img, Append(img, s), at)
<1> DEFINE out == Append(img, s)
<1>1. /\ Len(img) \in Nat /\ Len(out) = Len(img) + 1
      /\ \A j \in 1..Len(img) : out[j] = img[j]
  BY SeqAppended
<1> HIDE DEF out
<1>2. Home(at) \in 1..Len(img)
  BY <1>1, HomeHolds, OwnShape
<1>3. \A a : Word(out, at, a) = Word(img, at, a)
  BY <1>1, <1>2 DEF Word
<1>4. Len(img) <= Len(out)
  BY <1>1
<1>5. \A j \in 1..Len(img) : out[j].len >= img[j].len
  <2>1. \A j \in 1..Len(img) : img[j].len \in Nat
    BY DEF AllSegments, Segment
  <2> QED BY <1>1, <2>1
<1> QED BY <1>1, <1>3, <1>4, <1>5 DEF Keeps, out

LEMMA KeepsTrans ==
  ASSUME NEW i1, NEW i2, NEW i3, IsSeq(i1), IsSeq(i2), IsSeq(i3),
         AllSegments(i1), AllSegments(i2), AllSegments(i3),
         NEW at, Keeps(i1, i2, at), Keeps(i2, i3, at)
  PROVE  Keeps(i1, i3, at)
<1>1. Len(i1) \in Nat /\ Len(i2) \in Nat /\ Len(i3) \in Nat /\ Len(i1) <= Len(i2) /\ Len(i2) <= Len(i3)
  BY SeqShape DEF Keeps
<1>2. ASSUME NEW j \in 1..Len(i1)
      PROVE  /\ i3[j].what = i1[j].what /\ i3[j].lo = i1[j].lo
             /\ i3[j].len >= i1[j].len
  <2>1. j \in 1..Len(i2) /\ j \in 1..Len(i3)
    BY <1>1
  <2>2. i1[j].len \in Nat /\ i2[j].len \in Nat /\ i3[j].len \in Nat
    BY <2>1 DEF AllSegments, Segment
  <2>3. i2[j].len >= i1[j].len /\ i3[j].len >= i2[j].len
    BY <2>1 DEF Keeps
  <2>4. i3[j].what = i1[j].what /\ i3[j].lo = i1[j].lo
    BY <2>1 DEF Keeps
  <2> QED BY <2>2, <2>3, <2>4
<1>3. Len(i1) <= Len(i3)
  BY <1>1
<1> QED BY <1>2, <1>3 DEF Keeps

\* The same, of an image with a name of its own.
LEMMA StructPatchedAs ==
  ASSUME NEW img, IsSeq(img), AllSegments(img), NEW at \in {EnvAt, ConfigAt},
         Len(OwnSegments) <= Len(img), Initial(img, at),
         NEW what, NEW o \in Option, NEW ptr, Backed(img, what, o, ptr),
         NEW out, out = Patched(img, Home(at), OptionFields(at, o, ptr))
  PROVE  /\ IsSeq(out) /\ AllSegments(out) /\ Len(out) = Len(img)
         /\ \A j \in 1..Len(img) : /\ out[j].what = img[j].what
                                   /\ out[j].lo = img[j].lo
                                   /\ out[j].len = img[j].len
         /\ OptionsSet(out, what, at, o)
         /\ \A other \in {EnvAt, ConfigAt} : other # at => Keeps(img, out, other)
BY StructPatched

\* A patch keeps the order of the segments and reaches only its struct.
LEMMA PatchKept ==
  ASSUME NEW img, IsSeq(img), OwnFirst(img), OwnWhole(img),
         NEW at \in {EnvAt, ConfigAt}, NEW what, NEW o \in Option, NEW ptr,
         Patch(img, at, OptionFields(at, o, ptr)), ~panicked',
         Initial(img, at), NEW floor, Ordered(img, floor), Backed(img, what, o, ptr)
  PROVE  /\ Ordered(image', floor)
         /\ IsSeq(image') /\ AllSegments(image')
         /\ OptionsSet(image', what, at, o)
         /\ \A other \in {EnvAt, ConfigAt} : other # at => Keeps(img, image', other)
<1>1. SegmentFor(img, at) = Home(at)
  BY SegmentForOptions
<1>2. image' = Patched(img, Home(at), OptionFields(at, o, ptr))
  BY <1>1 DEF Patch
<1>3. AllSegments(img) /\ Len(OwnSegments) <= Len(img)
  BY OwnHas DEF OwnFirst
<1>4. /\ IsSeq(image') /\ AllSegments(image') /\ Len(image') = Len(img)
      /\ \A j \in 1..Len(img) : /\ image'[j].what = img[j].what
                                /\ image'[j].lo = img[j].lo
                                /\ image'[j].len = img[j].len
      /\ OptionsSet(image', what, at, o)
      /\ \A other \in {EnvAt, ConfigAt} : other # at => Keeps(img, image', other)
  BY <1>2, <1>3, StructPatchedAs
<1>5. \A j \in 1..Len(img) : Segment(image'[j])
  BY <1>4 DEF AllSegments
<1>6. Ordered(image', floor)
  BY <1>4, <1>5, OrderedKept
<1> QED BY <1>4, <1>6

\* The block of an option, if it needs one, and its patch.
LEMMA OptionsPatch ==
  ASSUME IInv, IInv', IsSeq(image), OwnFirst(image), OwnWhole(image), ~panicked, ~panicked',
         Ordered(image, stack_pointer),
         NEW what \in {"env", "config"}, NEW at \in {EnvAt, ConfigAt},
         NEW o \in Option, PatchOptions(what, at, o), Initial(image, at)
  PROVE  /\ Ordered(image', stack_pointer')
         /\ IsSeq(image') /\ AllSegments(image')
         /\ OptionsSet(image', what, at, o)
         /\ \A other \in {EnvAt, ConfigAt} : other # at => Keeps(image, image', other)
<1>0. /\ stack_pointer \in Nat /\ stack_pointer' \in Nat /\ StackTop \in Nat
      /\ stack_pointer <= StackTop
  BY StackTopAssumption DEF IInv, TypeOK
<1>1. ASSUME NEW img, IsSeq(img), OwnFirst(img), OwnWhole(img), NEW ptr,
             Patch(img, at, OptionFields(at, o, ptr)), Initial(img, at),
             Ordered(img, stack_pointer'), Backed(img, what, o, ptr)
      PROVE  /\ Ordered(image', stack_pointer')
             /\ IsSeq(image') /\ AllSegments(image')
             /\ OptionsSet(image', what, at, o)
             /\ \A other \in {EnvAt, ConfigAt} : other # at => Keeps(img, image', other)
  BY <1>1, PatchKept
<1> DEFINE len == stack_pointer - stack_pointer'
           block == [what |-> what, lo |-> stack_pointer', len |-> len, word |-> <<>>]
<1>2. Strs(o) \in Nat
  BY DEF Strs, Option
<1>3. CASE len = 0
  <2>1. stack_pointer' = stack_pointer
    <3>1. ASSUME NEW a \in Nat, NEW b \in Nat, a - b = 0 PROVE b = a
      BY <3>1
    <3>2. stack_pointer - stack_pointer' = 0
      BY <1>3
    <3> QED BY <1>0, <3>1, <3>2
  <2>2. Patch(image, at, OptionFields(at, o, NoBlock)) /\ Strs(o) = 0
    BY <1>3 DEF PatchOptions
  <2>3. Backed(image, what, o, NoBlock)
    BY <2>2 DEF Backed
  <2>4. Ordered(image, stack_pointer')
    BY <2>1
  <2> HIDE DEF len
  <2> QED BY <1>1, <2>2, <2>3, <2>4
<1>4. CASE len # 0
  <2>1. len >= 4 * Strs(o) /\ Patch(Append(image, block), at, OptionFields(at, o, block.lo))
    BY <1>4 DEF PatchOptions
  <2>2. len \in Nat /\ len > 0 /\ stack_pointer' < StackTop /\ stack_pointer' + len = stack_pointer
    <3>1. ASSUME NEW a \in Nat, NEW b \in Nat, NEW top \in Nat, NEW n \in Nat,
                 a <= top, a - b # 0, a - b >= 4 * n
          PROVE  a - b \in Nat /\ a - b > 0 /\ b < top /\ b + (a - b) = a
      BY <3>1
    <3> QED BY <1>0, <1>2, <1>4, <2>1, <3>1
  <2> HIDE DEF len
  <2>3. /\ Segment(block) /\ Loads(block) /\ block.lo = stack_pointer' /\ block.len = len
        /\ block.what = what
    BY <1>0, <2>2 DEF Segment, Loads
  <2> HIDE DEF block
  <2> DEFINE img == Append(image, block)
  <2>4. IsSeq(img) /\ OwnFirst(img) /\ OwnWhole(img)
    <3>1. block.lo < StackTop
      BY <2>2, <2>3
    <3> QED BY <2>3, <3>1, AppendKeeps
  <2>5. Ordered(img, stack_pointer')
    <3>1. Len(OwnSegments) <= Len(image) /\ block.lo + block.len = stack_pointer
      BY <2>2, <2>3 DEF OwnFirst
    <3>2. Ordered(img, block.lo)
      BY <1>0, <2>3, <3>1, OrderedAppend
    <3> QED BY <2>3, <3>2
  <2>6. /\ Len(image) \in Nat /\ Len(img) = Len(image) + 1 /\ img[Len(image) + 1] = block
    BY SeqAppended
  <2>7. AllSegments(image) /\ Len(OwnSegments) <= Len(image)
    BY OwnHas DEF OwnFirst
  <2>8. \A other \in {EnvAt, ConfigAt} : Keeps(image, img, other)
    BY <2>7, KeepsAppend
  <2>9. AllSegments(img)
    BY <2>4, OwnHas
  <2> HIDE DEF img
  <2>10. Initial(img, at)
    BY <2>4, <2>7, <2>8, <2>9, KeepsStruct
  <2>11. BlockAt(img, what, block.lo, 4 * Strs(o))
    <3>1. Len(image) + 1 \in 1..Len(img)
      BY <2>6
    <3> QED BY <2>1, <2>2, <2>3, <2>6, <3>1 DEF BlockAt
  <2>12. block.lo # NoBlock
    BY <1>0, <2>3 DEF NoBlock
  <2>16. Backed(img, what, o, block.lo)
    BY <2>11, <2>12 DEF Backed
  <2>13. Patch(img, at, OptionFields(at, o, block.lo))
    BY <2>1 DEF img
  <2>14. /\ Ordered(image', stack_pointer')
         /\ IsSeq(image') /\ AllSegments(image')
         /\ OptionsSet(image', what, at, o)
         /\ \A other \in {EnvAt, ConfigAt} : other # at => Keeps(img, image', other)
    BY <1>1, <2>4, <2>5, <2>10, <2>13, <2>16
  <2>15. \A other \in {EnvAt, ConfigAt} : other # at => Keeps(image, image', other)
    BY <2>4, <2>7, <2>8, <2>9, <2>14, KeepsTrans
  <2> QED BY <2>14, <2>15
<1> QED BY <1>3, <1>4

LEMMA OptionsApart == EnvAt # ConfigAt
BY HomeHolds, StaticsAssumption

\* create_env_virt and create_config_virt.
LEMMA OptionsLoadStep ==
  ASSUME IInv, IInv', ImageInv, ImageInv', LoadInv, CreateEnvVirt \/ CreateConfigVirt
  PROVE  LoadInv'
<1>1. CASE phase' = "failed"
  <2>1. UNCHANGED ivars
    BY <1>1 DEF CreateEnvVirt, CreateConfigVirt
  <2> QED BY <1>1, <2>1 DEF LoadInv, OptionsRecord, ivars
<1>2. CASE phase' # "failed"
  <2>1. /\ phase \in {"env", "config"} /\ phase \in Patching
        /\ IsSeq(image) /\ OwnFirst(image) /\ OwnWhole(image) /\ ~panicked /\ ~panicked'
    BY DEF ImageInv, CreateEnvVirt, CreateConfigVirt, EnvFieldData, ConfigFieldData,
           FieldData, Patching
  <2>2. StructsInv /\ OptionsRecord /\ static_index_addr' = static_index_addr
    BY <1>2, <2>1 DEF LoadInv, CreateEnvVirt, CreateConfigVirt
  <2>3. AllSegments(image)
    BY <2>1, OwnHas
  <2>4. CASE CreateEnvVirt
    <3>1. PICK o \in EnvOptions : /\ PatchOptions("env", EnvAt, o)
                                  /\ options' = [options EXCEPT !.env = o]
      BY <1>2, <2>4 DEF CreateEnvVirt
    <3>2. phase = "env" /\ phase' = "config"
      BY <1>2, <2>4 DEF CreateEnvVirt, EnvFieldData, FieldData, Fail
    <3>3. o \in Option
      BY OptionsAssumption
    <3>4. /\ options'.env = o /\ OptionsRecord'
      BY <2>2, <3>1, <3>3 DEF OptionsRecord
    <3>5. Initial(image, EnvAt) /\ Initial(image, ConfigAt) /\ Ordered(image, stack_pointer)
      BY <2>2, <3>2 DEF StructsInv
    <3>6. /\ Ordered(image', stack_pointer')
          /\ IsSeq(image') /\ AllSegments(image')
          /\ OptionsSet(image', "env", EnvAt, o)
          /\ Keeps(image, image', ConfigAt)
      BY <2>1, <3>1, <3>3, <3>5, OptionsPatch, OptionsApart
    <3>7. Initial(image', ConfigAt)
      BY <2>1, <2>3, <3>5, <3>6, KeepsStruct
    <3>8. Has(image', Home(EnvAt), EnvAt, 16) /\ Has(image', Home(ConfigAt), ConfigAt, 16)
      BY <3>2, OwnHas DEF ImageInv, Patching
    <3>9. StructsInv'
      BY <3>2, <3>4, <3>6, <3>7, <3>8 DEF StructsInv
    <3> QED BY <2>2, <3>2, <3>4, <3>9 DEF LoadInv, IoInv, SectionInv
  <2>5. CASE CreateConfigVirt
    <3>1. PICK o \in ConfigOptions : /\ PatchOptions("config", ConfigAt, o)
                                     /\ options' = [options EXCEPT !.config = o]
      BY <1>2, <2>5 DEF CreateConfigVirt
    <3>2. phase = "config" /\ phase' = "io"
      BY <1>2, <2>5 DEF CreateConfigVirt, ConfigFieldData, FieldData, Fail
    <3>3. o \in Option
      BY OptionsAssumption
    <3>4. options'.config = o /\ options'.env = options.env /\ OptionsRecord'
      BY <2>2, <3>1, <3>3 DEF OptionsRecord
    <3>5. /\ OptionsSet(image, "env", EnvAt, options.env) /\ Initial(image, ConfigAt)
          /\ Ordered(image, stack_pointer)
      BY <2>2, <3>2 DEF StructsInv
    <3>6. /\ Ordered(image', stack_pointer')
          /\ IsSeq(image') /\ AllSegments(image')
          /\ OptionsSet(image', "config", ConfigAt, o)
          /\ Keeps(image, image', EnvAt)
      BY <2>1, <3>1, <3>3, <3>5, OptionsPatch, OptionsApart
    <3>7. OptionsSet(image', "env", EnvAt, options.env)
      BY <2>1, <2>2, <2>3, <3>5, <3>6, KeepsStruct DEF OptionsRecord
    <3>8. Has(image', Home(EnvAt), EnvAt, 16) /\ Has(image', Home(ConfigAt), ConfigAt, 16)
      BY <3>2, OwnHas DEF ImageInv, Patching
    <3>9. StructsInv'
      BY <3>2, <3>4, <3>6, <3>7, <3>8 DEF StructsInv
    <3> QED BY <2>2, <3>2, <3>4, <3>9 DEF LoadInv, IoInv, SectionInv
  <2> QED BY <2>4, <2>5
<1> QED BY <1>1, <1>2

\* A step of create_io_virt that leaves the image alone.
LEMMA ImageKept ==
  ASSUME StructsInv, UNCHANGED <<image, stack_pointer>>,
         options'.env = options.env, options'.config = options.config,
         phase \notin {"env", "config"}, phase' \notin {"env", "config"}
  PROVE  StructsInv'
BY DEF StructsInv

\* Data::new starts without a table.
LEMMA NewIoLoadStep ==
  ASSUME LoadInv, NewIo
  PROVE  LoadInv'
<1>1. /\ phase = "io" /\ phase' = "linearize" /\ data' = Empty(stack_pointer)
      /\ UNCHANGED <<image, stack_pointer, static_index_addr>>
  BY DEF NewIo, NewData
<1>2. StructsInv /\ OptionsRecord
  BY <1>1 DEF LoadInv
<1>3. /\ options'.env = options.env /\ options'.config = options.config
      /\ OptionsRecord'
  <2>1. PICK h \in BOOLEAN, std \in [StdStreams -> StdioCfg] :
          options' = [options EXCEPT !.host_preopens = h, !.passthrough = h, !.stdio = std]
    BY DEF NewIo
  <2> DEFINE m == [options EXCEPT !.host_preopens = h]
  <2>2. m = [env |-> options.env, config |-> options.config, host_preopens |-> h,
             passthrough |-> options.passthrough, stdio |-> options.stdio]
    BY <1>2 DEF OptionsRecord
  <2>3. options' = [m EXCEPT !.passthrough = h, !.stdio = std]
    BY <2>1
  <2> HIDE DEF m
  <2>4. options' = [env |-> options.env, config |-> options.config, host_preopens |-> h,
                    passthrough |-> h, stdio |-> std]
    BY <2>2, <2>3
  <2> QED BY <1>2, <2>4 DEF OptionsRecord
<1>4. StructsInv'
  BY <1>1, <1>2, <1>3, ImageKept
<1>5. \A what : NoTable(what)'
  BY <1>1 DEF NoTable, Empty
<1>6. IoInv' /\ SectionInv'
  BY <1>1, <1>5 DEF IoInv, SectionInv
<1> QED BY <1>1, <1>3, <1>4, <1>6 DEF LoadInv

\* The tables that d has are those of e.
SameTables(d, e) ==
  \A a : a.what \in {"index", "preopens"} => (a \in e.placed <=> a \in d.placed)

\* What an allocation adds; a name or a file is no table.
LEMMA AllocPlaces ==
  ASSUME NEW d, Record(d), NEW what, NEW len, NEW align
  PROVE  LET e == StackAlloc(d, what, len, align)
         IN  /\ e.stack_ptr = NewPtr(d.stack_ptr, len, align)
             /\ e.placed = d.placed \cup
                  {[what |-> what, lo |-> e.stack_ptr, hi |-> e.stack_ptr + len]}
<1> DEFINE lo == NewPtr(d.stack_ptr, len, align)
           p == d.placed \cup {[what |-> what, lo |-> lo, hi |-> lo + len]}
           m == [d EXCEPT !.stack_ptr = lo]
           e == StackAlloc(d, what, len, align)
<1>1. e = [m EXCEPT !.placed = p]
  BY DEF StackAlloc
<1>2. m = [stack_start |-> d.stack_start, stack_ptr |-> lo, strings |-> d.strings,
           passive |-> d.passive, placed |-> d.placed]
  <2> HIDE DEF lo
  <2> QED BY DEF Record
<1> HIDE DEF m, e
<1>3. e.stack_ptr = lo /\ e.placed = p
  <2> HIDE DEF lo, p
  <2> QED BY <1>1, <1>2
<1> QED BY <1>3 DEF e

LEMMA AllocSameTables ==
  ASSUME NEW d, Record(d), NEW what \in {"string", "bytes"}, NEW len, NEW align
  PROVE  SameTables(d, StackAlloc(d, what, len, align))
<1> DEFINE e == StackAlloc(d, what, len, align)
           new == [what |-> what, lo |-> e.stack_ptr, hi |-> e.stack_ptr + len]
<1>1. e.placed = d.placed \cup {new}
  BY AllocPlaces
<1>2. new.what = what
  OBVIOUS
<1> HIDE DEF e, new
<1>3. SameTables(d, e)
  BY <1>1, <1>2 DEF SameTables
<1> QED BY <1>3 DEF e

LEMMA WithStringSameTables ==
  ASSUME NEW d, Record(d), NEW s
  PROVE  SameTables(d, WithString(d, s))
<1> DEFINE e == StackAlloc(d, "string", StringLen(s), 1)
           strings == [t \in DOMAIN d.strings \cup {s} |->
                         IF t = s THEN e.stack_ptr ELSE d.strings[t]]
<1>1. Record(e) /\ SameTables(d, e)
  BY AllocPassive, AllocSameTables
<1>2. WithString(d, s) = IF Known(d, s) THEN d ELSE [e EXCEPT !.strings = strings]
  BY DEF WithString
<1> HIDE DEF e, strings
<1>3. [e EXCEPT !.strings = strings]
        = [stack_start |-> e.stack_start, stack_ptr |-> e.stack_ptr,
           strings |-> strings, passive |-> e.passive, placed |-> e.placed]
  BY <1>1 DEF Record
<1>4. [e EXCEPT !.strings = strings].placed = e.placed
  BY <1>3
<1> QED BY <1>1, <1>2, <1>4 DEF SameTables

LEMMA VisitSameTables ==
  ASSUME Record(data), Visit
  PROVE  SameTables(data, data')
<1>1. ASSUME NEW name \in Strings PROVE Record(WithString(data, name)) /\ SameTables(data, WithString(data, name))
  BY WithStringPassive, WithStringSameTables
<1>2. CASE data' = data
  BY <1>2 DEF SameTables
<1>3. ASSUME NEW name \in Strings, VisitDir(name), data' # data
      PROVE  SameTables(data, data')
  BY <1>1, <1>3 DEF VisitDir, Push, Fail
<1>4. ASSUME NEW name \in Strings, NEW path \in Strings, VisitRuntime(name, path), data' # data
      PROVE  SameTables(data, data')
  <2> DEFINE d == WithString(data, name)
  <2>1. data' = WithString(d, path)
    BY <1>4 DEF VisitRuntime, Push, Fail
  <2>2. Record(d) /\ SameTables(data, d)
    BY <1>1
  <2> HIDE DEF d
  <2>3. SameTables(d, WithString(d, path))
    BY <2>2, WithStringSameTables
  <2> QED BY <2>1, <2>2, <2>3 DEF SameTables
<1>5. ASSUME NEW name \in Strings, NEW len \in FileLens, VisitFile(name, len), data' # data
      PROVE  SameTables(data, data')
  <2> DEFINE d == WithString(data, name)
  <2>1. Record(d) /\ SameTables(data, d)
    BY <1>1
  <2>2. data' = [d EXCEPT !.passive = @ + 1] \/ data' = StackAlloc(d, "bytes", len, 1)
    BY <1>5 DEF VisitFile, Push, Fail
  <2> HIDE DEF d
  <2>3. [d EXCEPT !.passive = @ + 1].placed = d.placed
    BY <2>1 DEF Record
  <2>4. SameTables(d, StackAlloc(d, "bytes", len, 1))
    BY <2>1, AllocSameTables
  <2>5. data'.placed = d.placed \/ SameTables(d, data')
    BY <2>2, <2>3, <2>4
  <2> QED BY <2>1, <2>5 DEF SameTables
<1> QED BY <1>2, <1>3, <1>4, <1>5 DEF Visit

\* A visit writes no table.
LEMMA VisitLoadStep ==
  ASSUME IInv, LoadInv, VisitEntry
  PROVE  LoadInv'
<1>1. /\ phase = "linearize" /\ phase' \in {"linearize", "failed"}
      /\ UNCHANGED <<image, stack_pointer, static_index_addr>> /\ Visit
  BY DEF VisitEntry, VisitDirEntry, VisitDir, VisitRuntimeEntry, VisitRuntime,
         VisitFileEntry, VisitFile, Visiting, Push, Fail, ivars, Visit
<1>2. OptionsRecord' /\ options'.env = options.env /\ options'.config = options.config
  <2>1. options' = options \/ options' = [options EXCEPT !.passthrough = TRUE]
    BY DEF VisitEntry, VisitDirEntry, VisitRuntimeEntry, VisitFileEntry, ivars
  <2> QED BY <2>1 DEF LoadInv, OptionsRecord
<1>3. CASE phase' = "failed"
  BY <1>1, <1>2, <1>3 DEF LoadInv
<1>4. CASE phase' = "linearize"
  <2>1. StructsInv /\ NoTable("index") /\ NoTable("preopens")
    BY <1>1 DEF LoadInv, IoInv
  <2>2. StructsInv'
    BY <1>1, <1>2, <1>4, <2>1, ImageKept
  <2>3. SameTables(data, data')
    BY <1>1, VisitSameTables DEF Record, IInv, TypeOK, DataType
  <2>4. NoTable("index")' /\ NoTable("preopens")'
    BY <2>1, <2>3 DEF NoTable, SameTables
  <2>5. IoInv' /\ SectionInv'
    BY <1>4, <2>4 DEF IoInv, SectionInv
  <2> QED BY <1>1, <1>2, <2>2, <2>5 DEF LoadInv
<1> QED BY <1>1, <1>3, <1>4

\* A table that is written is the only one of its kind.
LEMMA TableWritten ==
  ASSUME IInv, NEW what, NEW other, other # what, NEW cnt, NEW size, NEW to,
         WriteSlice(what, cnt, size, to), ~Fail
  PROVE  /\ NoTable(what) => OneTable(what, data.stack_ptr, cnt * size)'
         /\ NoTable(other) => NoTable(other)'
         /\ {a \in data'.placed : a.what = other} = {a \in data.placed : a.what = other}
         /\ phase' = to /\ UNCHANGED <<stack_pointer, entries>>
<1> DEFINE new == [what |-> what, lo |-> data'.stack_ptr, hi |-> data'.stack_ptr + cnt * size]
<1>1. /\ data' = StackAlloc(data, what, cnt * size, 4)
      /\ phase' = to /\ UNCHANGED <<stack_pointer, entries>>
  BY DEF WriteSlice
<1>2. data'.placed = data.placed \cup {new}
  BY <1>1, AllocPlaces DEF Record, IInv, TypeOK, DataType
<1>3. new.what = what
  OBVIOUS
<1> DEFINE n == cnt * size
<1>4. new = [what |-> what, lo |-> data'.stack_ptr, hi |-> data'.stack_ptr + n]
  OBVIOUS
<1> HIDE DEF new
<1>5. NoTable(what) => OneTable(what, data.stack_ptr, n)'
  <2> HIDE DEF n
  <2> QED BY <1>2, <1>3, <1>4 DEF NoTable, OneTable
<1>6. NoTable(other) => NoTable(other)'
  BY <1>2, <1>3 DEF NoTable
<1>7. {a \in data'.placed : a.what = other} = {a \in data.placed : a.what = other}
  BY <1>2, <1>3
<1> QED BY <1>1, <1>5, <1>6, <1>7

LEMMA PreopensWritten ==
  ASSUME IInv, NEW cnt, WriteSlice("preopens", cnt, 4, "finish"), ~Fail, NoTable("preopens")
  PROVE  /\ OneTable("preopens", data.stack_ptr, cnt * 4)'
         /\ {a \in data'.placed : a.what = "index"} = {a \in data.placed : a.what = "index"}
         /\ phase' = "finish" /\ UNCHANGED <<stack_pointer, entries>>
<1>1. "index" # "preopens"
  OBVIOUS
<1> QED BY <1>1, TableWritten

\* The static index is written.
LEMMA IndexLoadStep ==
  ASSUME IInv, IInv', LoadInv, WriteStaticIndex
  PROVE  LoadInv'
<1>1. /\ phase = "linearize" /\ UNCHANGED <<image, options>>
      /\ WriteSlice("index", entries, 16, "preopens")
  BY DEF WriteStaticIndex, WriteIndex
<1>2. static_index_addr' \in Nat /\ OptionsRecord'
  BY <1>1 DEF WriteStaticIndex, IInv, TypeOK, DataType, LoadInv, OptionsRecord
<1>3. CASE phase' = "failed"
  BY <1>2, <1>3 DEF LoadInv
<1>4. CASE phase' # "failed"
  <2>1. StructsInv /\ NoTable("index") /\ NoTable("preopens")
    BY <1>1 DEF LoadInv, IoInv
  <2>2. ~Fail
    BY <1>4 DEF Fail
  <2>3. /\ OneTable("index", data.stack_ptr, entries * 16)' /\ NoTable("preopens")'
        /\ phase' = "preopens" /\ UNCHANGED <<stack_pointer, entries>>
    BY <1>1, <2>1, <2>2, TableWritten
  <2>4. static_index_addr' = data'.stack_ptr /\ 16 * entries' = entries' * 16
    <3>1. entries' \in Nat
      BY DEF IInv, TypeOK
    <3> QED BY <1>4, <3>1 DEF WriteStaticIndex
  <2>5. OneTable("index", static_index_addr, 16 * entries)'
    BY <2>3, <2>4 DEF OneTable
  <2>6. StructsInv'
    BY <1>1, <2>1, <2>3, ImageKept
  <2>7. IoInv' /\ SectionInv'
    BY <2>3, <2>5 DEF IoInv, SectionInv
  <2> QED BY <1>2, <2>6, <2>7 DEF LoadInv
<1> QED BY <1>3, <1>4

\* Behind all the segments the adapter was linked with.
LEMMA IoBehind ==
  ASSUME NEW at \in {EnvAt, ConfigAt}, NEW a \in StructFields(at)
  PROVE  a \notin {PreopenCnt, PreopensPtr, StaticIndexCnt, StaticIndexPtr, Flags}
<1>1. /\ at \in Nat /\ Home(at) \in 1..Len(OwnSegments)
      /\ at + 16 <= OwnSegments[Home(at)].lo + OwnSegments[Home(at)].len
  BY HomeHolds
<1>2. OwnSegments[Home(at)].lo + OwnSegments[Home(at)].len <= IoAt /\ IoAt \in Nat
  BY <1>1, OwnShape, LayoutAssumption
<1>3. OwnSegments[Home(at)].lo \in Nat /\ OwnSegments[Home(at)].len \in Nat
  BY <1>1, OwnShape, LayoutAssumption
<1>4. at + 16 <= IoAt
  BY <1>1, <1>2, <1>3
<1> QED
  BY <1>1, <1>2, <1>4 DEF StructFields, HostFallback, HostFallbackAllow, FieldCnt,
     AllowOrDenyCnt, FieldDataPtr, PreopenCnt, PreopensPtr, StaticIndexCnt,
     StaticIndexPtr, Flags

\* The patch of io leaves env and config.
LEMMA IoKeepsOptions ==
  ASSUME ImageInv, PatchIo, phase' # "failed", NEW at \in {EnvAt, ConfigAt}
  PROVE  Keeps(image, image', at) /\ AllSegments(image)
<1> DEFINE k == Len(OwnSegments)
<1>1. /\ k \in 1..Len(image)
      /\ IsSeq(image') /\ Len(image') = Len(image)
      /\ \A j \in 1..Len(image) : j # k => image'[j] = image[j]
      /\ image'[k].what = image[k].what /\ image'[k].lo = image[k].lo
      /\ image'[k].len >= image[k].len
      /\ \A a : Field(image'[k], a) = IF a \in DOMAIN IoFields THEN IoFields[a]
                                      ELSE Field(image[k], a)
  BY IoPatched
<1>2. OwnFirst(image) /\ IsSeq(image)
  BY DEF PatchIo, WritePreopens, WriteSlice, Fail, ImageInv, Patching
<1>3. AllSegments(image) /\ Len(image) \in Nat
  BY <1>2, SeqShape DEF AllSegments, OwnFirst
<1>4. Home(at) \in 1..Len(image)
  BY <1>2, <1>3, HomeHolds, OwnShape DEF OwnFirst
<1>5. ASSUME NEW a \in StructFields(at) PROVE Word(image', at, a) = Word(image, at, a)
  <2>1. a \notin DOMAIN IoFields
    BY IoBehind DEF IoFields
  <2>2. CASE Home(at) = k
    BY <1>1, <2>1, <2>2 DEF Word
  <2>3. CASE Home(at) # k
    BY <1>1, <1>4, <2>3 DEF Word
  <2> QED BY <2>2, <2>3
<1>6. \A j \in 1..Len(image) : image'[j].what = image[j].what /\ image'[j].lo = image[j].lo
  BY <1>1
<1>7. ASSUME NEW j \in 1..Len(image) PROVE image'[j].len >= image[j].len
  <2>1. CASE j = k
    BY <1>1, <2>1
  <2>2. CASE j # k
    <3>1. image[j].len \in Nat /\ image'[j] = image[j]
      BY <1>1, <1>3, <2>2 DEF AllSegments, Segment
    <3> QED BY <3>1
  <2> QED BY <2>1, <2>2
<1> QED BY <1>1, <1>3, <1>5, <1>6, <1>7 DEF Keeps, StructFields

\* The only range of its kind is the one that is found.
LEMMA PlacedIs ==
  ASSUME NEW d, NEW what, NEW x, {a \in d.placed : a.what = what} = {x}
  PROVE  PlacedAs(d, what) = x
<1>1. x \in d.placed /\ x.what = what /\ \A a \in d.placed : a.what = what => a = x
  OBVIOUS
<1> QED BY <1>1 DEF PlacedAs

\* A table of cnt words has cnt words.
LEMMA CountOf ==
  ASSUME NEW a, NEW ptr \in Nat, NEW cnt \in Nat, a.lo = ptr, a.hi = ptr + 4 * cnt
  PROVE  (a.hi - a.lo) \div 4 = cnt
<1>1. (ptr + 4 * cnt) - ptr = 4 * cnt /\ (4 * cnt) \div 4 = cnt
  OBVIOUS
<1>2. a.hi - a.lo = 4 * cnt
  BY <1>1
<1> QED BY <1>1, <1>2

\* create_io_virt writes the preopen table and patches io.
LEMMA PatchIoLoadStep ==
  ASSUME IInv, IInv', ImageInv, ImageInv', LoadInv, PatchIo
  PROVE  LoadInv'
<1> DEFINE k == Len(OwnSegments)
<1>1. /\ phase = "preopens" /\ UNCHANGED <<options, static_index_addr>>
  BY DEF PatchIo, WritePreopens, WriteSlice, Fail
<1>2. static_index_addr' \in Nat /\ OptionsRecord /\ OptionsRecord'
  BY <1>1 DEF LoadInv, OptionsRecord
<1>3. CASE phase' = "failed"
  BY <1>2, <1>3 DEF LoadInv
<1>4. CASE phase' # "failed"
  <2>1. PICK cnt \in 0..entries : WriteSlice("preopens", cnt, 4, "finish")
    BY DEF PatchIo, WritePreopens
  <2>2. /\ StructsInv /\ NoTable("preopens")
        /\ OneTable("index", static_index_addr, 16 * entries)
    BY <1>1 DEF LoadInv, IoInv
  <2>3. ~Fail
    BY <1>4 DEF Fail
  <2>4. /\ OneTable("preopens", data.stack_ptr, cnt * 4)'
        /\ {a \in data'.placed : a.what = "index"} = {a \in data.placed : a.what = "index"}
        /\ phase' = "finish" /\ UNCHANGED <<stack_pointer, entries>>
    BY <2>1, <2>2, <2>3, PreopensWritten
  <2>5. cnt \in Nat /\ data'.stack_ptr \in Nat /\ entries \in Nat
    BY <2>1 DEF IInv, TypeOK, DataType
  <2>6. OneTable("index", static_index_addr, 16 * entries)'
    BY <1>1, <2>2, <2>4 DEF OneTable
  <2>7. OneTable("preopens", data.stack_ptr, 4 * cnt)'
    <3>1. cnt * 4 = 4 * cnt
      BY <2>5
    <3> QED BY <2>4, <3>1
  <2>8. PlacedAs(data', "preopens")
          = [what |-> "preopens", lo |-> data'.stack_ptr, hi |-> data'.stack_ptr + 4 * cnt]
    BY <2>7, PlacedIs DEF OneTable
  <2>9. /\ DOMAIN IoFields = {PreopenCnt, PreopensPtr, StaticIndexCnt, StaticIndexPtr, Flags}
        /\ IoFields[PreopenCnt] = cnt /\ IoFields[PreopensPtr] = data'.stack_ptr
        /\ IoFields[StaticIndexCnt] = entries
        /\ IoFields[StaticIndexPtr] = static_index_addr
        /\ IoFields[Flags] = FlagsOf(options)
    <3>1. IoAt \in Nat
      BY LastOwn
    <3> DEFINE pre == PlacedAs(data', "preopens")
               v(a) == CASE a = PreopenCnt -> (pre.hi - pre.lo) \div 4
                         [] a = PreopensPtr -> data'.stack_ptr
                         [] a = StaticIndexCnt -> entries
                         [] a = StaticIndexPtr -> static_index_addr
                         [] a = Flags -> FlagsOf(options)
               D == {PreopenCnt, PreopensPtr, StaticIndexCnt, StaticIndexPtr, Flags}
    <3>3. IoFields = [a \in D |-> v(a)]
      BY DEF IoFields
    <3>6. pre.lo = data'.stack_ptr /\ pre.hi = data'.stack_ptr + 4 * cnt
      BY <2>8
    <3> HIDE DEF pre
    <3>4. (pre.hi - pre.lo) \div 4 = cnt
      BY <2>5, <3>6, CountOf
    <3>5. /\ v(PreopenCnt) = cnt /\ v(PreopensPtr) = data'.stack_ptr
          /\ v(StaticIndexCnt) = entries /\ v(StaticIndexPtr) = static_index_addr
          /\ v(Flags) = FlagsOf(options)
      BY <3>1, <3>4 DEF PreopenCnt, PreopensPtr, StaticIndexCnt, StaticIndexPtr, Flags
    <3> HIDE DEF v
    <3> QED BY <3>3, <3>5
  <2>10. /\ k \in 1..Len(image)
         /\ IsSeq(image') /\ Len(image') = Len(image) /\ AllSegments(image')
         /\ \A j \in 1..Len(image) : j # k => image'[j] = image[j]
         /\ image'[k].what = image[k].what /\ image'[k].lo = image[k].lo
         /\ image'[k].lo <= IoAt /\ IoAt + 20 <= image'[k].lo + image'[k].len
         /\ \A a : Field(image'[k], a) = IF a \in DOMAIN IoFields THEN IoFields[a]
                                         ELSE Field(image[k], a)
    BY <1>4, IoPatched
  <2>11. /\ Field(image'[k], PreopenCnt) = cnt
         /\ Field(image'[k], PreopensPtr) = data'.stack_ptr
         /\ Field(image'[k], StaticIndexCnt) = entries
         /\ Field(image'[k], StaticIndexPtr) = static_index_addr
         /\ Field(image'[k], Flags) = FlagsOf(options)
    BY <2>9, <2>10
  <2>12. IsSeq(image) /\ OwnFirst(image)
    BY <1>1 DEF ImageInv, Patching
  <2>13. StructsInv'
    <3>1. /\ AllSegments(image)
          /\ \A at \in {EnvAt, ConfigAt} : Keeps(image, image', at)
      BY <1>4, IoKeepsOptions
    <3>2. Ordered(image', stack_pointer)
      <4>1. \A j \in 1..Len(image) :
              /\ Segment(image[j]) => Segment(image'[j])
              /\ image'[j].what = image[j].what /\ image'[j].lo = image[j].lo
              /\ j # Len(OwnSegments) => image'[j].len = image[j].len
        BY <2>10 DEF AllSegments
      <4>2. Ordered(image, stack_pointer)
        BY <2>2 DEF StructsInv
      <4> QED BY <2>10, <2>12, <4>1, <4>2, OrderedKept
    <3>3. ASSUME NEW at \in {EnvAt, ConfigAt}, Has(image, Home(at), at, 16)
          PROVE  Has(image', Home(at), at, 16)
      <4>1. Home(at) \in Nat /\ at \in Nat
        BY HomeHolds, OwnShape
      <4> QED BY <2>10, <2>12, <3>1, <3>3, <4>1, KeepsHas
    <3>4. ASSUME NEW at \in {EnvAt, ConfigAt}, NEW what, NEW o \in Option,
                 OptionsSet(image, what, at, o)
          PROVE  OptionsSet(image', what, at, o)
      BY <2>10, <2>12, <3>1, <3>4, KeepsStruct
    <3>5. options.env \in Option /\ options.config \in Option
      BY <1>2 DEF OptionsRecord
    <3>6. /\ OptionsSet(image, "env", EnvAt, options.env)
          /\ OptionsSet(image, "config", ConfigAt, options.config)
          /\ Has(image, Home(EnvAt), EnvAt, 16) /\ Has(image, Home(ConfigAt), ConfigAt, 16)
      BY <1>1, <2>2 DEF StructsInv
    <3>7. /\ OptionsSet(image', "env", EnvAt, options.env)
          /\ OptionsSet(image', "config", ConfigAt, options.config)
          /\ Has(image', Home(EnvAt), EnvAt, 16) /\ Has(image', Home(ConfigAt), ConfigAt, 16)
      BY <3>3, <3>4, <3>5, <3>6
    <3> QED BY <1>1, <2>4, <3>2, <3>7 DEF StructsInv
  <2>14. IoInv'
    <3>1. Has(image', k, IoAt, 20)
      BY <2>10, <2>12 DEF Has, OwnFirst, Loads
    <3>2. /\ IoWord(PreopensPtr)' = data'.stack_ptr /\ IoWord(PreopenCnt)' = cnt
          /\ IoWord(StaticIndexPtr)' = static_index_addr /\ IoWord(StaticIndexCnt)' = entries
          /\ IoWord(Flags)' = FlagsOf(options)
      BY <2>11 DEF IoWord
    <3>3. OneTable("preopens", IoWord(PreopensPtr), 4 * IoWord(PreopenCnt))'
      BY <2>7, <3>2 DEF OneTable
    <3> QED BY <1>1, <2>4, <2>5, <2>6, <3>1, <3>2, <3>3 DEF IoInv
  <2>15. SectionInv'
    BY <2>4 DEF SectionInv
  <2> QED BY <1>2, <2>13, <2>14, <2>15 DEF LoadInv
<1> QED BY <1>3, <1>4

\* Passive segments put behind an image.
LEMMA PassiveJoined ==
  ASSUME NEW img, IsSeq(img), NEW p, IsSeq(p), \A k \in 1..Len(p) : ~Loads(p[k])
  PROVE  /\ Len(img) \in Nat /\ Len(img \o p) \in Nat /\ Len(img) <= Len(img \o p)
         /\ \A j \in 1..Len(img) : (img \o p)[j] = img[j]
         /\ \A j \in 1..Len(img \o p) : Loads((img \o p)[j]) => j \in 1..Len(img)
<1>1. PICK S : img \in Seq(S)
  BY DEF IsSeq
<1>2. PICK T : p \in Seq(T)
  BY DEF IsSeq
<1> DEFINE U == S \cup T
           out == img \o p
<1>3. img \in Seq(U) /\ p \in Seq(U)
  BY <1>1, <1>2
<1> HIDE DEF U
<1>4. /\ Len(img) \in Nat /\ Len(p) \in Nat /\ Len(out) = Len(img) + Len(p)
      /\ \A j \in 1..Len(img) : out[j] = img[j]
      /\ \A k \in 1..Len(p) : out[Len(img) + k] = p[k]
  BY <1>3
<1> HIDE DEF out
<1>5. ASSUME NEW j \in 1..Len(out), Loads(out[j]) PROVE j \in 1..Len(img)
  <2> SUFFICES ASSUME j \notin 1..Len(img) PROVE FALSE
    OBVIOUS
  <2> DEFINE k == j - Len(img)
  <2>1. k \in 1..Len(p) /\ j = Len(img) + k
    BY <1>4
  <2> HIDE DEF k
  <2> QED BY <1>4, <1>5, <2>1
<1>6. Len(out) \in Nat /\ Len(img) <= Len(out)
  BY <1>4
<1> QED BY <1>4, <1>5, <1>6 DEF out

\* More segments behind, which are not loaded, change nothing.
Extends(img, out) ==
  /\ Len(img) \in Nat /\ Len(out) \in Nat /\ Len(img) <= Len(out)
  /\ \A j \in 1..Len(img) : out[j] = img[j]

\* What was found in the image is found there still.
LEMMA ExtendsKeeps ==
  ASSUME NEW img, NEW out, Extends(img, out)
  PROVE  /\ \A k, at, len : Has(img, k, at, len) => Has(out, k, at, len)
         /\ \A what, lo, size : BlockAt(img, what, lo, size) => BlockAt(out, what, lo, size)
         /\ \A at : Home(at) \in 1..Len(img) => \A a : Word(out, at, a) = Word(img, at, a)
<1>1. 1..Len(img) \subseteq 1..Len(out) /\ \A j \in 1..Len(img) : out[j] = img[j]
  BY DEF Extends
<1>2. \A k, at, len : Has(img, k, at, len) => Has(out, k, at, len)
  BY <1>1 DEF Has
<1>3. ASSUME NEW what, NEW lo, NEW size, BlockAt(img, what, lo, size)
      PROVE  BlockAt(out, what, lo, size)
  BY <1>1, <1>3 DEF BlockAt
<1>4. \A at : Home(at) \in 1..Len(img) => \A a : Word(out, at, a) = Word(img, at, a)
  BY <1>1 DEF Word
<1> QED BY <1>2, <1>3, <1>4

LEMMA ExtendsOptions ==
  ASSUME NEW img, NEW out, Extends(img, out), NEW at, Home(at) \in 1..Len(img),
         NEW what, NEW o, OptionsSet(img, what, at, o)
  PROVE  OptionsSet(out, what, at, o)
<1>1. \A a : Word(out, at, a) = Word(img, at, a)
  BY ExtendsKeeps
<1>2. \A w, lo, size : BlockAt(img, w, lo, size) => BlockAt(out, w, lo, size)
  BY ExtendsKeeps
<1> QED BY <1>1, <1>2 DEF OptionsSet

LEMMA ExtendsTrans ==
  ASSUME NEW i1, NEW i2, NEW i3, Extends(i1, i2), Extends(i2, i3)
  PROVE  Extends(i1, i3)
<1>1. 1..Len(i1) \subseteq 1..Len(i2) /\ Len(i1) <= Len(i3)
  BY DEF Extends
<1> QED BY <1>1 DEF Extends

LEMMA OrderedJoined ==
  ASSUME NEW img, NEW out, NEW floor, Ordered(img, floor),
         \A j \in 1..Len(img) : out[j] = img[j],
         \A j \in 1..Len(out) : Loads(out[j]) => j \in 1..Len(img)
  PROVE  Ordered(out, floor)
<1>1. \A i \in 1..Len(out) : Loads(out[i]) => Segment(out[i]) /\ floor <= out[i].lo
  BY DEF Ordered
<1>2. ASSUME NEW i \in 1..Len(out), NEW j \in 1..Len(out), i < j, Loads(out[i]), Loads(out[j])
      PROVE  \/ j <= Len(OwnSegments) /\ out[i].lo + out[i].len <= out[j].lo
             \/ Len(OwnSegments) < j /\ out[j].lo + out[j].len <= out[i].lo
  <2>1. i \in 1..Len(img) /\ j \in 1..Len(img) /\ out[i] = img[i] /\ out[j] = img[j]
    BY <1>2
  <2> QED BY <1>2, <2>1 DEF Ordered
<1> QED BY <1>1, <1>2 DEF Ordered

\* Data::finish: the section is put below all that was loaded before.
LEMMA FinishLoadStep ==
  ASSUME IInv, IInv', ImageInv, PassiveInv, LoadInv, FinishData
  PROVE  LoadInv'
<1>1. /\ phase = "finish" /\ phase' \in {"done", "failed"}
      /\ UNCHANGED <<options, static_index_addr>> /\ Finish
  BY DEF FinishData, Finish, Fail
<1>2. static_index_addr' \in Nat /\ OptionsRecord /\ OptionsRecord'
  BY <1>1 DEF LoadInv, OptionsRecord
<1>3. CASE phase' = "failed"
  BY <1>2, <1>3 DEF LoadInv
<1>4. CASE phase' = "done"
  <2> DEFINE ptr == FinishPtr(data)
             s == Section
             begin == Append(image, s)
  <2>1. StructsInv /\ IoInv /\ IsSeq(image)
    BY <1>1 DEF LoadInv, ImageInv
  <2>2. /\ ptr \in Nat /\ ptr <= stack_pointer
        /\ stack_pointer - (data.stack_start - ptr) = ptr
    BY <1>1, FinishBump
  <2>3. /\ stack_pointer' = ptr /\ data' = [data EXCEPT !.stack_ptr = ptr]
        /\ UNCHANGED entries
    <3>1. stack_pointer' = stack_pointer - (data.stack_start - ptr)
            /\ data' = [data EXCEPT !.stack_ptr = ptr] /\ UNCHANGED entries
      BY <1>1, <1>4 DEF Finish, Fail
    <3> HIDE DEF ptr
    <3> QED BY <2>2, <3>1
  <2>4. data.stack_start = stack_pointer /\ stack_pointer \in Nat
    BY <1>1 DEF IInv, TypeOK
  <2> HIDE DEF ptr
  <2>5. /\ data'.stack_ptr = ptr /\ data'.placed = data.placed
        /\ data'.stack_start = data.stack_start
    <3>1. data = [stack_start |-> data.stack_start, stack_ptr |-> data.stack_ptr,
                  strings |-> data.strings, passive |-> data.passive,
                  placed |-> data.placed]
      BY DEF IInv, TypeOK, DataType
    <3>2. [data EXCEPT !.stack_ptr = ptr]
            = [stack_start |-> data.stack_start, stack_ptr |-> ptr,
               strings |-> data.strings, passive |-> data.passive,
               placed |-> data.placed]
      BY <3>1
    <3> QED BY <2>3, <3>2
  <2>6. /\ s = [what |-> "section", lo |-> ptr, len |-> stack_pointer - ptr, word |-> <<>>]
    BY <2>4, <2>5 DEF Section
  <2> HIDE DEF s
  <2>7. /\ Segment(s) /\ Loads(s) /\ s.what = "section" /\ s.lo = ptr
        /\ s.lo + s.len = stack_pointer
    BY <2>2, <2>4, <2>6 DEF Segment, Loads
  <2>8. /\ IsSeq(begin) /\ Len(image) \in Nat /\ Len(begin) = Len(image) + 1
        /\ \A j \in 1..Len(image) : begin[j] = image[j]
        /\ begin[Len(image) + 1] = s
    BY <2>1, SeqAppended
  <2>9. Extends(image, begin)
    <3> HIDE DEF begin
    <3> QED BY <2>8 DEF Extends
  <2>10. /\ Has(image, Len(OwnSegments), IoAt, 20)
         /\ Has(image, Home(EnvAt), EnvAt, 16) /\ Has(image, Home(ConfigAt), ConfigAt, 16)
         /\ Ordered(image, stack_pointer)
         /\ OptionsSet(image, "env", EnvAt, options.env)
         /\ OptionsSet(image, "config", ConfigAt, options.config)
    BY <1>1, <2>1 DEF StructsInv, IoInv
  <2>11. Ordered(begin, ptr)
    <3>1. Len(OwnSegments) <= Len(image)
      BY <2>8, <2>10, OwnShape DEF Has
    <3>2. Ordered(begin, s.lo)
      BY <2>1, <2>4, <2>7, <2>10, <3>1, OrderedAppend
    <3> QED BY <2>7, <3>2
  <2>12. image' = begin \o Passive
    BY <1>4 DEF FinishData, s
  <2> HIDE DEF begin
  <2>13. IsSeq(Passive) /\ \A k \in 1..Len(Passive) : ~Loads(Passive[k])
    <3> DEFINE n == Len(passive_segments)
    <3>1. n \in Nat /\ DOMAIN passive_segments = 1..n
      BY SeqShape DEF PassiveInv
    <3>2. Passive \in [1..n -> {Passive[k] : k \in 1..n}]
      BY <3>1 DEF Passive
    <3> HIDE DEF n
    <3>3. IsSeq(Passive) /\ Len(Passive) = n
      BY <3>1, <3>2, SeqOf
    <3>4. ASSUME NEW k \in 1..n PROVE ~Loads(Passive[k])
      <4>1. Passive[k] = [what |-> "passive", lo |-> 0, len |-> passive_segments[k].len,
                          word |-> [a \in {0} |-> passive_segments[k].entry]]
        BY <3>1 DEF Passive
      <4>2. Passive[k].what = "passive"
        BY <4>1
      <4> QED BY <4>2 DEF Loads
    <3> QED BY <3>3, <3>4
  <2>14. /\ Len(begin) \in Nat /\ Len(image') \in Nat /\ Len(begin) <= Len(image')
         /\ \A j \in 1..Len(begin) : image'[j] = begin[j]
         /\ \A j \in 1..Len(image') : Loads(image'[j]) => j \in 1..Len(begin)
    <3> DEFINE p == Passive
    <3>1. IsSeq(p) /\ \A k \in 1..Len(p) : ~Loads(p[k])
      BY <2>13
    <3>2. image' = begin \o p
      BY <2>12
    <3> HIDE DEF p
    <3> QED BY <2>8, <3>1, <3>2, PassiveJoined
  <2>15. Extends(begin, image')
    BY <2>14 DEF Extends
  <2>16. Extends(image, image')
    BY <2>9, <2>15, ExtendsTrans
  <2>17. Ordered(image', ptr)
    BY <2>11, <2>14, OrderedJoined
  <2>18. /\ Has(image', Len(OwnSegments), IoAt, 20)
         /\ Has(image', Home(EnvAt), EnvAt, 16) /\ Has(image', Home(ConfigAt), ConfigAt, 16)
         /\ OptionsSet(image', "env", EnvAt, options.env)
         /\ OptionsSet(image', "config", ConfigAt, options.config)
    <3>1. Home(EnvAt) \in 1..Len(image) /\ Home(ConfigAt) \in 1..Len(image)
      BY <2>10 DEF Has
    <3> QED BY <2>10, <2>16, <3>1, ExtendsKeeps, ExtendsOptions
  <2>19. StructsInv'
    BY <1>1, <1>4, <2>3, <2>17, <2>18 DEF StructsInv
  <2>20. IoInv'
    <3>1. \A a : IoWord(a)' = IoWord(a)
      <4>1. Len(OwnSegments) \in 1..Len(image)
        BY <2>10 DEF Has
      <4>2. image'[Len(OwnSegments)] = image[Len(OwnSegments)]
        BY <2>16, <4>1 DEF Extends
      <4> QED BY <4>2 DEF IoWord
    <3>2. /\ OneTable("index", static_index_addr, 16 * entries)
          /\ IoWord(PreopensPtr) \in Nat /\ IoWord(PreopenCnt) \in Nat
          /\ OneTable("preopens", IoWord(PreopensPtr), 4 * IoWord(PreopenCnt))
          /\ IoWord(StaticIndexPtr) = static_index_addr
          /\ IoWord(StaticIndexCnt) = entries
          /\ IoWord(Flags) = FlagsOf(options)
      BY <1>1, <2>1 DEF IoInv
    <3>3. OneTable("index", static_index_addr, 16 * entries)'
      BY <1>1, <2>3, <2>5, <3>2 DEF OneTable
    <3>4. OneTable("preopens", IoWord(PreopensPtr), 4 * IoWord(PreopenCnt))'
      <4> DEFINE w == IoWord(PreopensPtr)
                 c == IoWord(PreopenCnt)
      <4>1. IoWord(PreopensPtr)' = w /\ IoWord(PreopenCnt)' = c
        BY <3>1
      <4>2. {a \in data.placed : a.what = "preopens"}
              = {[what |-> "preopens", lo |-> w, hi |-> w + 4 * c]}
        BY <3>2 DEF OneTable
      <4> HIDE DEF w, c
      <4> QED BY <2>5, <4>1, <4>2 DEF OneTable
    <3>5. /\ IoWord(PreopensPtr)' \in Nat /\ IoWord(PreopenCnt)' \in Nat
          /\ IoWord(StaticIndexPtr)' = static_index_addr'
          /\ IoWord(StaticIndexCnt)' = entries'
          /\ IoWord(Flags)' = FlagsOf(options')
      BY <1>1, <2>3, <3>1, <3>2
    <3> QED BY <1>4, <2>18, <3>3, <3>4, <3>5 DEF IoInv
  <2>21. SectionInv'
    <3> DEFINE m == Len(image) + 1
    <3>1. m \in 1..Len(image') /\ image'[m] = s
      BY <2>8, <2>14
    <3>2. ASSUME NEW p \in data'.placed
          PROVE  s.lo <= p.lo /\ p.hi <= s.lo + s.len
      <4>1. data'.stack_ptr <= p.lo /\ p.hi <= data'.stack_start
        BY DEF IInv, DataOK
      <4> QED BY <2>4, <2>5, <2>7, <4>1
    <3> HIDE DEF m
    <3> QED BY <2>7, <3>1, <3>2 DEF SectionInv
  <2> QED BY <1>2, <2>19, <2>20, <2>21 DEF LoadInv
<1> QED BY <1>1, <1>3, <1>4

\* The adapter as it was linked.
LEMMA LoadInitInv == ImageInit /\ ImageInv => LoadInv
<1> SUFFICES ASSUME ImageInit, ImageInv PROVE LoadInv
  OBVIOUS
<1>1. /\ phase = "env" /\ image = OwnSegments /\ stack_pointer = StackTop
      /\ static_index_addr = 0
  BY DEF ImageInit, Init
<1>2. OptionsRecord
  BY DEF ImageInit, OptionsRecord, Option, StdioCfg
<1>3. IsSeq(OwnSegments) /\ OwnFirst(OwnSegments) /\ OwnWhole(OwnSegments)
  BY <1>1 DEF ImageInv, Patching
<1>4. Ordered(OwnSegments, StackTop)
  <2>1. \A i \in 1..Len(OwnSegments) : Segment(OwnSegments[i]) /\ StackTop <= OwnSegments[i].lo
    BY <1>3, OwnShape, LayoutAssumption DEF OwnFirst
  <2>2. \A i, j \in 1..Len(OwnSegments) :
          i < j => OwnSegments[i].lo + OwnSegments[i].len <= OwnSegments[j].lo
    BY OwnShape, LayoutAssumption
  <2>3. \A j \in 1..Len(OwnSegments) : j <= Len(OwnSegments)
    BY OwnShape
  <2> QED BY <2>1, <2>2, <2>3 DEF Ordered
<1>5. ASSUME NEW at \in {EnvAt, ConfigAt}
      PROVE  Initial(OwnSegments, at) /\ Has(OwnSegments, Home(at), at, 16)
  <2>1. /\ at \in Nat /\ Home(at) \in 1..Len(OwnSegments)
        /\ OwnSegments[Home(at)].lo <= at
        /\ at + 16 <= OwnSegments[Home(at)].lo + OwnSegments[Home(at)].len
    BY HomeHolds
  <2>2. OwnSegments[Home(at)].lo \in Nat /\ OwnSegments[Home(at)].len \in Nat
    BY <1>3, <2>1 DEF OwnFirst, Segment
  <2>3. Holds(OwnSegments[Home(at)], at)
    BY <2>1, <2>2 DEF Holds
  <2>4. Initial(OwnSegments, at)
    BY <2>1, <2>3, OwnShape, StaticsAssumption DEF Initial, Word
  <2> QED BY <1>3, <2>4, OwnHas
<1>6. StructsInv
  BY <1>1, <1>4, <1>5 DEF StructsInv
<1> QED BY <1>1, <1>2, <1>6 DEF LoadInv, IoInv, SectionInv

LEMMA LoadStep ==
  IInv /\ IInv' /\ ImageInv /\ ImageInv' /\ PassiveInv /\ LoadInv /\ [ImageNext]_avars => LoadInv'
<1> SUFFICES ASSUME IInv, IInv', ImageInv, ImageInv', PassiveInv, LoadInv, [ImageNext]_avars
             PROVE  LoadInv'
  OBVIOUS
<1>1. CASE CreateEnvVirt \/ CreateConfigVirt
  BY <1>1, OptionsLoadStep
<1>2. CASE NewIo
  BY <1>2, NewIoLoadStep
<1>3. CASE VisitEntry
  BY <1>3, VisitLoadStep
<1>4. CASE WriteStaticIndex
  BY <1>4, IndexLoadStep
<1>5. CASE PatchIo
  BY <1>5, PatchIoLoadStep
<1>6. CASE FinishData
  BY <1>6, FinishLoadStep
<1>7. CASE UNCHANGED avars
  BY <1>7 DEF avars, vars, ivars, LoadInv, OptionsRecord, StructsInv, IoInv, SectionInv,
              NoTable, OneTable, IoWord
<1> QED BY <1>1, <1>2, <1>3, <1>4, <1>5, <1>6, <1>7
        DEF ImageNext, ImageStep, VisitEntry

LEMMA LoadInvariance == ImageSpec => [](IInv /\ ImageInv /\ LoadInv)
<1>1. ImageInit => ImageInv
  BY ImageInitInv
<1> QED BY <1>1, ImageInvariance, LoadInitInv, LoadStep, PTL DEF ImageSpec

\* A byte of a segment is loaded from that segment: no other has it.
LEMMA LastIs ==
  ASSUME IsSeq(image), NEW floor, Ordered(image, floor),
         NEW k \in 1..Len(image), Loads(image[k]), NEW a \in Nat, Holds(image[k], a)
  PROVE  Last(a) = k /\ Last(a) # 0 /\ Loaded(a) = Field(image[k], a)
<1>1. DOMAIN image = 1..Len(image) /\ Len(image) \in Nat
  BY SeqShape
<1> DEFINE over == {i \in DOMAIN image : Loads(image[i]) /\ Holds(image[i], a)}
<1>2. ASSUME NEW j \in over PROVE j = k
  <2>1. j \in 1..Len(image) /\ Loads(image[j]) /\ Holds(image[j], a)
    BY <1>1
  <2>2. /\ image[j].lo \in Nat /\ image[j].len \in Nat
        /\ image[k].lo \in Nat /\ image[k].len \in Nat
    BY <2>1 DEF Ordered, Segment
  <2>3. /\ image[j].lo <= a /\ a < image[j].lo + image[j].len
        /\ image[k].lo <= a /\ a < image[k].lo + image[k].len
    BY <2>1 DEF Holds
  <2>4. /\ ~(image[j].lo + image[j].len <= image[k].lo)
        /\ ~(image[k].lo + image[k].len <= image[j].lo)
    BY <2>2, <2>3
  <2>5. ~(j < k) /\ ~(k < j)
    BY <2>1, <2>4 DEF Ordered
  <2> QED BY <1>1, <2>1, <2>5
<1>3. over = {k}
  BY <1>1, <1>2
<1> HIDE DEF over
<1>4. Last(a) = k
  <2>1. Last(a) = IF over = {} THEN 0 ELSE CHOOSE i \in over : \A j \in over : j <= i
    BY DEF Last, over
  <2>2. k \in over /\ \A i \in over : i = k
    BY <1>3
  <2>3. k <= k
    BY <1>1
  <2>4. (CHOOSE i \in over : \A j \in over : j <= i) = k
    BY <2>2, <2>3
  <2> QED BY <2>1, <2>2, <2>4
<1>5. k # 0
  BY <1>1
<1> QED BY <1>4, <1>5 DEF Loaded

\* What the adapter reads in env or config is what was configured.
LEMMA OptionsAreLoaded ==
  ASSUME IsSeq(image), NEW floor, Ordered(image, floor),
         NEW at \in {EnvAt, ConfigAt}, Has(image, Home(at), at, 16),
         NEW what, NEW o, OptionsSet(image, what, at, o)
  PROVE  OptionsLoaded(what, at, o)
<1>1. /\ Home(at) \in 1..Len(image) /\ Loads(image[Home(at)])
      /\ image[Home(at)].lo <= at /\ at + 16 <= image[Home(at)].lo + image[Home(at)].len
  BY DEF Has
<1>2. at \in Nat /\ image[Home(at)].lo \in Nat /\ image[Home(at)].len \in Nat
  BY <1>1, HomeHolds DEF Ordered, Segment
<1>3. ASSUME NEW a \in StructFields(at) PROVE Loaded(a) = Word(image, at, a)
  <2>1. a \in Nat /\ at <= a /\ a < at + 16
    BY <1>2 DEF StructFields, HostFallback, HostFallbackAllow, FieldCnt, AllowOrDenyCnt,
                FieldDataPtr
  <2>2. Holds(image[Home(at)], a)
    BY <1>1, <1>2, <2>1 DEF Holds
  <2> QED BY <1>1, <2>1, <2>2, LastIs DEF Word
<1>4. ASSUME Strs(o) > 0
      PROVE  LET s == image[Last(Loaded(FieldDataPtr(at)))]
             IN  /\ s.what = what /\ s.lo = Loaded(FieldDataPtr(at))
                 /\ s.len >= 4 * Strs(o)
  <2> DEFINE ptr == Loaded(FieldDataPtr(at))
  <2>1. ptr = Word(image, at, FieldDataPtr(at))
    BY <1>3 DEF StructFields
  <2>2. BlockAt(image, what, ptr, 4 * Strs(o))
    BY <1>4, <2>1 DEF OptionsSet
  <2> HIDE DEF ptr
  <2>3. PICK j \in 1..Len(image) :
          /\ Loads(image[j]) /\ image[j].what = what
          /\ image[j].lo = ptr /\ image[j].len >= 4 * Strs(o) /\ image[j].len > 0
    BY <2>2 DEF BlockAt
  <2>4. image[j].lo \in Nat /\ image[j].len \in Nat
    BY <2>3 DEF Ordered, Segment
  <2>5. ptr \in Nat /\ Holds(image[j], ptr)
    BY <2>3, <2>4 DEF Holds
  <2>6. Last(ptr) = j
    BY <2>3, <2>5, LastIs
  <2> QED BY <2>3, <2>6 DEF ptr
<1>5. /\ Loaded(HostFallback(at)) = Word(image, at, HostFallback(at))
      /\ Loaded(HostFallbackAllow(at)) = Word(image, at, HostFallbackAllow(at))
      /\ Loaded(FieldCnt(at)) = Word(image, at, FieldCnt(at))
      /\ Loaded(AllowOrDenyCnt(at)) = Word(image, at, AllowOrDenyCnt(at))
  BY <1>3 DEF StructFields
<1> QED BY <1>4, <1>5 DEF OptionsLoaded, OptionsSet

\* Each flag is a bit of its own.
LEMMA FlagsTell ==
  ASSUME OptionsRecord
  PROVE  /\ HasFlag(FlagsOf(options), FLAGS_HOST_PASSTHROUGH) <=> options.passthrough
         /\ HasFlag(FlagsOf(options), FLAGS_HOST_PREOPENS) <=> options.host_preopens
         /\ \A stream \in StdStreams :
              AllowCfg(FlagsOf(options), stream) = options.stdio[stream]
<1> DEFINE in == StdioFlag(options, "stdin")
           out == StdioFlag(options, "stdout")
           err == StdioFlag(options, "stderr")
           pre == IF options.host_preopens THEN 64 ELSE 0
           pass == IF options.passthrough THEN 128 ELSE 0
           flags == FlagsOf(options)
<1>1. /\ options.host_preopens \in BOOLEAN /\ options.passthrough \in BOOLEAN
      /\ options.stdio["stdin"] \in StdioCfg /\ options.stdio["stdout"] \in StdioCfg
      /\ options.stdio["stderr"] \in StdioCfg
  BY DEF OptionsRecord, StdStreams
<1>2. /\ in \in {0, 1, 8} /\ (in = 1 <=> options.stdio["stdin"] = "allow")
      /\ (in = 8 <=> options.stdio["stdin"] = "ignore")
  BY <1>1 DEF StdioFlag, StdioCfg, FLAGS_ENABLE, FLAGS_IGNORE
<1>3. /\ out \in {0, 2, 16} /\ (out = 2 <=> options.stdio["stdout"] = "allow")
      /\ (out = 16 <=> options.stdio["stdout"] = "ignore")
  BY <1>1 DEF StdioFlag, StdioCfg, FLAGS_ENABLE, FLAGS_IGNORE
<1>4. /\ err \in {0, 4, 32} /\ (err = 4 <=> options.stdio["stderr"] = "allow")
      /\ (err = 32 <=> options.stdio["stderr"] = "ignore")
  BY <1>1 DEF StdioFlag, StdioCfg, FLAGS_ENABLE, FLAGS_IGNORE
<1>5. /\ pre \in {0, 64} /\ (pre = 64 <=> options.host_preopens)
      /\ pass \in {0, 128} /\ (pass = 128 <=> options.passthrough)
  BY <1>1
<1>6. flags = in + out + err + pre + pass
  BY DEF FlagsOf, FLAGS_HOST_PREOPENS, FLAGS_HOST_PASSTHROUGH
<1> HIDE DEF in, out, err, pre, pass, flags
<1>7. /\ (flags % 2 = 1 <=> in = 1) /\ ((flags \div 1) % 2 = 1 <=> in = 1)
      /\ ((flags \div 8) % 2 = 1 <=> in = 8)
  BY <1>2, <1>3, <1>4, <1>5, <1>6
<1>8. /\ ((flags \div 2) % 2 = 1 <=> out = 2) /\ ((flags \div 16) % 2 = 1 <=> out = 16)
  BY <1>2, <1>3, <1>4, <1>5, <1>6
<1>9. /\ ((flags \div 4) % 2 = 1 <=> err = 4) /\ ((flags \div 32) % 2 = 1 <=> err = 32)
  BY <1>2, <1>3, <1>4, <1>5, <1>6
<1>10. /\ ((flags \div 64) % 2 = 1 <=> pre = 64) /\ ((flags \div 128) % 2 = 1 <=> pass = 128)
  BY <1>2, <1>3, <1>4, <1>5, <1>6
<1>11. /\ HasFlag(flags, FLAGS_HOST_PASSTHROUGH) <=> options.passthrough
       /\ HasFlag(flags, FLAGS_HOST_PREOPENS) <=> options.host_preopens
  BY <1>5, <1>10 DEF HasFlag, FLAGS_HOST_PASSTHROUGH, FLAGS_HOST_PREOPENS
<1>12. AllowCfg(flags, "stdin") = options.stdio["stdin"]
  BY <1>1, <1>2, <1>7 DEF AllowCfg, HasFlag, FLAGS_ENABLE, FLAGS_IGNORE, StdioCfg
<1>13. AllowCfg(flags, "stdout") = options.stdio["stdout"]
  BY <1>1, <1>3, <1>8 DEF AllowCfg, HasFlag, FLAGS_ENABLE, FLAGS_IGNORE, StdioCfg
<1>14. AllowCfg(flags, "stderr") = options.stdio["stderr"]
  BY <1>1, <1>4, <1>9 DEF AllowCfg, HasFlag, FLAGS_ENABLE, FLAGS_IGNORE, StdioCfg
<1> QED BY <1>11, <1>12, <1>13, <1>14 DEF StdStreams, flags

\* The table that is found, when there is one.
LEMMA TableIs ==
  ASSUME NEW what, NEW lo, NEW size, OneTable(what, lo, size)
  PROVE  PlacedAs(data, what) = [what |-> what, lo |-> lo, hi |-> lo + size]
<1> DEFINE x == [what |-> what, lo |-> lo, hi |-> lo + size]
<1>1. {a \in data.placed : a.what = what} = {x}
  BY DEF OneTable
<1> HIDE DEF x
<1>2. PlacedAs(data, what) = x
  BY <1>1, PlacedIs
<1> QED BY <1>2 DEF x

\* What the adapter reads in io are its two tables.
LEMMA IoIsLoaded ==
  ASSUME IInv, ImageInv, LoadInv, phase = "done"
  PROVE  IoLoaded
<1> DEFINE k == Len(OwnSegments)
           preopens == PlacedAs(data, "preopens")
           index == PlacedAs(data, "index")
<1>1. /\ IsSeq(image) /\ Ordered(image, stack_pointer) /\ Has(image, k, IoAt, 20)
      /\ OneTable("index", static_index_addr, 16 * entries)
      /\ OneTable("preopens", IoWord(PreopensPtr), 4 * IoWord(PreopenCnt))
      /\ IoWord(PreopensPtr) \in Nat /\ IoWord(PreopenCnt) \in Nat
      /\ IoWord(StaticIndexPtr) = static_index_addr /\ IoWord(StaticIndexCnt) = entries
      /\ IoWord(Flags) = FlagsOf(options)
      /\ SectionInv /\ OptionsRecord /\ static_index_addr \in Nat /\ entries \in Nat
  BY DEF ImageInv, LoadInv, StructsInv, IoInv, IInv, TypeOK
<1>2. /\ k \in 1..Len(image) /\ Loads(image[k])
      /\ image[k].lo <= IoAt /\ IoAt + 20 <= image[k].lo + image[k].len
  BY <1>1 DEF Has
<1>3. IoAt \in Nat /\ image[k].lo \in Nat /\ image[k].len \in Nat
  BY <1>1, <1>2, LastOwn DEF Ordered, Segment
<1>4. ASSUME NEW a \in {PreopenCnt, PreopensPtr, StaticIndexCnt, StaticIndexPtr, Flags}
      PROVE  Loaded(a) = IoWord(a)
  <2>1. a \in Nat /\ IoAt <= a /\ a < IoAt + 20
    BY <1>3 DEF PreopenCnt, PreopensPtr, StaticIndexCnt, StaticIndexPtr, Flags
  <2>2. Holds(image[k], a)
    BY <1>2, <1>3, <2>1 DEF Holds
  <2>3. Loaded(a) = Field(image[k], a)
    <3> HIDE DEF k
    <3> QED BY <1>1, <1>2, <2>1, <2>2, LastIs
  <2> QED BY <2>3 DEF IoWord
<1>5. /\ preopens.lo = IoWord(PreopensPtr)
      /\ preopens.hi = IoWord(PreopensPtr) + 4 * IoWord(PreopenCnt)
  <2>1. preopens = [what |-> "preopens", lo |-> IoWord(PreopensPtr),
                    hi |-> IoWord(PreopensPtr) + 4 * IoWord(PreopenCnt)]
    BY <1>1, TableIs
  <2> QED BY <2>1
<1>6. index.lo = static_index_addr /\ index.hi = static_index_addr + 16 * entries
  <2>1. index = [what |-> "index", lo |-> static_index_addr,
                 hi |-> static_index_addr + 16 * entries]
    BY <1>1, TableIs
  <2> QED BY <2>1
<1> HIDE DEF preopens, index, k
<1>7. Loaded(PreopensPtr) = preopens.lo /\ Loaded(PreopenCnt) * 4 = preopens.hi - preopens.lo
  <2>1. ASSUME NEW p \in Nat, NEW n \in Nat PROVE n * 4 = (p + 4 * n) - p
    OBVIOUS
  <2> QED BY <1>1, <1>4, <1>5, <2>1
<1>8. Loaded(StaticIndexPtr) = index.lo /\ Loaded(StaticIndexCnt) * 16 = index.hi - index.lo
  <2>1. ASSUME NEW p \in Nat, NEW n \in Nat PROVE n * 16 = (p + 16 * n) - p
    OBVIOUS
  <2> QED BY <1>1, <1>4, <1>6, <2>1
<1>9. /\ HasFlag(Loaded(Flags), FLAGS_HOST_PASSTHROUGH) <=> options.passthrough
      /\ HasFlag(Loaded(Flags), FLAGS_HOST_PREOPENS) <=> options.host_preopens
      /\ \A stream \in StdStreams :
           AllowCfg(Loaded(Flags), stream) = options.stdio[stream]
  <2>1. Loaded(Flags) = FlagsOf(options)
    BY <1>1, <1>4
  <2> QED BY <1>1, <2>1, FlagsTell
<1>10. ASSUME NEW p \in data.placed, NEW a \in p.lo..(p.hi - 1)
       PROVE  Last(a) # 0 /\ image[Last(a)].what = "section"
  <2>1. PICK i \in 1..Len(image) :
          /\ Loads(image[i]) /\ image[i].what = "section"
          /\ image[i].lo <= p.lo /\ p.hi <= image[i].lo + image[i].len
    BY <1>1 DEF SectionInv
  <2>2. p.lo \in Nat /\ p.hi \in Nat /\ image[i].lo \in Nat /\ image[i].len \in Nat
    BY <1>1, <2>1 DEF IInv, TypeOK, DataType, Placement, Ordered, Segment
  <2>3. a \in Nat /\ Holds(image[i], a)
    BY <2>1, <2>2 DEF Holds
  <2>4. Last(a) = i /\ Last(a) # 0
    BY <1>1, <2>1, <2>3, LastIs
  <2> QED BY <2>1, <2>4
<1> QED BY <1>7, <1>8, <1>9, <1>10 DEF IoLoaded, preopens, index

\* Whatever the adapter's layout, the options and the virtual filesystem, the
\* adapter that is loaded finds in env, config and io what was configured, and
\* every table, name and file at the pointer that was written for it.
THEOREM StructsAreLoaded == ImageSpec => []StructsLoaded
<1>1. IInv /\ ImageInv /\ LoadInv => StructsLoaded
  <2> SUFFICES ASSUME IInv, ImageInv, LoadInv, phase = "done"
               PROVE  /\ OptionsLoaded("env", EnvAt, options.env)
                      /\ OptionsLoaded("config", ConfigAt, options.config)
                      /\ IoLoaded
                      /\ SegmentsApart
    BY DEF StructsLoaded
  <2>1. IsSeq(image) /\ StructsInv
    BY DEF ImageInv, LoadInv
  <2>2. OptionsLoaded("env", EnvAt, options.env)
    BY <2>1, OptionsAreLoaded DEF StructsInv
  <2>3. OptionsLoaded("config", ConfigAt, options.config)
    BY <2>1, OptionsAreLoaded DEF StructsInv
  <2>4. SegmentsApart
    <3>1. DOMAIN image = 1..Len(image) /\ Len(image) \in Nat
      BY <2>1, SeqShape
    <3> SUFFICES ASSUME NEW i \in 1..Len(image), NEW j \in 1..Len(image), i # j,
                        Loads(image[i]), Loads(image[j])
                 PROVE  \/ image[i].lo + image[i].len <= image[j].lo
                        \/ image[j].lo + image[j].len <= image[i].lo
      BY <3>1 DEF SegmentsApart
    <3>2. i < j \/ j < i
      BY <3>1
    <3> QED BY <2>1, <3>2 DEF StructsInv, Ordered
  <2> QED BY <2>2, <2>3, <2>4, IoIsLoaded
<1> QED BY <1>1, LoadInvariance, PTL

=============================================================================
