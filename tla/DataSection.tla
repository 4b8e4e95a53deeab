---------------------------- MODULE DataSection ----------------------------
(***************************************************************************)
(* The memory layout of a virtualized adapter: how WasiVirt::finish places *)
(* the environment and config field data (create_env_virt and              *)
(* create_config_virt) and the data section of the virtual filesystem      *)
(* (struct Data of src/data.rs, driven by create_io_virt) at the top of    *)
(* the adapter's stack, and lowers __stack_pointer below them.             *)
(*                                                                         *)
(* Addresses are natural numbers.  The contents of the bytes are left out: *)
(* what matters is which byte ranges are handed out, that no two of them   *)
(* overlap, and that the stack of the running adapter, which grows down    *)
(* from __stack_pointer, never reaches one.                                *)
(***************************************************************************)
EXTENDS Integers

CONSTANTS
  StackTop,     (* the adapter's initial __stack_pointer                   *)
  Strings,      (* the file names and host paths of the virtual filesystem *)
  StrLen,       (* their lengths in bytes                                  *)
  FileLens,     (* the lengths the virtual files may have                  *)
  Cutoff,       (* passive_cutoff: a longer file is a passive segment      *)
  MaxWords,     (* bound: 4-byte words of one field data section           *)
  MaxEntries    (* bound: entries of the static index                      *)

\* wasm-ld aligns the initial stack pointer; the code relies on it.
ASSUME StackTopAssumption == StackTop \in Nat /\ (StackTop % 8) = 0
ASSUME StrLenAssumption == StrLen \in [Strings -> Nat]
ASSUME FileLensAssumption == FileLens \subseteq Nat /\ Cutoff \in Nat
ASSUME BoundsAssumption == MaxWords \in Nat /\ MaxEntries \in Nat

VARIABLES
  phase,          (* where WasiVirt::finish is                              *)
  stack_pointer,  (* the module's __stack_pointer global                    *)
  segments,       (* the active data segments added at the stack's top      *)
  data,           (* the struct Data, with the history of its allocations   *)
  entries         (* static_fs_data.len()                                   *)

vars == <<phase, stack_pointer, segments, data, entries>>

Phase == {"env", "config", "io", "linearize", "preopens", "finish",
          "done", "failed"}
What == {"string", "bytes", "index", "preopens"}

Fail == phase' = "failed" /\ UNCHANGED <<stack_pointer, segments, data, entries>>

(***************************************************************************)
(* bump_stack_global refuses an unaligned offset and one beyond the stack. *)
(***************************************************************************)
CanBump(offset) == (offset % 8) = 0 /\ offset <= stack_pointer

FieldDataLen(words) ==
  IF ((4 * words) % 8) # 0 THEN 4 * words + 4 ELSE 4 * words

(***************************************************************************)
(* create_env_virt, then create_config_virt: words of overrides and lists, *)
(* padded to 8 bytes, in a segment of their own unless there are none.     *)
(***************************************************************************)
FieldData(from, to) ==
  /\ phase = from
  /\ \E words \in 0..MaxWords :
       LET len == FieldDataLen(words)
       IN  IF len = 0
           THEN phase' = to /\ UNCHANGED <<stack_pointer, segments, data, entries>>
           ELSE IF ~CanBump(len) THEN Fail
           ELSE /\ stack_pointer' = stack_pointer - len
                /\ segments' = segments \cup
                     {[lo |-> stack_pointer - len, hi |-> stack_pointer]}
                /\ phase' = to
                /\ UNCHANGED <<data, entries>>

EnvFieldData == FieldData("env", "config")
ConfigFieldData == FieldData("config", "io")

(***************************************************************************)
(* The struct Data.  placed is a history of the ranges stack_alloc handed  *)
(* out.                                                                    *)
(***************************************************************************)
Empty(start) ==
  [stack_start |-> start, stack_ptr |-> start, strings |-> [s \in {} |-> 0],
   passive |-> 0, placed |-> {}]

\* Mutant: padding in the wrong direction.
NewPtrPaddedUp(ptr, len, align) ==
  LET new == ptr - len
  IN  IF (new % align) # 0 THEN new + (align - (new % align)) ELSE new

\* The pointer after an allocation.  The padding is computed from the pointer
\* before it, as in the code.
NewPtr(ptr, len, align) ==
  LET new == ptr - len
  IN  IF (new % align) # 0 THEN new - (align - (ptr % align)) ELSE new

HasRoom(d, len, align) == len + align <= d.stack_ptr

StackAlloc(d, what, len, align) ==
  LET lo == NewPtr(d.stack_ptr, len, align)
  IN  [d EXCEPT !.stack_ptr = lo,
                !.placed = @ \cup {[what |-> what, lo |-> lo, hi |-> lo + len]}]

\* Mutant: no nul is counted.
StringLenBare(s) == StrLen[s]

Known(d, s) == s \in DOMAIN d.strings
StringLen(s) == StrLen[s] + 1

\* Data::string: intern s, with a terminating nul.
StringRoom(d, s) == Known(d, s) \/ HasRoom(d, StringLen(s), 1)
WithString(d, s) ==
  IF Known(d, s) THEN d
  ELSE LET e == StackAlloc(d, "string", StringLen(s), 1)
       IN  [e EXCEPT !.strings = [t \in DOMAIN d.strings \cup {s} |->
                                    IF t = s THEN e.stack_ptr
                                    ELSE d.strings[t]]]

\* Mutant: the section starts at a stack global read before the env data.
NewDataStale ==
  /\ phase = "io"
  /\ phase' = "linearize"
  /\ data' = Empty(StackTop)
  /\ UNCHANGED <<stack_pointer, segments, entries>>

\* Data::new(get_stack_global(module)).
NewData ==
  /\ phase = "io"
  /\ phase' = "linearize"
  /\ data' = Empty(stack_pointer)
  /\ UNCHANGED <<stack_pointer, segments, entries>>

(***************************************************************************)
(* One visit of the linearization: the entry's name, then what its kind    *)
(* stores.  An entry is pushed only when every allocation succeeded.       *)
(***************************************************************************)
Push(room, d) ==
  IF ~room THEN Fail
  ELSE /\ data' = d
       /\ entries' = entries + 1
       /\ UNCHANGED <<phase, stack_pointer, segments>>

Visiting == phase = "linearize" /\ entries < MaxEntries

VisitDir(name) ==
  /\ Visiting
  /\ Push(StringRoom(data, name), WithString(data, name))

\* RuntimeDir and RuntimeFile store a host path.
VisitRuntime(name, path) ==
  LET d == WithString(data, name)
  IN  /\ Visiting
      /\ Push(StringRoom(data, name) /\ StringRoom(d, path), WithString(d, path))

\* A file above the cutoff is a passive segment, up to it bytes on the stack.
VisitFile(name, len) ==
  LET d == WithString(data, name)
  IN  /\ Visiting
      /\ IF len > Cutoff
         THEN Push(StringRoom(data, name), [d EXCEPT !.passive = @ + 1])
         ELSE Push(StringRoom(data, name) /\ HasRoom(d, len, 1),
                   StackAlloc(d, "bytes", len, 1))

(***************************************************************************)
(* Data::write_slice of cnt elements of the given size, all of align 4:    *)
(* the static index, then the preopen indices, of which there are some as  *)
(* soon as there is an entry.                                              *)
(***************************************************************************)
WriteSlice(what, cnt, size, to) ==
  IF ~HasRoom(data, cnt * size, 4) THEN Fail
  ELSE /\ data' = StackAlloc(data, what, cnt * size, 4)
       /\ phase' = to
       /\ UNCHANGED <<stack_pointer, segments, entries>>

WriteIndex ==
  /\ phase = "linearize"
  /\ WriteSlice("index", entries, 16, "preopens")

WritePreopens ==
  /\ phase = "preopens"
  /\ \E cnt \in 0..entries :
       (cnt = 0 <=> entries = 0) /\ WriteSlice("preopens", cnt, 4, "finish")

\* Mutant: no rounding.
FinishPtrUnrounded(d) == d.stack_ptr

\* The pointer with the section rounded to 8 bytes.
FinishPtr(d) ==
  LET rem == (d.stack_start - d.stack_ptr) % 8
  IN  IF rem # 0 THEN d.stack_ptr - (8 - rem) ELSE d.stack_ptr

\* Data::finish: lower the stack pointer below the section and embed it as one
\* active segment.
Finish ==
  LET ptr == FinishPtr(data)
      offset == data.stack_start - ptr
  IN  /\ phase = "finish"
      /\ IF ~CanBump(offset) THEN Fail
         ELSE /\ stack_pointer' = stack_pointer - offset
              /\ segments' = segments \cup {[lo |-> ptr, hi |-> data.stack_start]}
              /\ data' = [data EXCEPT !.stack_ptr = ptr]
              /\ phase' = "done"
              /\ UNCHANGED entries

Init ==
  /\ phase = "env"
  /\ stack_pointer = StackTop
  /\ segments = {}
  /\ data = Empty(0)
  /\ entries = 0

Next ==
  \/ EnvFieldData
  \/ ConfigFieldData
  \/ NewData
  \/ \E name \in Strings : VisitDir(name)
  \/ \E name, path \in Strings : VisitRuntime(name, path)
  \/ \E name \in Strings, len \in FileLens : VisitFile(name, len)
  \/ WriteIndex
  \/ WritePreopens
  \/ Finish

Spec == Init /\ [][Next]_vars

-----------------------------------------------------------------------------
(***************************************************************************)
(* Properties.                                                             *)
(***************************************************************************)

Disjoint(R) == \A a, b \in R : a = b \/ a.hi <= b.lo \/ b.hi <= a.lo

Region == [lo : Nat, hi : Nat]
Placement == [what : What, lo : Nat, hi : Nat]

DataType(d) ==
  /\ d = [stack_start |-> d.stack_start, stack_ptr |-> d.stack_ptr,
          strings |-> d.strings, passive |-> d.passive, placed |-> d.placed]
  /\ d.stack_start \in Nat /\ d.stack_ptr \in Nat /\ d.passive \in Nat
  /\ DOMAIN d.strings \subseteq Strings
  /\ d.strings = [s \in DOMAIN d.strings |-> d.strings[s]]
  /\ \A s \in DOMAIN d.strings : d.strings[s] \in Nat
  /\ d.placed \subseteq Placement

TypeOK ==
  /\ phase \in Phase
  /\ stack_pointer \in Nat
  /\ segments \subseteq Region
  /\ DataType(data)
  /\ entries \in Nat

\* No two of the byte ranges that Data hands out overlap, whatever the order
\* and the sizes of the allocations and their padding: a name, a file, the
\* static index and the preopen table never overwrite one another.
PlacedDisjoint ==
  /\ \A a \in data.placed : data.stack_ptr <= a.lo /\ a.hi <= data.stack_start
  /\ Disjoint(data.placed)

\* An interned string's pointer still designates the whole string and its
\* nul, so sharing one pointer between entries is sound.
StringsPlaced ==
  \A s \in DOMAIN data.strings :
    [what |-> "string", lo |-> data.strings[s],
     hi |-> data.strings[s] + StrLen[s] + 1] \in data.placed

\* The stack of the running adapter grows down from __stack_pointer: every
\* data segment put on the stack lies above it, the segments do not overlap,
\* and the pointer keeps the 8-byte alignment bump_stack_global insists on.
StackBelowData ==
  /\ (stack_pointer % 8) = 0
  /\ \A r \in segments :
       stack_pointer <= r.lo /\ r.lo <= r.hi /\ r.hi <= StackTop
  /\ Disjoint(segments)

\* Once finish has run, every range that a pointer in the adapter's data may
\* designate is inside an embedded segment.
AllEmbedded ==
  phase = "done" =>
    \A a \in data.placed : \E r \in segments : r.lo <= a.lo /\ a.hi <= r.hi

\* Data::finish cannot fail: the section it embeds always has a size that
\* bump_stack_global accepts, since Data never allocated beyond the stack.
FinishSucceeds == [][phase = "finish" => phase' = "done"]_vars

\* A pointer returned for a string is the one every later entry gets.
StringsStable ==
  [][phase = "linearize" =>
     \A s \in DOMAIN data.strings :
       s \in DOMAIN data'.strings /\ data'.strings[s] = data.strings[s]]_vars

\* The preopen table is read by the adapter as a slice of usize: it is always
\* aligned, though stack_alloc pads from the wrong pointer, because the index
\* allocated just before it leaves the pointer even.
PreopensAligned ==
  \A a \in data.placed : a.what = "preopens" => (a.lo % 4) = 0

\* What WasmEncode::align() asks of stack_alloc for both slices.
SlicesAligned ==
  \A a \in data.placed : a.what \in {"index", "preopens"} => (a.lo % 4) = 0

=============================================================================
