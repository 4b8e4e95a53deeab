---------------------------- MODULE AdapterImage ----------------------------
(***************************************************************************)
(* DataSection says where finish places what it adds.  This module follows *)
(* the data segments of the adapter themselves: which segment the three    *)
(* exported structs env, config and io are patched in                      *)
(* (get_active_data_segment), what create_env_virt, create_config_virt and *)
(* create_io_virt write there, and what the adapter finds at those         *)
(* addresses when its segments are loaded; and how Data::finish makes the  *)
(* passive segments reachable through passive_alloc.                       *)
(*                                                                         *)
(* Every step is a step of DataSection with its effect on the segments.    *)
(***************************************************************************)
EXTENDS DataSection, Sequences

CONSTANTS
  OwnSegments,    (* the adapter's segments: [lo, len, word], see below     *)
  EnvAt,          (* the addresses exported as env, config and io           *)
  ConfigAt,
  IoAt,
  EnvOptions,     (* what may be configured: [host, cnt, list], see Strs    *)
  ConfigOptions

(***************************************************************************)
(* A segment is [what, lo, len, word]: word has the fields of structs that *)
(* lie in it, by their addresses; every other byte is left out.  A passive *)
(* segment has no address.                                                 *)
(***************************************************************************)
SegmentKinds == {"own", "env", "config", "section", "passive"}
Loads(s) == s.what # "passive"
Holds(s, a) == s.lo <= a /\ a < s.lo + s.len

\* The structs Env and Config: two bools and three words; Io: five words.
HostFallback(at) == at
HostFallbackAllow(at) == at + 1
FieldCnt(at) == at + 4
AllowOrDenyCnt(at) == at + 8
FieldDataPtr(at) == at + 12
Width(at, a) == IF a - at < 4 THEN 1 ELSE 4

PreopenCnt == IoAt
PreopensPtr == IoAt + 4
StaticIndexCnt == IoAt + 8
StaticIndexPtr == IoAt + 12
Flags == IoAt + 16

\* As the adapter is linked: the stack first, then the segments of the statics
\* with an initial value, in order and apart, and behind the last of them io,
\* which is all zero.
ASSUME LayoutAssumption ==
  /\ OwnSegments \in Seq({OwnSegments[i] : i \in DOMAIN OwnSegments})
  /\ \A i \in DOMAIN OwnSegments :
       LET s == OwnSegments[i]
       IN  /\ s = [what |-> "own", lo |-> s.lo, len |-> s.len, word |-> s.word]
           /\ s.lo \in Nat /\ s.len \in Nat \ {0}
           /\ s.lo >= StackTop /\ (s.lo % 4) = 0 /\ s.lo + s.len <= IoAt
  /\ \A i, j \in DOMAIN OwnSegments :
       i < j => OwnSegments[i].lo + OwnSegments[i].len <= OwnSegments[j].lo
  /\ IoAt \in Nat /\ (IoAt % 4) = 0
  /\ \A at \in {EnvAt, ConfigAt} :
       at \in Nat /\ \E i \in DOMAIN OwnSegments :
         OwnSegments[i].lo <= at /\ at + 16 <= OwnSegments[i].lo + OwnSegments[i].len

\* The field at an address, as a segment has it.
Field(s, a) == IF a \in DOMAIN s.word THEN s.word[a] ELSE 0

\* The statics env and config: apart, and as their source initializes them, with
\* host_fallback set and nothing else.
ASSUME StaticsAssumption ==
  /\ EnvAt + 16 <= ConfigAt \/ ConfigAt + 16 <= EnvAt
  /\ \A at \in {EnvAt, ConfigAt}, i \in DOMAIN OwnSegments :
       Holds(OwnSegments[i], at) =>
         /\ Field(OwnSegments[i], HostFallback(at)) = 1
         /\ Field(OwnSegments[i], HostFallbackAllow(at)) = 0
         /\ Field(OwnSegments[i], AllowOrDenyCnt(at)) = 0

Option == [host : {"all", "none", "allow", "deny"}, cnt : Nat, list : Nat]
ASSUME OptionsAssumption == EnvOptions \subseteq Option /\ ConfigOptions \subseteq Option

VARIABLES
  image,              (* module.data                                        *)
  options,            (* history: the configuration                         *)
  passive_segments,   (* Data: the entries whose bytes they are, and length *)
  passive_refs,       (* (entry, passive index, length) in the static index *)
  static_index_addr,
  table,              (* the function table: the segment each slot reads    *)
  panicked            (* a slice was indexed beyond its end                 *)

ivars == <<image, options, passive_segments, passive_refs, static_index_addr,
           table, panicked>>
avars == <<vars, ivars>>

(***************************************************************************)
(* get_active_data_segment: of the segments that start at or below the     *)
(* address, the first that starts highest.  It gives up on a passive one.  *)
(***************************************************************************)
SegmentFor(img, addr) ==
  CHOOSE i \in DOMAIN img :
    /\ img[i].lo <= addr
    /\ \A j \in DOMAIN img :
         img[j].lo <= addr => img[j].lo < img[i].lo \/ (img[j].lo = img[i].lo /\ i <= j)

CanFind(img, addr) ==
  /\ \A i \in DOMAIN img : Loads(img[i])
  /\ \E i \in DOMAIN img : img[i].lo <= addr

\* Fields, by address, copied into segment i; every one must fit.
Fits(s, at, fields) ==
  \A a \in DOMAIN fields : a + Width(at, a) <= s.lo + s.len
Patched(img, i, fields) ==
  [img EXCEPT ![i].word =
     [a \in DOMAIN @ \cup DOMAIN fields |->
        IF a \in DOMAIN fields THEN fields[a] ELSE @[a]]]

(***************************************************************************)
(* create_env_virt and create_config_virt.  An option is a host mode with  *)
(* the number of overrides and the length of its allow or deny list.       *)
(***************************************************************************)
NoBlock == -1
Strs(o) == 2 * o.cnt + o.list

\* What the match on the host mode and the writes around it leave.
OptionFields(at, o, ptr) ==
  LET host == CASE o.host = "all" -> {}
                [] o.host = "none" -> {HostFallback(at)}
                [] o.host \in {"allow", "deny"} ->
                     {HostFallbackAllow(at), AllowOrDenyCnt(at)}
      data_ptr == IF ptr = NoBlock THEN {} ELSE {FieldDataPtr(at)}
  IN  [a \in {FieldCnt(at)} \cup host \cup data_ptr |->
         CASE a = HostFallback(at) -> 0
           [] a = HostFallbackAllow(at) -> IF o.host = "allow" THEN 1 ELSE 0
           [] a = FieldCnt(at) -> o.cnt
           [] a = AllowOrDenyCnt(at) -> o.list
           [] a = FieldDataPtr(at) -> ptr]

\* Copy the fields to the segment found for at, or panic.
Patch(img, at, fields) ==
  LET i == SegmentFor(img, at)
  IN  IF Fits(img[i], at, fields)
      THEN image' = Patched(img, i, fields) /\ UNCHANGED panicked
      ELSE panicked' = TRUE /\ UNCHANGED image

\* The field data the options need, and the segment that bump_stack_global
\* made room for.
PatchOptions(what, at, o) ==
  LET len == stack_pointer - stack_pointer'
      block == [what |-> what, lo |-> stack_pointer', len |-> len, word |-> <<>>]
  IN  /\ (len = 0) = (Strs(o) = 0) /\ len >= 4 * Strs(o)
      /\ IF len = 0
         THEN Patch(image, at, OptionFields(at, o, NoBlock))
         ELSE Patch(Append(image, block), at, OptionFields(at, o, block.lo))

CreateEnvVirt ==
  /\ EnvFieldData
  /\ IF phase' = "failed" THEN UNCHANGED ivars
     ELSE \E o \in EnvOptions :
            /\ PatchOptions("env", EnvAt, o)
            /\ options' = [options EXCEPT !.env = o]
            /\ UNCHANGED <<passive_segments, passive_refs, static_index_addr, table>>

CreateConfigVirt ==
  /\ ConfigFieldData
  /\ IF phase' = "failed" THEN UNCHANGED ivars
     ELSE \E o \in ConfigOptions :
            /\ PatchOptions("config", ConfigAt, o)
            /\ options' = [options EXCEPT !.config = o]
            /\ UNCHANGED <<passive_segments, passive_refs, static_index_addr, table>>

(***************************************************************************)
(* create_io_virt.                                                         *)
(***************************************************************************)
FLAGS_HOST_PREOPENS == 64
FLAGS_HOST_PASSTHROUGH == 128
FLAGS_ENABLE == [stdin |-> 1, stdout |-> 2, stderr |-> 4]
FLAGS_IGNORE == [stdin |-> 8, stdout |-> 16, stderr |-> 32]

StdStreams == {"stdin", "stdout", "stderr"}
StdioCfg == {"allow", "ignore", "deny"}

NewIo ==
  /\ NewData
  /\ \E host_preopens \in BOOLEAN, stdio \in [StdStreams -> StdioCfg] :
       options' = [options EXCEPT !.host_preopens = host_preopens,
                                  !.passthrough = host_preopens, !.stdio = stdio]
  /\ UNCHANGED <<image, passive_segments, passive_refs, static_index_addr, table,
                 panicked>>

VisitDirEntry(name) == VisitDir(name) /\ UNCHANGED ivars

\* A runtime entry makes the filesystem pass through.
VisitRuntimeEntry(name, path) ==
  /\ VisitRuntime(name, path)
  /\ options' = IF phase' = "failed" THEN options
                ELSE [options EXCEPT !.passthrough = TRUE]
  /\ UNCHANGED <<image, passive_segments, passive_refs, static_index_addr, table,
                 panicked>>

\* Mutant: the index is taken after the segment was pushed.
PassiveIdxAfter == data.passive + 1

\* What passive_bytes returns.
PassiveIdx == data.passive

VisitFileEntry(name, len) ==
  /\ VisitFile(name, len)
  /\ IF data'.passive = data.passive
     THEN UNCHANGED <<passive_segments, passive_refs>>
     ELSE /\ passive_segments' =
               Append(passive_segments, [entry |-> entries, len |-> len])
          /\ passive_refs' = passive_refs \cup
               {[entry |-> entries, idx |-> PassiveIdx, len |-> len]}
  /\ UNCHANGED <<image, options, static_index_addr, table, panicked>>

WriteStaticIndex ==
  /\ WriteIndex
  /\ static_index_addr' = IF phase' = "failed" THEN 0 ELSE data'.stack_ptr
  /\ UNCHANGED <<image, options, passive_segments, passive_refs, table, panicked>>

FS_STATIC_LEN == 16

\* Mutant: no padding where the end is a multiple of 4 already.
ResizedTight(len, offset) ==
  LET end == offset + FS_STATIC_LEN
  IN  IF len < end THEN end + ((4 - (end % 4)) % 4) ELSE len

\* The length that a segment is given: FS_STATIC_LEN leaves the flags out, the
\* padding of 1 to 4 bytes makes room for them.
Resized(len, offset) ==
  LET end == offset + FS_STATIC_LEN
  IN  IF len < end THEN end + (4 - (end % 4)) ELSE len

PlacedAs(d, what) == CHOOSE a \in d.placed : a.what = what

StdioFlag(o, stream) ==
  CASE o.stdio[stream] = "allow"  -> FLAGS_ENABLE[stream]
    [] o.stdio[stream] = "ignore" -> FLAGS_IGNORE[stream]
    [] o.stdio[stream] = "deny"   -> 0

FlagsOf(o) ==
  StdioFlag(o, "stdin") + StdioFlag(o, "stdout") + StdioFlag(o, "stderr")
    + (IF o.host_preopens THEN FLAGS_HOST_PREOPENS ELSE 0)
    + (IF o.passthrough THEN FLAGS_HOST_PASSTHROUGH ELSE 0)

\* Mutant: the pointer of the index is taken when both slices are written.
IoFieldsLate ==
  LET preopens == PlacedAs(data', "preopens")
  IN  [a \in {PreopenCnt, PreopensPtr, StaticIndexCnt, StaticIndexPtr, Flags} |->
         CASE a = PreopenCnt -> (preopens.hi - preopens.lo) \div 4
           [] a = PreopensPtr -> data'.stack_ptr
           [] a = StaticIndexCnt -> entries
           [] a = StaticIndexPtr -> data'.stack_ptr
           [] a = Flags -> FlagsOf(options)]

IoFields ==
  LET preopens == PlacedAs(data', "preopens")
  IN  [a \in {PreopenCnt, PreopensPtr, StaticIndexCnt, StaticIndexPtr, Flags} |->
         CASE a = PreopenCnt -> (preopens.hi - preopens.lo) \div 4
           [] a = PreopensPtr -> data'.stack_ptr
           [] a = StaticIndexCnt -> entries
           [] a = StaticIndexPtr -> static_index_addr
           [] a = Flags -> FlagsOf(options)]

\* The preopen table is written, the segment of io resized and patched.
PatchIo ==
  LET i == SegmentFor(image, IoAt)
      offset == IoAt - image[i].lo
  IN  /\ WritePreopens
      /\ IF phase' = "failed" THEN UNCHANGED <<image, panicked>>
         ELSE Patch([image EXCEPT ![i].len = Resized(@, offset)], IoAt, IoFields)
      /\ UNCHANGED <<options, passive_segments, passive_refs, static_index_addr,
                     table>>

(***************************************************************************)
(* Data::finish: the section, then a passive segment per file, each with a *)
(* function that reads it in the slot of its index.                        *)
(***************************************************************************)
Section == [what |-> "section", lo |-> data'.stack_ptr,
            len |-> data.stack_start - data'.stack_ptr, word |-> <<>>]

\* A passive segment is known by the entry whose file it holds.
Passive == [k \in DOMAIN passive_segments |->
              [what |-> "passive", lo |-> 0, len |-> passive_segments[k].len,
               word |-> [a \in {0} |-> passive_segments[k].entry]]]

FinishData ==
  /\ Finish
  /\ IF phase' = "failed" THEN UNCHANGED <<image, table>>
     ELSE /\ image' = Append(image, Section) \o Passive
          /\ table' = [k \in DOMAIN Passive |-> Len(image) + 1 + k]
  /\ UNCHANGED <<options, passive_segments, passive_refs, static_index_addr,
                 panicked>>

ImageInit ==
  /\ Init
  /\ image = OwnSegments
  /\ options = [env |-> [host |-> "all", cnt |-> 0, list |-> 0],
                config |-> [host |-> "all", cnt |-> 0, list |-> 0],
                host_preopens |-> FALSE, passthrough |-> FALSE,
                stdio |-> [stream \in StdStreams |-> "deny"]]
  /\ passive_segments = <<>> /\ passive_refs = {} /\ static_index_addr = 0
  /\ table = <<>> /\ panicked = FALSE

ImageStep ==
  \/ CreateEnvVirt
  \/ CreateConfigVirt
  \/ NewIo
  \/ \E name \in Strings : VisitDirEntry(name)
  \/ \E name, path \in Strings : VisitRuntimeEntry(name, path)
  \/ \E name \in Strings, len \in FileLens : VisitFileEntry(name, len)
  \/ WriteStaticIndex
  \/ PatchIo
  \/ FinishData

ImageNext == ~panicked /\ ImageStep

ImageSpec == ImageInit /\ [][ImageNext]_avars

-----------------------------------------------------------------------------
(***************************************************************************)
(* The adapter, once loaded: active segments are copied to memory in their *)
(* order, and memory is zero elsewhere.                                    *)
(***************************************************************************)

Last(a) ==
  LET over == {i \in DOMAIN image : Loads(image[i]) /\ Holds(image[i], a)}
  IN  IF over = {} THEN 0 ELSE CHOOSE i \in over : \A j \in over : j <= i

Loaded(a) == IF Last(a) = 0 THEN 0 ELSE Field(image[Last(a)], a)

\* passive_alloc: call_indirect, a function that allocates and copies.
PassiveAlloc(idx, offset, len) ==
  IF idx >= Len(table) THEN <<"trap">>
  ELSE LET s == image[table[idx + 1]]
       IN  IF s.what # "passive" \/ offset + len > s.len THEN <<"trap">>
           ELSE <<"bytes", s.word[0], offset, len>>

OptionsLoaded(what, at, o) ==
  /\ Loaded(HostFallback(at)) = (IF o.host = "none" THEN 0 ELSE 1)
  /\ Loaded(HostFallbackAllow(at)) = (IF o.host = "allow" THEN 1 ELSE 0)
  /\ Loaded(FieldCnt(at)) = o.cnt
  /\ Loaded(AllowOrDenyCnt(at)) = (IF o.host \in {"allow", "deny"} THEN o.list ELSE 0)
  /\ Strs(o) > 0 =>
       LET s == image[Last(Loaded(FieldDataPtr(at)))]
       IN  /\ s.what = what /\ s.lo = Loaded(FieldDataPtr(at))
           /\ s.len >= 4 * Strs(o)

\* Io::stdin, stdout and stderr, host_passthrough and host_preopens.
HasFlag(flags, bit) == (flags \div bit) % 2 = 1
AllowCfg(flags, stream) ==
  IF HasFlag(flags, FLAGS_ENABLE[stream]) THEN "allow"
  ELSE IF HasFlag(flags, FLAGS_IGNORE[stream]) THEN "ignore"
  ELSE "deny"

IoLoaded ==
  LET preopens == PlacedAs(data, "preopens")
      index == PlacedAs(data, "index")
  IN  /\ Loaded(PreopensPtr) = preopens.lo
      /\ Loaded(PreopenCnt) * 4 = preopens.hi - preopens.lo
      /\ Loaded(StaticIndexPtr) = index.lo
      /\ Loaded(StaticIndexCnt) * 16 = index.hi - index.lo
      /\ HasFlag(Loaded(Flags), FLAGS_HOST_PASSTHROUGH) <=> options.passthrough
      /\ HasFlag(Loaded(Flags), FLAGS_HOST_PREOPENS) <=> options.host_preopens
      /\ \A stream \in StdStreams :
           AllowCfg(Loaded(Flags), stream) = options.stdio[stream]
      /\ \A p \in data.placed : \A a \in p.lo..(p.hi - 1) :
           Last(a) # 0 /\ image[Last(a)].what = "section"

\* No two segments share a byte, the one that is made longer for io included.
SegmentsApart ==
  \A i, j \in DOMAIN image :
    i # j /\ Loads(image[i]) /\ Loads(image[j]) =>
      \/ image[i].lo + image[i].len <= image[j].lo
      \/ image[j].lo + image[j].len <= image[i].lo

\* The adapter that is loaded finds in env, config and io what was configured,
\* each pointer designating the data written for it, and every name, file and
\* table where its pointer says, not overwritten by another segment: whatever
\* was added at the stack before, each patch went to the adapter's own segment.
StructsLoaded ==
  phase = "done" =>
    /\ OptionsLoaded("env", EnvAt, options.env)
    /\ OptionsLoaded("config", ConfigAt, options.config)
    /\ IoLoaded
    /\ SegmentsApart

\* The virtualizer never indexes a segment beyond its end, though the length
\* it ensures is that of the struct without its flags; and the search for a
\* segment always succeeds, since the passive ones are added last.
NeverPanics ==
  /\ ~panicked
  /\ phase \in {"env", "config", "io", "linearize", "preopens"} =>
       \A at \in {EnvAt, ConfigAt, IoAt} : CanFind(image, at)

\* What a passive file's entry reads through passive_alloc are the bytes of
\* that file, at the offset asked for, and never another's.
PassiveExact ==
  phase = "done" =>
    \A f \in passive_refs : \A offset \in 0..(f.len - 1) :
      \A len \in 1..(f.len - offset) :
        PassiveAlloc(f.idx, offset, len) = <<"bytes", f.entry, offset, len>>

=============================================================================
