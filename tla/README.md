# WASI-Virt in TLA+

WASI-Virt turns a WebAssembly component that imports WASI into one whose WASI
is virtualized: environment variables, a filesystem, standard streams, clocks
and the rest are answered by an adapter that is linked in front of it.  Two
programs cooperate and never run at the same time:

* the **virtualizer** (`src/`, a Rust library and a command line tool) takes a
  prebuilt adapter module and patches it: it writes tables into the top of the
  adapter's stack, lowers the stack pointer, sets words in the adapter's
  statics, and replaces imports by stubs;
* the **virtual adapter** (`virtual-adapter/`) runs inside the component, reads
  these tables through raw pointers, and answers the guest's calls or passes
  them on to the host.

What makes the pair hard is that the contract between them is a memory layout:
neither compiler checks it, and each program relies on what the other did
(sorted names, aligned slices, relative positions, padded strings, imports that
were or were not stubbed).  The modules here model both sides and the contract.

Paths below are relative to the repository.

## Inventory

| Component | State | Operations | Interacts with | Hard | What makes it correct |
|---|---|---|---|---|---|
| Data section (`src/data.rs`, `src/walrus_ops.rs`) | stack pointer, string table, the adapter's data segments, passive segments, function table | `new`, `string`, `stack_bytes`, `write_slice`, `passive_bytes`, `finish`, `bump_stack_global`, `get_active_data_segment` | every `create_*_virt` in sequence; the adapter, as it is loaded | sizes and padding at boundaries, order of allocations, a pointer read before another block lowered it, which segment a struct is patched in | no overlap, pointers stay valid, runtime stack below the data, `finish` cannot fail, the loaded adapter finds what was configured |
| Reading host directories (`src/virt_io.rs`) | the tree of entries, `virtual_files` | `visit_pre_mut` with its closure: metadata, read_dir, read | the host's live filesystem; handed to the index construction | the host changes between two calls, or refuses one; symlinks, cycles, devices, names that are not UTF-8; overlapping preopens | the inline tree is the host's, `virtual_files` names each origin, it ends |
| Static index construction (`src/virt_io.rs`) | the queue of a level, a running child offset, the index | `visit_pre_mut`, `visit_bfs`, `visit_bfs_level`, the linearization closure | data section; read by the adapter | relative offsets computed ahead of the entries they point at | the child slice of each directory is its children, in order |
| Adapter filesystem (`virtual-adapter/src/io.rs`) | `STATE` (initialized, preopens, host preopens), descriptors, cursors of streams | `initialize`, `get-directories`, all of `descriptor`, directory streams | static index, host filesystem | any sequence of guest calls on any descriptors; runtime entries that live on the host | the guest sees the configured tree; nothing else of the host |
| Host preopen lookup (`io.rs`, `get_host_preopen`) | the ordered map of host preopens | lookup of a path | adapter filesystem | byte comparisons at name boundaries, order of candidates | a match denotes the path; a panic has one known cause |
| Adapter streams and poll (`io.rs`) | kind of each stream, position of a file stream | read, skip, write, splice, subscribe, poll, block, terminals | host streams, stubs chosen by `create_io_virt` | host events while a call is blocked; mixes of virtual and host pollables; a partial splice | what the guest is told adds up to what was moved, no byte of a denied stream moved, every blocked call woken, panics only for known causes |
| Environment and configuration (`src/virt_env.rs`, `src/virt_config.rs`, `virtual-adapter/src/env.rs`, `config.rs`) | field data and its words; offsets while reading | `create_env_virt`, `create_config_virt`; `get-environment`, `get`, `get-all` | data section, host environment | writer and reader agree byte by byte; binary search on data sorted elsewhere | exactly the overrides and the permitted host fields |
| Virtualizer (`src/lib.rs`, `src/bin/wasi-virt.rs`) | the options, the module | builder, `filter_imports`, `finish` | all of the above, deny stubs | which imports are stubbed under which combination of options | what is allowed works, what is not is unreachable |
| Temporary files (`src/lib.rs`) | three files named by the second | `apply_wasm_opt`, composing in `finish` | other processes on the machine | two runs in one second, a failing system call, a killed run | each run reads what it wrote and leaves nothing |
| Deny stubs (`src/virt_deny/`), preview 1 stubs (`src/stub_preview1.rs`) | none | replace functions | virtualizer | completeness of lists | - |
| HTTP and name lookup in the adapter (`io.rs`) | a host handle within each resource of the guest | every call, on the handles within; what is returned is wrapped | guest and host | one-time methods, calls that consume their resource, children, errors renamed | no handle leaks or is used twice; the guest sees its host |
| Clocks in the adapter (`io.rs`) | none of their own | forward to the host | host | - | - |

`PROJECT.json` lists the components with their status, and the hazards with the
line at which each bites and the properties that would catch it.

## Modules

| Module | Models | Runs |
|---|---|---|
| `DataSection` | the placement of everything the virtualizer embeds, from the environment's block to `Data::finish` | (extended by the next) |
| `AdapterImage` | the adapter's own segments, the patches of its structs `env`, `config` and `io`, the passive segments, and what all this is once loaded | `data_section` |
| `AdapterImageProofs` | the theorems of both | |
| `StaticIndex` | the index as the adapter reads it: child slices, `dir_lookup` | (used by the next and by `AdapterFs`) |
| `FsIndex` | the breadth-first linearization, one action per loop step | (extended by `ReadHost`) |
| `ReadHost` | how host files and directories become inline entries, and `FsIndex` behind it | `fs_index` |
| `FsIndexProofs` | the theorems of both | |
| `HostPath` | `get_host_preopen` as a function over character sequences | (used by the next and by `AdapterFs`) |
| `HostPreopen` | the same as the loop over the map of preopens | `host_preopen` |
| `HostPreopenProofs` | its theorems | |
| `VirtualFs` | abstract: what a guest may see of the configured tree and of the host | refined by `AdapterFs` |
| `AdapterFs` | the filesystem half of the adapter, on an index as `FsIndex` leaves it | `adapter_fs`, `adapter_fs_runtime_preopen` |
| `AdapterFsProofs` | its theorems | |
| `AdapterIo` | streams, pollables, poll, and the flags and stubs behind them, with a host that runs on its own | `adapter_io`, `adapter_io_poll` |
| `AdapterIoProofs` | its theorems | |
| `HttpResources` | operators: what each call of wasi:http and of name lookup may come to, on a table of handles | (used by the next two) |
| `HttpHost` | abstract: a component that uses its host directly | refined by `HostWrappers` |
| `HostWrappers` | the adapter's wrappers around the host's resources | `host_wrappers` |
| `HostWrappersProofs` | its theorem | |
| `EnvConfig` | writer and readers of environment variables and configuration | `env_config` |
| `EnvConfigProofs` | its theorems | |
| `Virtualizer` | the options, `filter_imports`, and the imports, exports and world that `finish` makes of them | `virtualizer`, `virtualizer_filter` |
| `TempFiles` | the temporary files of virtualizations that run at the same time | `temp_files` |
| `FinishProofs` | the theorems of both | |

`MC<module>.tla` gives a module's constants values that a `.cfg` cannot
express; the `.cfg` files are named after it.

### DataSection

State: `phase` is how far `WasiVirt::finish` is, `stack_pointer` the module's
`__stack_pointer`, `segments` the active segments embedded at the top of the
stack, `data` the struct `Data`, `entries` the length of `static_fs_data`.
`data.placed` is a history of the ranges that `stack_alloc` returned.  A visit
of the linearization is one action (`VisitDir`, `VisitRuntime`, `VisitFile`)
that makes all its allocations or fails as a whole, as the `?` in the closure
does.  Contents of the ranges are left out, sizes and alignments are not.

Bounds: a stack of a few dozen bytes, names of one and two characters, files of
0 to a few bytes around the cutoff.  The stack fills up after every possible
prefix, so that each `bail!` happens, and each padding from 0 to 7.

### AdapterImage

Every action is one of `DataSection` conjoined with its effect on the adapter's
data segments (`image`), on the list of passive segments, on the function table
and on what is remembered of the options.  A segment is a range of addresses and
the struct fields that lie in it; all other bytes are left out.
`CreateEnvVirt` and `CreateConfigVirt` search the segment of their struct
(`SegmentFor`) in an image that already has the blocks put on the stack before;
`PatchIo` makes the segment of `io` longer first.  A slice beyond the end of a
segment sets `panicked`.  `Loaded(a)` is what the adapter then reads at `a`: of
the active segments over `a` the last, and zero where there is none.

`LayoutAssumption` is how the adapters are linked: the stack first, then the
segments of the statics in order and apart, `io` behind the last of them since it
is all zero.  It holds of the four prebuilt adapters in `lib/`.  It is needed: a
segment that reached 16 to 19 bytes into `io` would count as long enough for
`FS_STATIC_LEN`, and the write of the flags would panic.  `StaticsAssumption` is
what `virtual-adapter/src/env.rs:27` and `config.rs:27` say: `env` and `config` are
two statics, so they share no byte, and each starts with `host_fallback` set and
the rest zero.

Bounds: as for `DataSection`, with an env and a config block each present or
not, four ways to configure the environment and two the configuration, the flags
of the standard streams and of the host's preopens as `FlagsOf` adds them up, and files
of 0, 3 and 5 bytes in the section and of 9 in passive segments, up to three
entries, so that the pointer takes every residue modulo 8.

### StaticIndex, FsIndex and ReadHost

`FsIndex` starts from any forest (a set of preopens, each a tree of
directories, files and runtime entries) and takes the steps of `visit_bfs` and
`visit_bfs_level`: the count over a level, one action per child, one per
parent, one per level, one per preopen.  `visits` is what the closure was
called with; `Index` is `static_fs_data`.  A symlink that is configured meets the
`todo!()` of the closure (`MeetSymlink`, `pc = "panicked"`).  `StaticIndex` reads
the index: `data.dir` of an entry is a relative position and a count.  The
library's `binary_search_by` finds a name on a slice that is in order; on any
other one the answer is `Unspecified`, which is none of the answers that
`LookupAgrees` accepts and none that `VirtualFs` gives.  `ByteOrder` is the order
of names.  `LookupAgrees` runs `DirLookup` from every preopen, on every path of the
instance, and compares it with a walk in the tree.

Positions in the index count from 1, in the code from 0; relative offsets are
the same.

`ReadHost` is what comes before: a tree of inline, `Source` and `Virtualize`
entries, walked by `visit_pre_mut` (`tasks` is its stack of calls).  `Metadata`,
`ReadDir` and `ReadFile` are an action each, the system calls of the closure, and
`HostChanges` may remove an entry of the host or rename another over it between
any two of them.  Each call may be refused by the host, for its rights or its disk
(`Refused`), besides failing for what is there.  `moved` is a history: whether the
host changed after the last `fs::metadata`; `cause` is another: which call made it
give up.  A directory's names become `Virtualize` entries that are read
when the walk comes to them.  A symlink is an entry like any other, since every
call follows it; a cycle ends at `MaxPath`, as the host's limits on links and
path lengths end it.  Host paths are sequences of names, so that the joining of
path, separator and name is an append.  A listing is taken at once: a directory
that changes between two of its entries has one of the listings it went through.

Bounds: every inline filesystem of five entries, and of four with a symlink among
them; every host tree of four nodes read as a whole; twenty small hosts with a cycle,
a second link, a dangling link, a device or a name that is not UTF-8, which change
up to twice, read by one preopen, by two that overlap, and by entries of an inline
directory.  146,203 states, about 80 seconds.  Fairness: the program, which waits for
nobody, goes on; the host need not change.

Beyond the properties the model shows what a caller should know: one dangling
symlink in a directory fails the whole virtualization, and a name that is not
UTF-8 panics (`virt_io.rs:384`).  `virtual_files` is documented as the files used
(`lib.rs:105`), and has the children of the directories that were read: a file
that is configured by itself is not in it, a directory is.

### HostPath and HostPreopen

A path is a sequence of characters over a small alphabet that has `.` and `/`,
because the code's decisions are about single bytes.  `HostPreopen` takes one
loop iteration per action, in the order of the names in the `BTreeMap`;
`HostPath!GetHostPreopen` is the whole loop as a function.  `MatchSound` says
that a match denotes the path and that the loop and the function agree.

The loop can panic: for a preopen that is the current directory (`.` or `./`), whose
stripped name is empty, it reads the first byte of the stripped path, and of `./`
nothing is left (`io.rs:506`).  `./` and the empty path are in the run, and
`PanicsForACause` says that the lookup panics if and only if the path is one of these
(`Bare`) and the host has its current directory among its preopens.  The other two
properties say what an answer means when there is one.

Bounds: every plain path of up to five characters, and up to two of eight names,
some a prefix of another.

### VirtualFs and AdapterFs

`VirtualFs` is the promise: the guest holds descriptors of *nodes* of the
configured tree and of *objects* of the host, and every call has an answer that
is written in terms of them.  It knows no index, no position and no cursor
arithmetic.  `AdapterFs` is the code: descriptors are positions or host
handles, a lookup walks the index, `initialize` runs at the first
get-directories, reads compute with a u64 offset and a usize address.

Both have a history `call` beside `answer`: on which descriptors, with which path,
offset, length or stream the last call was made.  The property
`ImplementsVirtualFs` maps each position to the node it stands for, in `call` as
in `answer`, and requires every step of the adapter to be a step of `VirtualFs`.
So it is not enough that some path leads to what was opened: it must be the path
that the guest gave, from the descriptor that it gave.  The assumption
`WorldsAssumption` ties the index to the tree and is what `ChildListsExact` of
`FsIndex` establishes.

`VirtualFs` promises what a call is answered, if it is; which ones panic instead
is no part of it (`Panics`).  That is `TrapsForACause`, only for one of a list: `advise`, which
is `todo!()` (`io.rs:812`); an empty path, on which `dir_lookup` asserts; a path
that goes on below a runtime directory, whose slice leaves the index; a runtime
entry configured as `./`, where `get_host_preopen` panics; and whatever is done
with a preopen that is a runtime entry itself (the finding).  A panic ends the
instance: no call is made after it (`Alive`).

Calls: the four at a path, `stat`, `get-type` and `metadata-hash` of a descriptor, where the
size of a runtime file is the host's, `is-same-object`, `get-flags`, `advise`, `read`, the
two kinds of stream, and `Modify`, which stands for each of those that refuse to change
anything.  What a descriptor of the host does is the host's: it may refuse anything,
and it never leads above the object it is asked at.

Bounds: five configurations: a tree with active and passive files, an empty
directory and runtime entries, one of them `./`, on a host with `/` and on one with
`.` as its preopen; a static preopen beside the host's; and two whose preopens are
runtime entries, as `--preopen` makes them.  One stream besides the descriptors,
which come and go; three descriptors at a time, enough for `is_same_object` and for a
call on one while others are open; offsets at the start and beyond the end of the
files; `UsizeMod` 16 stands for 2^32 and no offset reaches it.  The host has a small
tree, with an object outside of what is configured, so that leaving the configured
part would show.  `Contained` is about configurations without host preopens; one
configuration has them, under the name of a static preopen.

`MCView` leaves `call` and `answer` out of what makes two states different.  No
guard reads them but `Alive`, and after a panic the view has them, so that no
behaviour is cut; the invariants read them only after a panic; and the two action
properties, the refinement among them, are evaluated on every step that is taken,
with the full states at both its ends.  41,637 states, about half a minute.

### AdapterIo

A stream is the host's, `Null` (ignored), `Err` (denied) or a static file.  The
guest makes one call at a time; every call that reaches the host is split in two
(`call` is what the guest is in), and between the halves the host moves on:
bytes arrive, stdin is hung up, stdout drains or is closed, the timer expires.
The host may also answer that the operation failed, which closes its stream, and a
write or splice that failed may have moved a part.  stderr behaves as stdout and is
left out.  The configuration decides the kinds and, through `IoStubbed` and
`disable_stdio`, which imports are unreachable instructions.

The host and the guest keep separate books.  `stdin.taken` and `stdout.given`
are what the host's streams moved, in the action in which they move it; `told` is
what the answers to the guest add up to, written where an answer is made
(`Report`, through `Forward` and `stream_err_map` for the host's).  `Conserved`
compares the two and states its exceptions: with an ignored stream splice reports
bytes that it has not moved (`io.rs:1206`), and after a failure the host may have
moved more than was said, never less.  `Isolated` counts bytes: that get-terminal of a
denied stream still asks the host whether it is a terminal (`io.rs:572`) is not
against it.

`PanicsForACause` is a list as well: a splice of a static file, which is `todo!()`
(`io.rs:1224`); with no standard stream allowed, get-terminal, whose import is a
stub; and if the filesystem does not need the host either, waiting for the clock or
polling nothing, also where clocks are allowed.  That the standard streams are not in
it is what could go wrong in `create_io_virt`.

Fairness (`FairSpec`): the host returns from a call it can answer, drains its
stdout, and its timer expires: a host that did not would not be a WASI host, and
the adapter runs on nothing but its answers.  Nobody is assumed to type
anything on stdin, and the guest is not assumed to call anything.  `Woken` is
therefore about lists with the timer or stdout in them; what could break it in the
adapter is a list handed to the host without some of its pollables (`HostPolls`).

Bounds: one byte arrives (two in the run about `PollSound`), stdout has room for
one, one or two bytes are asked for, two are written at most; that is enough for
short reads, full buffers, end of file with and without a byte left, and a splice
that moves less than it was asked to.  Seven configurations: each kind of stream
beside each other, and neither allowed, with clocks alone and with a filesystem of
the host.

### EnvConfig

The writer sorts, lays out and pads the strings, one action per string; then
the adapter answers any sequence of get-environment/get-all and get calls, one
action per loop iteration, at byte offsets into the block.  Environment and
configuration use the same layout and loops, and one module models both;
get-environment is get-all.  The host's get and get-all may fail, which is passed
on (`HostFails`).  `Search` is the library's binary search: on a
slice that is not in order it may answer anything, so that `SearchesOrdered`
matters.

Bounds: two or three keys, string lengths that cover the paddings that tell
the cases apart, lists and overrides of up to two elements in any order, with
duplicates.

Fairness: the reader, a loop without waiting, goes on.

### Virtualizer

State: `opts` is the struct `WasiVirt`, `result` what `finish` returned;
`asked` (the options before `filter_imports`) is history.  A module
is four sets of interfaces: the host imports it still has, its exports, those
that only trap, and the world it is encoded with.  `Virtualized` runs the
stages of `finish` on the prebuilt adapter in order; each stage has the test of
the options that the code has at that place, because what can go wrong is that
two such tests differ.  `Served` then says for a component composed with the
result where each interface comes from.  An interface of the model is a group
of WASI interfaces that no prefix, world or stub list tells apart:
`http` is types and outgoing-handler, `sockets` ip-name-lookup, tcp and udp,
`network` the rest of wasi:sockets.

`SetSwitch` to `Finish` are the builder; `Cli` is the whole of `main`, for
every choice of arguments.  What wit-component and wasm-compose do is
external: merging worlds is a union, composing fails when the component uses
nothing of the adapter.

Bounds: the builder's setters come in any order before the filter, which comes
before `finish`, as in `main` and the tests.  The switch of exit, which goes the
way of random, changes only with all others.  Two of three standard streams.
The two components between them import everything.

`NothingBeyondOptions` is about what was asked for (`asked`), not about what
`filter_imports` left of it, and about what the component at hand can call
(`Called`): with a component, what it imports, otherwise everything.  It leaves out
`Forgotten`: the filesystem and the clocks of a component that went through the
filter, whose options are lost, so that a denial of them is too; the finding of
`virtualizer_filter` is exactly this.  `NothingAllowedIsStubbed` says of all else
that what was asked for has the host behind it, and says of two cases exactly when
they have: `IoFollowsFilesAndStreams`, that io is stubbed unless files or standard
streams of the host are behind the adapter, so under clocks, http or sockets alone
too; and `DebugHasStderr`, that the trace of a debug build has its stderr unless the
component it is composed with imports no standard stream and no terminal.

Per interface: the standard streams and terminals count as allowed if one of them
is, since their imports are kept or stubbed together; which of them are denied is
in the flags (`AdapterImage`) and in what `AdapterIo` does by them.  A function
that is missing from a deny list is not seen here.  One such list
is not as it looks: `sockets.rs:61` names most functions of ip-name-lookup, tcp and udp
without the resource they are methods of, which matches no export, so that denying
leaves the adapter's code for them over stubbed imports (`"virtual"`, not `"denied"`).

### TempFiles

A process is one call of `finish`; each system call is an action, may fail
(`SystemCallFails`) and may be the process's last (`Kill`).  A file's content is
the virtualization it was made from, `Empty` or `Torn`; `fs::write` truncates
first and writes later, and a file that is removed lives on for those that have
it open.  wasm-opt, the encoder and
wasm-compose are what they do to files: read an input that must be a module,
write an output.  `met` is a history of who held a name at the same time as
another.  The clock does not go back; reading a file is atomic.

The properties are about virtualizations that met nobody, and that is as much as
can be said: with the two names taken in one second one process truncates, reads
or removes the other's file, and one may return the other's component without an
error.  Taking `\ met` out of `OwnResult` shows it; the passing run does not.  What a killed or failed run
left does no harm, since a file is always created over it.

Bounds: two processes with wasm-opt and composing and one with neither, two
seconds.

### HttpResources, HttpHost and HostWrappers

A resource is a kind, its parent, whether its one-time part was taken, whether it
is immutable, and a value.  `HttpResources` gives for each call the outcomes it
may have on a table of handles: three tables of operations (those that make a resource, those that
consume some, those that read or set) rather than a definition per function.
`HttpHost` is a component that calls its host, in any order, with any handles it
holds.  `HostWrappers` is the adapter: `host` are its handles, `wrapped` the
guest's and the handle within each.  A method calls the host on the handle
within; a function that takes a resource opens the wrapper and gives the handle
away; a drop drops both.  Error codes and methods go to their namesakes.

`Transparent` compares the guest's view with `HttpHost`, step by step.
`Conserved` says that every handle of the adapter is within exactly one resource
of the guest: none is lost, none is used twice.

The host is the interface's text.  Where that says that it *may* trap when a
resource is dropped while a child lives, the model's host traps.  Bounds: three
handles on each side, two values, two methods, one code; the handles are
symmetric and the last answer is left out of the view, as no call depends on it.
A fourth handle is out of TLC's reach; both are proved for any number.

## What the passing runs show

* `data_section` - no two embedded ranges overlap, every interned string has
  its place, the running stack cannot reach the data, `finish` never fails nor
  panics; and the adapter, once loaded, finds in `env`, `config` and `io` what was
  configured, every pointer at its data, and behind each passive file's entry
  the file's own bytes.
* `fs_index` - a filesystem read from the host is the host's, unless that changed
  meanwhile, `virtual_files` says where each entry came from, giving up has one of
  the causes listed (the host refused, it has nothing there that can be read, or it
  changed after metadata) and reading always ends; then, for every small forest, each directory's
  slice of the index is its children and lookups agree with the tree.
* `host_preopen` - without names that begin with a dot and go on, a match
  denotes the path that was configured; the lookup misses no preopen, and it
  panics exactly on `./` and the empty path where the host has `.` as a preopen.
* `adapter_fs` - the adapter implements `VirtualFs`: each call is answered as the
  tree would answer that call.  It never holds a host descriptor that was not
  configured, the table of preopens is settled once, and no sequence of calls
  panics it but for the causes listed.
* `adapter_io` - what the guest is told of its bytes is what was moved, but for
  splices with ignored streams and for failures; no byte of a denied or ignored stream
  is moved on the host; poll misses nothing that is ready and always ends when
  something is; panics have the causes listed.
* `host_wrappers` - a guest that uses HTTP and name lookup through the adapter
  cannot tell it from the host, and every host handle is held by exactly one of
  its resources.
* `env_config` - writer and reader keep in step, and the guest sees exactly what
  the options say.
* `virtualizer` - for every combination of options the adapter's world, exports
  and imports fit together; of what a component can call nothing is left to the host
  that was not asked for, and what was asked for is not cut off, apart from io under
  clocks, http or sockets alone; what the filter drops does not show.  The filesystem and
  the clocks, once the filter has run, are the finding's.
* `temp_files` - a virtualization that shares no name with another returns its
  own component or fails for a cause, and every file in the directory is in use or was
  left by a run that was killed, had a call fail or shared a name.

## Where code and documentation disagree

Each of these is a run that TLC ends with a counterexample; the quotes are in
`PROJECT.json` under `findings`.

| Run | What happens |
|---|---|
| `adapter_fs_runtime_preopen` | `--preopen` hands the guest a static descriptor of a runtime directory, on which lookups trap |
| `adapter_io_poll` | one stand-in in a list makes the whole list ready |
| `virtualizer_filter` | with a component, the configured filesystem and clocks are always dropped |

The models do what the code does in these further places.  Where a constant is
named, those of the passing runs keep away from it and the place shows as soon as
that constant is changed; the others are in the passing runs, where a property lists
them as what can happen:

* the static index can be placed at an odd address, though the adapter reads it
  as a slice of 4-byte words: `stack_alloc` computes its padding from the pointer
  before the allocation instead of the one after it (`data.rs:75`;
  `SlicesAligned` of `DataSection` as an invariant of `data_section` fails).  The
  preopen table is always aligned (`PreopensAligned`), for the index before it
  leaves the pointer even;
* with `--allow-clocks` alone, which the README offers (`README.md:69`), waiting for a
  timer reaches a stub: the imports of io are replaced when neither the
  filesystem nor a standard stream needs them (`virt_io.rs:520`; in the runs,
  `PanicsForACause` of `AdapterIo` and `IoFollowsFilesAndStreams` of `Virtualizer` say
  when);
* a read at 2^32 + n of a static file is served from n, for the cast of the
  offset to `usize` (`io.rs:312`; an offset of `UsizeMod` in `Offsets` breaks
  `StreamsInside`);
* a preopen `.a` matches paths below `a`, since the leading dot is stripped of
  any name (`io.rs:498`; `<<".", "a">>` in `Names` breaks `MatchSound`);
* a runtime entry configured as `./` makes the adapter panic where the host has its
  current directory among its preopens (`io.rs:506`; in the runs of `host_preopen` and
  `adapter_fs`);
* advise is `todo!()` (`io.rs:812`; in the run of `adapter_fs`), and so is a symlink that
  is configured (`virt_io.rs:439`; in that of `fs_index`);
* opening `r/y`, `r` a runtime directory, makes the adapter trap: `child_list`
  takes the host path of `r` for a child slice (`io.rs:281`; in the run, listed by
  `TrapsForACause`);
* `deny_all` leaves runtime preopens in place (`lib.rs:227`), so that the host
  is still reached through the filesystem, and the configuration as it is,
  which a comment says;
* a debug build made for a component without standard streams writes its trace
  to a stub: the filter drops stdio after `main` has checked for stderr
  (`bin/wasi-virt.rs:160`, `io.rs:104`; `DebugHasStderr`, a part of
  `NothingAllowedIsStubbed`, says exactly when);
* the empty path makes `dir_lookup` trap (`io.rs:286`; in the run, listed by
  `TrapsForACause`);
* with stdio ignored, get-terminal-stdin reaches a stub (`virt_io.rs:363`,
  `io.rs:572`), and splicing from a static file is `todo!()` (`io.rs:1224`); both are in
  the run, listed by `PanicsForACause` of `AdapterIo`;
* a splice with an ignored stream answers the length asked for although no
  byte moved (`io.rs:1218`; left out of `Moved` in `Conserved`), a blocking read of an ignored stdin answers no bytes
  and is not closed (`io.rs:1110`), and a static file still reads after its skip
  has answered last-operation-failed (`io.rs:1121`); the interface says otherwise
  (`wit/0_2_3/deps/wasi-io-0.2.3/package.wit:309`, `:146`, `:99`).

Three more are outside of the models: `filesystem_error_code` answers nothing
for an error that came from the host (`io.rs:620`); `stat_map` gives the
modification time as the access time (`io.rs:1894`); and a read of length zero of
a passive file releases an allocation of size zero (`io.rs:349`).

## What is proved

TLAPS proves the following for every value of the constants that the named
assumptions admit.  Where a theorem has a hypothesis besides these, the run that
checks the same property has it too (each `MC` module states it as an `ASSUME`
that TLC evaluates), because outside of it the code does go wrong: these are the
places above.  `StaticPreopens` is the one exception: `StaticsOnly` supposes it, and
the run of its property is the finding that goes against it.

| Theorem | Property | Hypothesis |
|---|---|---|
| `AdapterImageProofs`: `TypeCorrect`, `AllocationsDisjoint`, `StringsSound`, `StackSound`, `EmbeddingComplete`, `PreopensSound`, `FinishNeverBails`, `StringPointersStable` | `TypeOK`, `PlacedDisjoint`, `StringsPlaced`, `StackBelowData`, `AllEmbedded`, `PreopensAligned`, `FinishSucceeds`, `StringsStable` of `DataSection` | |
| `ImplementsDataSection`, `WritesFit`, `PassiveReadsExact`, `StructsAreLoaded` | the refinement of `DataSection`, `NeverPanics`, `PassiveExact`, `StructsLoaded` of `AdapterImage` | |
| `FsIndexProofs`: `TypeCorrect`, `ChildListsSound` | `TypeOK`, `ChildListsExact` | |
| `LookupsFindTheTree` | `LookupAgrees` | `PlainLookups` |
| `HostIsInlined`, `ListedIsExact`, `FailsOnlyForACause` | `HostInlined`, `ListedExact`, `FailsForACause` of `ReadHost` | |
| `HostIndexSound` | `ChildListsExact` of what `ReadHost` hands over | |
| `HostLookupsFindTheTree` | `LookupAgrees` of what `ReadHost` hands over | `PlainTrees` |
| `HostPreopenProofs`: `MatchesSound`, `PanicsAreKnown`, `NoneMissed` | `MatchSound`, `PanicsForACause`, `NoneMeansNone` | `PlainLookups` |
| `AdapterFsProofs`: `TypeCorrect`, `PreopensFixed` | `TypeOK`, `PreopensStable` | |
| `HostContained` | `Contained` | `HostLookups` |
| `StaticsOnly` | `StaticNeverRuntime` | `StaticPreopens` |
| `ReadsInside` | `StreamsInside` | `GuestReads` |
| `TrapsAreKnown` | `TrapsForACause` | `HostLookups` |
| `BehavesAsTree` | `ImplementsVirtualFs` | `GuestReads`, `HostLookups` |
| `AdapterIoProofs`: `TypeCorrect`, `Conservation`, `Isolation`, `PollMissesNothing`, `PanicsAreKnown` | `TypeOK`, `Conserved`, `Isolated`, `PollComplete`, `PanicsForACause` | |
| `EnvConfigProofs`: `ReadsInStep`, `SearchesAreOrdered`, `LeaksNothing`, `ReadsAreExact` | `InStep`, `SearchesOrdered`, `NothingLeaks`, `ReadsExact` | |
| `FinishProofs`: `WhatIsEncoded`, `NothingReachedBeyond`, `StubbedExactly`, `FilterHidden` | `Encodes`, `NothingBeyondOptions`, `NothingAllowedIsStubbed`, `FilterTransparentElsewhere` of `Virtualizer` | |
| `OwnResultHolds`, `FailsForACauseHolds`, `NoLitterHolds` | `OwnResult`, `FailsForACause`, `NoLitter` of `TempFiles` | |
| `HostWrappersProofs`: `Conservation`, `Transparency` | `Conserved`, `Transparent` (refinement of `HttpHost`) | |

### The data section and the patched adapter

For every stack size that is a multiple of 8 (`StackTopAssumption`: wasm-ld
aligns the initial stack pointer), every set of strings with any lengths, all
file lengths, any cutoff and any number of entries and words.
`AllocationsDisjoint` alone is not inductive, since the next allocation must be
known to lie below all earlier ones, and `finish` needs the pointer to stay
between 0 and the start, which is aligned.  `IInv` adds to the properties that
`data` is well formed (`DataOK`: every placed range is between the pointer and
the start, every string is placed) and ties each phase to what has been placed.
`NewPtrBounds` and `NewPtrParity` are the arithmetic of `stack_alloc`, including
the padding from the old pointer; the second is why the preopen table is
aligned while the index need not be.

`AdapterImage` implements `DataSection` (`ImplementsDataSection`: each of its
steps is one of `DataSection`), so that all of this holds of the patched adapter,
for every layout that `LayoutAssumption` admits, all options and any number of
files.  `NeverPanics` is not inductive: one must know which segment the search
finds.  `ImageInv` says that until `io` is patched the image begins with the
adapter's own segments, whole, and goes on with blocks that start below the
stack's top, hence below all of these (this uses `StackBelowData` of the refined
specification); so the search always finds the own segment that starts nearest,
which for `env` and `config` is the one that holds the struct (`Home`) and for
`io` the last (`SegmentForOwn`).  `ResizedFits` is the arithmetic of the 16 bytes
that are made 20 by the padding: it needs that `io` and the segments are aligned.
`PassiveInv` ties the index that an entry was given when it was visited to the slot
that `finish` fills later.

`StructsLoaded` speaks of the end only.  `LoadInv` says how it comes about: the
own segments go up and every block is put below all that is loaded already, down
to `stack_pointer` (`Ordered`), so that a byte is loaded from the one segment that
has it (`LastIs`); after each stage the structs that were configured say what was
asked for and point to a block of the size it takes, and those that were not are
as their source initialized them (`StructsInv`), which matters because the code
writes only the fields that differ; of either table there is exactly one, at the
pointer that will be written (`IoInv`); and the section has all that was
placed (`SectionInv`).  A patch must not disturb the other structs, though they may share
a segment with it: `FieldsApart` and `IoBehind`.

### The index and its lookups

For every forest, however deep and wide, the child slice of every directory in
the finished index is its children, in order.  The invariant counts: the running
`child_offset` is the number of entries still to come on this level plus the
children of those already visited on it, so that the current position plus the
offset is where the next level's entries for this directory will be put.

`LookupsFindTheTree` is about every path of names, of any length, from every
preopen.  It adds to the invariant that the preopens' indices are those of their
roots (`RootsOK`), and goes by induction on the length of the path: position and
node of the tree stay those of one another.  On the way it proves what the binary
search relies on: the slice is in order, because it is the children and these come
in the order of a `BTreeMap`.  `PlainLookups` supposes that the
children of a node have different names and come in their order (they are keys of a
map), that no entry is
a runtime directory, whose child list traps, and that no part of a path is empty or
`.`, which the adapter skips while the tree has no such step.

### Reading the host

For every configured filesystem, any host, and any changes of it while it is
read.  `SetupsAssumption` says what a configuration is: what is above an entry is
a directory of it (they are a `BTreeMap` within a `BTreeMap`), and the preopens
come in the order of their keys, so that none is above, or the same place as, an
earlier one.  The last holds because a path is a prefix of those below it; it
supposes that no two keys differ in a trailing slash only, which would make them
one place with two entries.

None of the three properties is inductive: they speak of the end, or of
where an entry is from several directories up.  `RInv` has what is needed on the way:

* `TreeOf`: every entry is below one that was configured, at the same names
  there as on the host (`From`), so that the path an entry keeps is `Source`;
* `TasksOK`: an entry still to be read is reached by a call that is pending
  (`Reaches`), which makes `Linearize` come too late for none.  This holds since
  each visit is followed by the loops over the same entry (`Followed`), the one
  behind the other on the stack of calls;
* `StageOK` and `ReadOK`: what a system call said, and what was read by it, is
  what the host has until it changes (for `FailsForACause`, until it changes after the
  last metadata);
* `FilesOK`: the calls that are pending are for no preopen above one that has been
  listed (`InOrder`), so that an insert that overwrites a key of `virtual_files`
  is for the preopen whose name is longer, which is the one that the guest's path opens.

`Only`, the order of a map's keys, and `Resolve`, the walk on the host, are
recursive functions, about which the lemmas are proved by induction.

Reading and linearizing together: `AsForest` of a tree that was read is a forest
(`ForestRead`), so that the steps behind it keep the invariant of `FsIndex`
(`HandedOver`), and `ChildListsExact` and `LookupAgrees` hold of every index that a
virtualization writes.  `NodeAssumption` says that `Node` has room for what the
walk can come to, and that a path that leads nowhere leads to no directory: an entry
is listed in a directory that the host resolved, hence not below `MaxPath`
(`DirectoryIs`), by a name that some directory of the host had from the start
(`HostOK`).  `PlainTrees` is `PlainLookups` for what is configured; that siblings
differ (`OnlyOnce`) and are in order is proved.

### Host preopens

For plain names and paths of any length, over any characters and any set of
preopens, the loop returns the first preopen by name that the path is under, with
what is left of the path below it, and panics exactly if nothing is left of the path
and the current directory is among the preopens.  `PlainName` is how a host
names its preopens: a name that begins with a dot is `.` or goes on with `./`, after
which it is not absolute; it has no empty or `.` part and no slash at its end.
`PlainPath` is weaker: a path may be `./`, empty, or end in a slash; it too has no
empty or `.` part but those, and stripping a `./` does not make it absolute.  `..` is
a part like any other, as in the code.  That the panic comes whatever other preopens
there are holds because a bare path begins with no name but an empty one, so that
every other preopen is skipped.  What a path denotes is a recursive function of its
characters; the lemmas about it are proved by induction, as the absence of a least
counterexample.

### The filesystem adapter

`BehavesAsTree` is the refinement of `VirtualFs` for every index that represents
the tree (`WorldsAssumption`, which `ChildListsSound` establishes for what the
virtualizer writes), all guests and hosts, preopens that are runtime entries
included.  The mapping sends a position to its node.  There is a lemma for each call:
given that descriptors are positions of the index (`TInv`) and that streams are
within their files (`Within`), the adapter's answer is one that `VirtualFs` allows to
that call, on that object, with that path, offset and length.  The two lookups meet
in an induction on the path: walking the index and walking the tree stay at
corresponding places, the slices that are searched are in order, and where the walk
ends at a runtime entry both ask the host the same; where it traps, `VirtualFs`
allows that.

`TrapsAreKnown` is the other half.  The same induction says where a walk can trap:
a slice of a directory is within the index, so only below a runtime directory, and
since names are unique (`ReachUnique`) that is the one that the path's own first
names lead to (`GoesBelowRuntime`).  A lookup of a host path panics only if it is
bare (`LeadsToBare`, from `HostPreopenProofs`).  And a static descriptor is a
runtime entry only if it is a preopen, for no open ever returns another
(`RootsOnly`, which is inductive and supposes nothing).  `StaticsOnly` follows from
it where no preopen is one (`StaticPreopens`).

Each theorem has the hypotheses it needs and no other: `GuestReads` (offsets and
lengths fit a usize) where the amount read counts, and `HostLookups` (the names and
paths that `get_host_preopen` meets are plain) where an answer of the host does.

### Streams and poll

For all configurations, stubbed ones included, all lengths, lists and amounts, and
no hypothesis.  The guest's book and the host's are each written by every return
from the host, each from its own side; that they agree needs to be known of the call
that is under way (`CallOK`): a read waits on a stdin of the host, a write on a
stdout of the host, a splice on both, so that neither is an ignored one, and a poll
has asked for its whole list.  A failure breaks the equation on one side
only, which is why the inequality is carried along with it.  `ArrivalOK` bounds what
can still arrive.  `PollComplete` uses the same invariant: what the host was asked
for is the whole list, so that what is ready of the one is ready of the other.
`PanicsAreKnown` goes through all calls: `OnHost` panics only if io is stubbed, hence no
standard stream is allowed, hence no stream of the guest is the host's and only the clock
or an empty list gets there.

### Environment and configuration

For every configuration and host, strings of any number and length.  The writer's
and the reader's halves of the invariant share one definition of the offset at
which the k-th string starts (`off`), a sum of padded lengths: the writer stands
at the offset of the string it writes (`WriterInv`), the reader at that of the
string it reads (`ReaderInv`).  `SearchesOrdered` needs that sorting by rank
yields a sorted list, which is an argument about the cardinalities of sets of
positions.  `NothingLeaks` needs in addition that what the reader
has gathered so far was permitted by the searches it did.

`ReadsExact` says more than that: nothing permitted is missing, and the order is
the host's.  `Exact` says it of every step of the reader: once the overrides are all
gathered, what follows them is what should be shown of the host's fields looked
at so far (`ShownOf`, a recursive function of the number of fields).  A search
that `SearchesOrdered` makes sound finds a key if and only if it is there, which
is what connects the loop's decisions with `ShownOf`; `get` returns the first
field with its key since all before it were seen to have another.  Where the host's
call fails the guest is told so, and has been shown nothing.

### The virtualizer

For every sequence of calls of the builder, every command line, any set of streams
that has `stderr`, any toggles and any components to compose with.  The invariant
`OptionsOK` is short: the options are those that were asked for, or these filtered
when there is something to compose with; they are in debug mode only once the
command line finished, and then with stderr allowed.  The work is in what `finish` makes
of one set of options.  It goes through the stages in their order (the stubs and
strips, the world, the exports, `io` last), says of each which interfaces are in
it by an equivalence instead of an expression, and derives the four properties from
these.  `NothingBeyondOptions` has to follow an interface through the adapter as
well as around it, and to know that the filter keeps the options of every interface
that the component imports, `Forgotten` aside (`AskedFor`), and `FilterTransparentElsewhere` compares the two results of
finishing with and without the filter.

### Temporary files

For any number of processes and any time.  The invariant has to say what a
process that met nobody can count on at each step: which of its files are there
and what they contain (`Files`), and that it fails after a fault only
(`Causes`).  That others leave these files alone takes more: two that hold one
name have met (`Apart`), a file has one name (`OneName`), and a file that is open
for writing has none but the one it was opened by (`Targets`), so that a write
never lands in a file that somebody else created under another name.

### HTTP and name lookup

For any number of handles, any values, methods and codes (`MessagesAssumption`: a
method or a code is a variant with its payload; there is a method).  `Inv` says
that each of the guest's wrappers is around one handle of the adapter's and each
handle within one wrapper (`Wraps`), and that the table is one (`WellFormed`: a
parent lives as long as its children, and what a resource holds is of a form that
the renaming of variants leaves as it is).  `View` is the refinement mapping: the
guest's handles with the resources within, each a child of the wrapper around its
parent.  `ViewOfAdded`, `ViewOfRemoved` and `ViewOfAmended` say that a change
of the table and of the wrappers is that same change of the view; then there is a
lemma for each kind of call of `HttpResources` (`MakingMirrors` and so on) that
whatever it may come to for the adapter, the same call of the host could have come
to for the guest itself (`Mirrors`), which also keeps `Inv`.  `Conserved` is a part of
`Inv`; `Transparency` takes every impl of `HostWrappers` to the call of `HttpHost` it
stands for (`CallStep`).

### What stays with TLC

`TypeOK` of the modules with proofs, `AllEmbedded`, `PreopensAligned`,
`StringsStable` and `StaticNeverRuntime` are the other way round: proved, and not
checked by a passing run of their own.

Every invariant that a passing run checks is a theorem, and so is every action property
and refinement.  Only checked is liveness (`Returns`, `Woken`, `Ends`): no prover
here reasons about fairness.

## Not modelled

* the bytes of files and strings: what matters is where they are;
* the wrappers for incoming requests, response-outparams, TCP and UDP sockets and
  datagram streams (`io.rs`): the adapter has the methods, but nothing in it ever
  makes one, so that no guest can call them;
* the deny stubs function by function (`src/virt_deny/`): they are lists of names
  without state; `Virtualizer` has the interfaces they cover;
* `src/stub_preview1.rs`, a list like these, which nothing in the crate calls;
* reading a clock and debug logging, which are passed on;
* wit-component, wasm-opt, wasm-compose and the encoding of components
  (libraries and tools; what they do to files and imports is in the models).

## Plan

1. `DataSection`, `StaticIndex`/`FsIndex` and their proofs; `HostPath`/`HostPreopen`;
   `VirtualFs`/`AdapterFs`; `AdapterIo`; `EnvConfig` - done.
2. `Virtualizer`, over all combinations of options - done.
3. `AdapterImage`, `ReadHost`, `TempFiles`, `HostWrappers`, and proofs of the first
   and the last two - done.
4. Proofs of `DataSection`, `AdapterImage`, `FsIndex`, `HostPreopen`, `AdapterFs`
   with its refinement of `VirtualFs`, `AdapterIo`, `EnvConfig`, `HostWrappers` with
   its refinement of `HttpHost` - done.
5. Proofs of `Virtualizer`, `ReadHost` and `ReadsExact` of `EnvConfig` - done.
