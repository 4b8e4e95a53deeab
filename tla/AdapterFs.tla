----------------------------- MODULE AdapterFs -----------------------------
(***************************************************************************)
(* The filesystem half of the virtual adapter, virtual-adapter/src/io.rs:  *)
(* what runs inside the virtualized component when the guest calls         *)
(* wasi:filesystem.  A descriptor is either a position in the static index *)
(* or a host descriptor; calls on the former are answered from the index,  *)
(* calls on the latter, and on the runtime entries of the index, are       *)
(* passed on to the host.                                                  *)
(*                                                                         *)
(* A component instance runs one call at a time, so a call is an action.   *)
(* The guest makes any calls, in any order, on any descriptors and streams *)
(* it holds.  The index is as FsIndex leaves it.                           *)
(***************************************************************************)
EXTENDS StaticIndex, HostPath, FiniteSets

CONSTANTS
  Worlds,     (* the configurations                                        *)
  Streams,    (* the stream resources                                      *)
  Paths,      (* the paths the guest uses                                  *)
  Offsets,    (* the offsets it reads from                                 *)
  Lens,       (* the lengths it reads                                      *)
  UsizeMod,   (* 2^32 in the code: a file offset is a u64, an address is   *)
              (* not                                                       *)
  MaxHeld,    (* bound: the descriptors the guest holds at once            *)
  MaxIdx      (* bound: the calls of read-directory-entry on one stream    *)

(***************************************************************************)
(* A configuration is the index and the positions of the preopens, as the  *)
(* virtualizer writes them; whether the guest is given the preopens of the *)
(* host; these preopens, in the order the host lists them, the objects of  *)
(* the host and where paths lead there.  For the properties it also has    *)
(* the configured tree, which the index represents: origin tells what a    *)
(* position stands for.                                                    *)
(***************************************************************************)
Represents(i, origin, tree) ==
  /\ DOMAIN origin = 1..Len(i)
  /\ ListsChildren(i, origin, tree.children)
  /\ \A p, q \in 1..Len(i) : origin[p] = origin[q] => p = q
  /\ \A p \in 1..Len(i) :
       LET n == origin[p]
       IN  /\ tree.ty[n] \in {"dir", "file"} \cup RuntimeTypes
           /\ i[p].name = tree.name[n]
           /\ i[p].ty = IF tree.ty[n] # "file" THEN tree.ty[n]
                        ELSE IF tree.passive[n] THEN "passive" ELSE "active"
           /\ tree.ty[n] = "file" => i[p].data[2] = tree.size[n]
           /\ tree.ty[n] \in RuntimeTypes => i[p].data[1] = tree.host_path[n]

\* Only directories have children, in the order of their names, which differ;
\* lengths and offsets are words.
Sound(i, origin, tree) ==
  \A p \in 1..Len(i) :
    LET n == origin[p]
        listed == tree.children[n]
    IN  /\ IF tree.ty[n] = "dir"
           THEN i[p].data[1] \in Nat /\ i[p].data[2] \in Nat
           ELSE listed = <<>>
        /\ tree.ty[n] \in DirTypes => tree.size[n] = 0
        /\ tree.ty[n] = "file" => tree.size[n] \in 0..(UsizeMod - 1)
        /\ \A c, d \in 1..Len(listed) :
             LET one == tree.name[listed[c]]
                 two == tree.name[listed[d]]
             IN  (one = two => c = d) /\ (c < d => <<one, two>> \in ByteOrder)

\* The map from the names of the host's preopens: of two with a name, the last.
HostMap(list) ==
  [n \in {list[i].name : i \in 1..Len(list)} |->
     list[CHOOSE i \in 1..Len(list) :
            /\ list[i].name = n
            /\ \A j \in 1..Len(list) : j > i => list[j].name # n].dir]

\* An object of the host is the sequence of components that leads to it.  Where
\* the host has what a path leads to from there, if anything, is up to the host,
\* but never above.
HostSound(w) ==
  /\ w.host_objects \subseteq Seq(Path)
  /\ \A o \in w.host_objects, path \in Paths :
       \A p \in w.resolve[<<o, path>>] : p \in w.host_objects /\ StartsWith(p, o)
  /\ Len(w.host_list) \in Nat
  /\ \A i \in 1..Len(w.host_list) : w.host_list[i].dir \in w.host_objects
  /\ w.host = HostMap(w.host_list)

ASSUME WorldsAssumption ==
  /\ UsizeMod \in Nat
  /\ \A w \in Worlds :
       /\ Len(w.index) \in Nat
       /\ Represents(w.index, w.origin, w.tree)
       /\ Sound(w.index, w.origin, w.tree)
       /\ Len(w.preopens) \in Nat
       /\ \A i \in 1..Len(w.preopens) : w.preopens[i] \in 1..Len(w.index)
       /\ w.tree.roots = [i \in 1..Len(w.preopens) |-> w.origin[w.preopens[i]]]
       /\ HostSound(w)

Elements(s) == {s[i] : i \in 1..Len(s)}

\* A path has at least one part, which may be empty.
ASSUME CallsAssumption ==
  /\ \A path \in Paths : path \in Seq(Elements(path)) /\ path # <<>>
  /\ Offsets \subseteq Nat /\ Lens \subseteq Nat

VARIABLES
  world,                     (* the configuration                          *)
  initialized,               (* STATE.initialized                          *)
  preopen_directories,       (* STATE.preopen_directories                  *)
  host_preopen_directories,  (* STATE.host_preopen_directories             *)
  held,                      (* the descriptors the guest holds            *)
  streams,                   (* its input streams and directory streams    *)
  call,                      (* history: what the last call was made on    *)
                             (* and with                                   *)
  answer                     (* which operation it was, and its result     *)

state == <<initialized, preopen_directories, host_preopen_directories>>
vars == <<world, state, held, streams, call, answer>>

Static(k) == [kind |-> "static", at |-> k]
Host(o) == [kind |-> "host", at |-> o]
Stat(dir, size) == [kind |-> "stat", at |-> <<dir, size>>]
Hash(idx) == [kind |-> "hash", at |-> idx]
Idle == [kind |-> "none", of |-> <<>>, pos |-> 0]

index == world.index
Runtime(k) == index[k].ty \in RuntimeTypes
Size(k) == IF index[k].ty \in DirTypes THEN 0 ELSE index[k].data[2]

\* The flag FLAGS_HOST_PASSTHROUGH, which create_io_virt sets when the host's
\* preopens are given to the guest or an entry of the index is a runtime one.
HostPassthrough ==
  world.host_preopens \/ \E k \in 1..Len(index) : Runtime(k)

Asks(on, args) == call' = [on |-> on, args |-> args]
Reply(op, status, value) == answer' = [op |-> op, status |-> status, value |-> value]
Alive == answer.status # "trap"

(***************************************************************************)
(* IoState::initialize, which only get_directories calls: the host's       *)
(* preopens first, then the static ones.                                   *)
(***************************************************************************)
\* Mutant: the preopens of the host are always handed out.
HostEntriesAlways ==
  [i \in 1..Len(world.host_list) |-> Host(world.host_list[i].dir)]

HostEntries ==
  IF ~world.host_preopens THEN <<>>
  ELSE [i \in 1..Len(world.host_list) |-> Host(world.host_list[i].dir)]

StaticEntries == [i \in 1..Len(world.preopens) |-> Static(world.preopens[i])]

HostDirectories ==
  IF ~HostPassthrough THEN [n \in {} |-> <<>>] ELSE HostMap(world.host_list)

\* Mutant: initialize does not check whether it has already run.
InitializeAgain ==
  /\ initialized' = TRUE
  /\ preopen_directories' = preopen_directories \o HostEntries \o StaticEntries
  /\ host_preopen_directories' = HostDirectories

Initialize ==
  IF initialized THEN UNCHANGED state
  ELSE /\ initialized' = TRUE
       /\ preopen_directories' = preopen_directories \o HostEntries \o StaticEntries
       /\ host_preopen_directories' = HostDirectories

Grant(ds) == Cardinality(held \cup ds) <= MaxHeld /\ held' = held \cup ds

GetDirectories ==
  /\ Alive
  /\ Initialize
  /\ Grant(Elements(preopen_directories'))
  /\ Asks(<<>>, <<>>)
  /\ Reply("get-directories", "ok", preopen_directories')
  /\ UNCHANGED <<world, streams>>

DropDescriptor(d) ==
  /\ Alive
  /\ held' = held \ {d}
  /\ UNCHANGED <<world, state, streams, call, answer>>

(***************************************************************************)
(* The operations at a path: open_at, stat_at, readlink_at and             *)
(* metadata_hash_at.  All look the path up first, and pass on to the host  *)
(* what they find to be a runtime entry.                                   *)
(***************************************************************************)
PathOps == {"open", "stat", "readlink", "hash"}

\* The host does what it is asked to do at an object, or refuses.
HostAnswers(op, objects) ==
  \/ \E o \in objects \cap world.host_objects :
       /\ IF op = "open" THEN Grant({Host(o)}) ELSE UNCHANGED held
       /\ Reply(op, "ok", Host(o))
  \/ Reply(op, "host-error", <<>>) /\ UNCHANGED held

AnswerRuntime(op, k) ==
  LET path == index[k].data[1]
      names == DOMAIN host_preopen_directories
  IN  IF Candidates(names, path) = {}
      THEN Reply(op, "no-entry", <<>>) /\ UNCHANGED held
      ELSE LET name == GetHostPreopen(names, path)
               found == Try(name, path)
           IN  IF found.kind = "panic" THEN Reply(op, "trap", <<>>) /\ UNCHANGED held
               ELSE HostAnswers(op, {host_preopen_directories[name]
                                       \o Components(found.rest)})

\* size() asks the host for that of a runtime file.
AnswerStatic(op, k) ==
  CASE op = "open" -> Grant({Static(k)}) /\ Reply(op, "ok", Static(k))
    [] op = "stat" -> IF index[k].ty = "rfile" THEN AnswerRuntime(op, k)
                      ELSE /\ Reply(op, "ok", Stat(IsDirectory(index, k), Size(k)))
                           /\ UNCHANGED held
    [] op = "type" -> Reply(op, "ok", Stat(IsDirectory(index, k), 0)) /\ UNCHANGED held
    [] op = "hash" -> Reply(op, "ok", Hash(k - 1)) /\ UNCHANGED held
    [] op = "readlink" -> Reply(op, "invalid", <<>>) /\ UNCHANGED held

\* Mutant: a runtime entry is opened like any other.
AnswerLookupStatic(op, looked) ==
  IF ~looked.ok THEN Reply(op, looked.err, <<>>) /\ UNCHANGED held
  ELSE AnswerStatic(op, looked.at)

AnswerLookup(op, looked) ==
  IF ~looked.ok THEN Reply(op, looked.err, <<>>) /\ UNCHANGED held
  ELSE IF Runtime(looked.at) THEN AnswerRuntime(op, looked.at)
  ELSE AnswerStatic(op, looked.at)

\* A path from a host descriptor is the host's to resolve.
AtPath(op, d, path) ==
  /\ Alive
  /\ Asks(<<d>>, <<"path", path>>)
  /\ IF d.kind = "host" THEN HostAnswers(op, world.resolve[<<d.at, path>>])
     ELSE AnswerLookup(op, DirLookup(index, d.at, path))
  /\ UNCHANGED <<world, state, streams>>

\* stat, get_type and metadata_hash, which look no further than the descriptor.
AtDescriptor(op, d) ==
  /\ Alive
  /\ Asks(<<d>>, <<>>)
  /\ IF d.kind = "host" THEN HostAnswers(op, {d.at}) ELSE AnswerStatic(op, d.at)
  /\ UNCHANGED <<world, state, streams>>

IsSameObject(d, e) ==
  /\ Alive
  /\ Asks(<<d, e>>, <<>>)
  /\ \E same \in CASE d.kind = "static" /\ e.kind = "static" -> {d.at = e.at}
                   [] d.kind = "host" /\ e.kind = "host" -> BOOLEAN
                   [] OTHER -> {FALSE} :
       Reply("is-same-object", "ok", same)
  /\ UNCHANGED <<world, state, held, streams>>

\* Everything that would change the filesystem, on any descriptor.
Modify(d) ==
  /\ Alive
  /\ Asks(<<d>>, <<>>)
  /\ Reply("modify", "access", <<>>)
  /\ UNCHANGED <<world, state, held, streams>>

\* get_flags says that a descriptor can be read, whatever the host opened it for.
GetFlags(d) ==
  /\ Alive
  /\ Asks(<<d>>, <<>>)
  /\ Reply("get-flags", "ok", "read")
  /\ UNCHANGED <<world, state, held, streams>>

\* advise is still to be done.
Advise(d) ==
  /\ Alive
  /\ Asks(<<d>>, <<>>)
  /\ Reply("advise", "trap", <<>>)
  /\ UNCHANGED <<world, state, held, streams>>

(***************************************************************************)
(* File streams.  The position is a u64 kept in a Cell; an address is a    *)
(* usize.                                                                  *)
(***************************************************************************)
AsUsize(n) == n % UsizeMod

\* Mutant: everything asked for is delivered, whatever the file has left.
ReadLenUnbounded(k, offset, len) == AsUsize(len)

ReadLen(k, offset, len) ==
  LET left == index[k].data[2] - AsUsize(offset)
  IN  IF left <= AsUsize(len) THEN left ELSE AsUsize(len)

\* StaticIndexEntry::read: what stops it, if anything.
ReadError(k, offset) ==
  LET size == index[k].data[2]
      at == AsUsize(offset)
  IN  CASE index[k].ty \in DirTypes -> "is-directory"
        [] index[k].ty = "rfile" -> "trap"
        [] index[k].ty = "active" /\ at > size -> "invalid-seek"
        [] index[k].ty = "active" /\ at = size -> "closed"
        [] index[k].ty = "passive" /\ at >= size -> "closed"
        [] OTHER -> "none"

ReadBytes(k, offset, len) ==
  <<AsUsize(offset), AsUsize(offset) + ReadLen(k, offset, len)>>

Advance(k, offset, len) == offset + ReadLen(k, offset, len)

ReadStream(s, len) ==
  LET k == streams[s].of.at
      offset == streams[s].pos
      error == ReadError(k, offset)
  IN  /\ Alive
      /\ streams[s].kind = "file"
      /\ Asks(<<>>, <<"stream", s, len>>)
      /\ IF streams[s].of.kind = "host"
         THEN Reply("read", "host", <<>>) /\ UNCHANGED streams
         ELSE IF error # "none" THEN Reply("read", error, <<>>) /\ UNCHANGED streams
         ELSE /\ Reply("read", "ok", ReadBytes(k, offset, len))
              /\ streams' = [streams EXCEPT ![s].pos = Advance(k, offset, len)]
      /\ UNCHANGED <<world, state, held>>

\* read_via_stream checks nothing of a static entry, not even that it is a file.
ReadViaStream(s, d, offset) ==
  /\ Alive
  /\ streams[s] = Idle
  /\ Asks(<<d>>, <<"from", offset>>)
  /\ \/ /\ streams' = [streams EXCEPT ![s] = [kind |-> "file", of |-> d, pos |-> offset]]
        /\ Reply("read-via-stream", "ok", <<>>)
     \/ /\ d.kind = "host"
        /\ Reply("read-via-stream", "host-error", <<>>)
        /\ UNCHANGED streams
  /\ UNCHANGED <<world, state, held>>

\* descriptor.read: a stream for one read; its errors become io.
ReadAt(d, offset, len) ==
  LET error == ReadError(d.at, offset)
  IN  /\ Alive
      /\ Asks(<<d>>, <<"from", offset, len>>)
      /\ IF d.kind = "host"
         THEN \E status \in {"host", "host-error"} : Reply("pread", status, <<>>)
         ELSE CASE error = "none" ->
                     Reply("pread", "ok", ReadBytes(d.at, offset, len))
                [] error = "closed" -> Reply("pread", "ok", <<>>)
                [] error = "trap" -> Reply("pread", "trap", <<>>)
                [] OTHER -> Reply("pread", "io", <<>>)
      /\ UNCHANGED <<world, state, held, streams>>

(***************************************************************************)
(* Directory streams.                                                      *)
(***************************************************************************)
ReadDirectory(s, d) ==
  /\ Alive
  /\ streams[s] = Idle
  /\ Asks(<<d>>, <<>>)
  /\ IF d.kind = "static" /\ ~IsDirectory(index, d.at)
     THEN Reply("read-directory", "not-directory", <<>>) /\ UNCHANGED streams
     ELSE \/ /\ streams' = [streams EXCEPT ![s] = [kind |-> "dir", of |-> d, pos |-> 0]]
             /\ Reply("read-directory", "ok", <<>>)
          \/ /\ d.kind = "host"
             /\ \E status \in {"host-error", "not-directory"} :
                  Reply("read-directory", status, <<>>)
             /\ UNCHANGED streams
  /\ UNCHANGED <<world, state, held>>

\* StaticIndexEntry::next: the cursor moves on even past the end.
ReadDirectoryEntry(s) ==
  LET k == streams[s].of.at
      entry == streams[s].pos
  IN  /\ Alive
      /\ streams[s].kind = "dir" /\ streams[s].pos < MaxIdx
      /\ Asks(<<>>, <<"stream", s>>)
      /\ IF streams[s].of.kind = "host"
         THEN Reply("entry", "host", <<>>) /\ UNCHANGED streams
         ELSE IF ~SliceInBounds(index, k) THEN Reply("entry", "trap", <<>>) /\ UNCHANGED streams
         ELSE /\ streams' = [streams EXCEPT ![s].pos = @ + 1]
              /\ IF entry < ChildCount(index, k)
                 THEN Reply("entry", "ok", ChildFirst(index, k) + entry)
                 ELSE Reply("entry", "end", <<>>)
      /\ UNCHANGED <<world, state, held>>

DropStream(s) ==
  /\ Alive
  /\ streams' = [streams EXCEPT ![s] = Idle]
  /\ UNCHANGED <<world, state, held, call, answer>>

Init ==
  /\ world \in Worlds
  /\ initialized = FALSE
  /\ preopen_directories = <<>>
  /\ host_preopen_directories = [n \in {} |-> <<>>]
  /\ held = {}
  /\ streams = [s \in Streams |-> Idle]
  /\ call = [on |-> <<>>, args |-> <<>>]
  /\ answer = [op |-> "none", status |-> "ok", value |-> <<>>]

OnDescriptor(d) ==
  \/ DropDescriptor(d)
  \/ \E op \in PathOps, path \in Paths : AtPath(op, d, path)
  \/ \E op \in {"stat", "type", "hash"} : AtDescriptor(op, d)
  \/ \E e \in held : IsSameObject(d, e)
  \/ Modify(d)
  \/ GetFlags(d)
  \/ Advise(d)
  \/ \E s \in Streams, offset \in Offsets : ReadViaStream(s, d, offset)
  \/ \E offset \in Offsets, len \in Lens : ReadAt(d, offset, len)
  \/ \E s \in Streams : ReadDirectory(s, d)

OnStream(s) ==
  \/ \E len \in Lens : ReadStream(s, len)
  \/ ReadDirectoryEntry(s)
  \/ DropStream(s)

Next ==
  \/ GetDirectories
  \/ \E d \in held : OnDescriptor(d)
  \/ \E s \in Streams : OnStream(s)

Spec == Init /\ [][Next]_vars

-----------------------------------------------------------------------------
(***************************************************************************)
(* What some theorems suppose: StaticsOnly, that no preopen is a runtime   *)
(* entry; those about what is read, that offsets and lengths fit a usize,  *)
(* which cuts them; and those about the host, that there are no names and  *)
(* paths that get_host_preopen matches wrongly (see PlainName and          *)
(* PlainPath).                                                             *)
(***************************************************************************)
StaticPreopens(w) ==
  \A i \in 1..Len(w.preopens) : w.index[w.preopens[i]].ty \notin RuntimeTypes

GuestReads ==
  Offsets \subseteq 0..(UsizeMod - 1) /\ Lens \subseteq 0..(UsizeMod - 1)

HostLookups ==
  \A w \in Worlds :
    /\ \A i \in 1..Len(w.host_list) :
         w.host_list[i].name \in Path /\ PlainName(w.host_list[i].name)
    /\ \A k \in 1..Len(w.index) :
         w.index[k].ty \in RuntimeTypes =>
           w.index[k].data[1] \in Path /\ PlainPath(w.index[k].data[1])

-----------------------------------------------------------------------------
(***************************************************************************)
(* Properties.                                                             *)
(***************************************************************************)

Descriptor ==
  {Static(k) : k \in 1..Len(index)} \cup {Host(o) : o \in world.host_objects}

StreamState ==
  {Idle} \cup [kind : {"file", "dir"}, of : Descriptor, pos : Nat]

\* A stream on a static file never gets beyond the end of the file, unless the
\* guest opened it there: no read delivers bytes that are not the file's.
StreamsInside ==
  \A s \in Streams :
    streams[s].kind = "file" /\ streams[s].of.kind = "static" =>
      streams[s].pos \in Offsets \/ streams[s].pos <= Size(streams[s].of.at)

\* What the runtime entries of the configuration denote on the host.
Configured ==
  UNION {LET path == index[k].data[1]
         IN  {h.dir \o Drop(Components(path), Len(Components(h.name))) :
                h \in {g \in Elements(world.host_list) :
                         /\ Absolute(g.name) = Absolute(path)
                         /\ StartsWith(Components(path), Components(g.name))}} :
         k \in {j \in 1..Len(index) : Runtime(j)}}

\* Unless the host's preopens are given to the guest, it never holds a host
\* descriptor but of something at or below a configured runtime entry,
\* whatever it opens from what it has.
Contained ==
  ~world.host_preopens =>
    \A d \in held : d.kind = "host" =>
      \E o \in Configured : StartsWith(d.at, o)

\* The comment of is_same_object: an open static descriptor never points to a
\* runtime entry, so comparing positions and reading files is safe.
StaticNeverRuntime ==
  \A d \in held : d.kind = "static" => ~Runtime(d.at)

\* get_directories gives the same descriptors and names at every call, and
\* the host is asked for its preopens once.
PreopensStable == [][initialized => UNCHANGED state]_vars

(***************************************************************************)
(* The refinement: positions are mapped to what they stand for.            *)
(***************************************************************************)
ObjectOf(d) ==
  CASE d.kind = "static" -> <<"node", world.origin[d.at]>>
    [] d.kind = "hash" -> <<"node", world.origin[d.at + 1]>>
    [] d.kind = "host" -> <<"host", d.at>>
    [] d.kind = "stat" -> <<"stat", d.at>>

ValueOf(a) ==
  IF a.status # "ok" THEN a.value
  ELSE IF a.op = "get-directories" THEN {ObjectOf(d) : d \in Elements(a.value)}
  ELSE IF a.op \in PathOps \cup {"type"} THEN ObjectOf(a.value)
  ELSE IF a.op = "entry" THEN <<"node", world.origin[a.value]>>
  ELSE a.value

\* The cursor of a directory stream moves on past the end; how far does not
\* matter.
PosOf(s) ==
  IF /\ streams[s].kind = "dir" /\ streams[s].of.kind = "static"
     /\ index[streams[s].of.at].ty = "dir"
     /\ streams[s].pos > ChildCount(index, streams[s].of.at)
  THEN ChildCount(index, streams[s].of.at)
  ELSE streams[s].pos

Abstract == INSTANCE VirtualFs WITH
  held <- {ObjectOf(d) : d \in held},
  streams <- [s \in Streams |->
                [kind |-> streams[s].kind,
                 of |-> IF streams[s] = Idle THEN <<>> ELSE ObjectOf(streams[s].of),
                 pos |-> PosOf(s)]],
  call <- [on |-> [i \in 1..Len(call.on) |-> ObjectOf(call.on[i])], args |-> call.args],
  answer <- [op |-> answer.op, status |-> answer.status, value |-> ValueOf(answer)]

\* The adapter behaves as the configured tree: every answer to the guest is one
\* that VirtualFs allows to that very call, over any sequence of calls.
ImplementsVirtualFs == Abstract!Spec

(***************************************************************************)
(* The panics.                                                             *)
(***************************************************************************)
\* The descriptors that the last call was about.
Concerned ==
  IF answer.op \in {"read", "entry"} THEN {streams[call.args[2]].of}
  ELSE Elements(call.on)

\* A path goes on after names that lead to a runtime directory, from that very
\* descriptor for one.
GoesBelowRuntime(n, path) ==
  \E m \in 0..(Len(Abstract!Trim(path)) - 1) :
    \E r \in Abstract!Reached(n, SubSeq(path, 1, m)) : world.tree.ty[r] = "rdir"

\* A path leads to a runtime entry of which get_host_preopen has nothing left to
\* look at, where the host has its current directory among its preopens.
LeadsToBare(n, path) ==
  \E r \in Abstract!Reached(n, Abstract!Trim(path)) :
    /\ world.tree.ty[r] \in RuntimeTypes
    /\ Bare(world.tree.host_path[r])
    /\ Abstract!Denoted(world.tree.host_path[r]) # {}

\* The calls that panic the adapter, which is then gone, are these: advise; an
\* empty path; a path that goes on below a runtime directory, whose slice leaves
\* the index; a runtime entry configured as "./"; and what is done with a preopen
\* that is a runtime entry itself.  No sequence of calls makes any other panic.
TrapsForACause ==
  ~Alive =>
    \/ answer.op = "advise"
    \/ \E d \in Concerned :
         d.kind = "static" /\ Runtime(d.at) /\ d.at \in Elements(world.preopens)
    \/ /\ answer.op \in PathOps /\ call.args # <<>> /\ call.on[1].kind = "static"
       /\ LET n == world.origin[call.on[1].at]
              path == call.args[2]
          IN  path = <<Empty>> \/ GoesBelowRuntime(n, path) \/ LeadsToBare(n, path)

=============================================================================
