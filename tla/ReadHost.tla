------------------------------ MODULE ReadHost ------------------------------
(***************************************************************************)
(* How create_io_virt turns the configured filesystem into an inline one   *)
(* before it is linearized: visit_pre_mut walks every preopen, a Source    *)
(* becomes a File, and a Virtualize entry becomes the file or directory    *)
(* that the host has under its path; what a directory contains becomes     *)
(* Virtualize entries, read when the walk comes to them.  virtual_files    *)
(* says which guest path came from which host path.  The result is handed  *)
(* to FsIndex.                                                             *)
(*                                                                         *)
(* fs::metadata, fs::read_dir and fs::read are steps of their own: the     *)
(* host's filesystem is live and may change between them, and it may refuse *)
(* any of them, for its rights or its disk.                                *)
(***************************************************************************)
EXTENDS FsIndex

CONSTANTS
  Preopens,     (* the preopen names, in order                              *)
  At,           (* the guest path of each: "/" is <<>>                      *)
  Names,        (* the file names, in order                                 *)
  Garbled,      (* those of them that are not UTF-8                         *)
  HostNode,     (* the host's files and directories; Root is the one that   *)
  Root, Gone,   (* paths start at, Gone what a dangling symlink points to   *)
  MaxPath,      (* the longest path the host resolves: its limits on links  *)
                (* and on the length of paths end a cycle of symlinks       *)
  Setups        (* what is configured on which host, and a bound on how     *)
                (* often that changes: [tree, host, changes]                *)

ASSUME HostAssumption ==
  /\ Root \in HostNode /\ Gone \in HostNode /\ Root # Gone
  /\ MaxPath \in Nat

VARIABLES
  stage,          (* "walk", "dir", "file", "index", "failed" or "panicked" *)
  tree,           (* the entries of the configured filesystem by their node *)
  tasks,          (* the calls that are still to be made                    *)
  host,           (* the host's filesystem                                  *)
  changes,        (* how often it may still change                          *)
  changed,        (* history: it has changed                                *)
  moved,          (* history: it has changed since the last fs::metadata    *)
  cause,          (* history: what made it give up, "none" while it has not *)
  virtual_files

rvars ==
  <<stage, tree, tasks, host, changes, changed, moved, cause, virtual_files>>
hvars == <<vars, rvars>>

(***************************************************************************)
(* An entry of the guest's filesystem is named by its preopen and its path *)
(* below it, <<preopen, name, ..., name>>.  An entry is [ty, from, listed]: *)
(* from is <<host path>> for a Virtualize entry and stays as a history     *)
(* once it is read, listed says that a directory listing brought it.       *)
(***************************************************************************)
Virtualize(path, listed) ==
  [ty |-> "virtualize", from |-> <<path>>, listed |-> listed]
Inline(ty) == [ty |-> ty, from |-> <<>>, listed |-> FALSE]

Elements(s) == {s[i] : i \in 1..Len(s)}
Path == Seq(STRING)
Types == {"virtualize", "source"} \cup EntryTypes
Entry == [ty : Types, from : Seq(Path), listed : BOOLEAN]
Host ==
  [HostNode ->
     [kind : STRING,
      entries : UNION {[D -> HostNode] : D \in SUBSET Elements(Names)}]]

\* A filesystem: what is above an entry is a directory of it.
Filesystem(t) ==
  /\ t \in [DOMAIN t -> Entry]
  /\ \A n \in DOMAIN t :
       /\ n \in Path /\ n # <<>>
       /\ n[1] \in Elements(Preopens)
       /\ \A i \in 2..Len(n) : n[i] \in Elements(Names)
       /\ \A k \in 1..(Len(n) - 1) :
            SubSeq(n, 1, k) \in DOMAIN t /\ t[SubSeq(n, 1, k)].ty = "dir"

\* Whether everything below the path q is below the path p.
Leads(p, q) == Len(p) <= Len(q) /\ \A i \in 1..Len(p) : p[i] = q[i]

(***************************************************************************)
(* The preopens are the keys of a BTreeMap, so that a path comes before    *)
(* those below it; so are the names in a directory, each there once.       *)
(***************************************************************************)
ASSUME SetupsAssumption ==
  /\ Preopens \in Seq(STRING) /\ Names \in Seq(STRING)
  /\ At \in [Elements(Preopens) -> Path]
  /\ \A j \in 1..Len(Preopens) : \A i \in 1..(j - 1) :
       ~Leads(At[Preopens[j]], At[Preopens[i]])
  /\ \A i, j \in 1..Len(Names) :
       /\ Names[i] = Names[j] => i = j
       /\ i < j => <<Names[i], Names[j]>> \in ByteOrder
  /\ \A s \in Setups :
       /\ Filesystem(s.tree) /\ s.host \in Host
       /\ \A n \in DOMAIN s.tree :
            /\ ~s.tree[n].listed
            /\ Len(s.tree[n].from) = IF s.tree[n].ty = "virtualize" THEN 1 ELSE 0

(***************************************************************************)
(* Node has what the walk can come to: the configured entries and, below   *)
(* one that is read, the names of the hosts as far as they are resolved.   *)
(***************************************************************************)
HostNames == UNION {DOMAIN s.host[d].entries : s \in Setups, d \in HostNode}
Remaining(path) ==
  UNION {[1..k -> HostNames \ Garbled] : k \in 0..(MaxPath + 1 - Len(path))}

ASSUME NodeAssumption ==
  /\ Node \subseteq Path \ {<<>>}
  /\ \A s \in Setups :
       /\ s.host[Gone].kind \notin {"dir", "file"}
       /\ \A n \in DOMAIN s.tree :
            /\ n \in Node
            /\ s.tree[n].ty = "virtualize" =>
                 \A p \in Remaining(s.tree[n].from[1]) : n \o p \in Node

\* What a lookup in the index can be compared for: see PlainLookups.
PlainTrees ==
  /\ \A s \in Setups : \A n \in DOMAIN s.tree : s.tree[n].ty # "rdir"
  /\ \A path \in Paths : PlainPath(path)

\* Those elements of a sequence that are in a set, in their order: what a
\* BTreeMap with these keys iterates over.
Only(s, keys) ==
  LET kept[m \in 0..Len(s)] ==
        IF m = 0 THEN <<>>
        ELSE IF s[m] \in keys THEN Append(kept[m - 1], s[m])
        ELSE kept[m - 1]
  IN  kept[Len(s)]

Under(t, n) == {x \in Elements(Names) : Append(n, x) \in DOMAIN t}

\* Mutant: the names come in the order that a listing might have them in.
ChildNamesListed(t, n) ==
  LET names == Only(Names, Under(t, n))
  IN  [i \in 1..Len(names) |-> names[Len(names) + 1 - i]]

ChildNames(t, n) == Only(Names, Under(t, n))
ChildrenOf(t, n) ==
  LET names == ChildNames(t, n)
  IN  [i \in 1..Len(names) |-> Append(n, names[i])]

(***************************************************************************)
(* The host.  A node is [kind, entries]; a symlink is an entry like any    *)
(* other, since every call follows it.                                     *)
(***************************************************************************)
Resolve(path) ==
  LET at[m \in 0..Len(path)] ==
        IF m = 0 THEN Root
        ELSE LET entries == host[at[m - 1]].entries
             IN  IF path[m] \in DOMAIN entries THEN entries[path[m]] ELSE Gone
  IN  IF Len(path) > MaxPath THEN Gone ELSE at[Len(path)]

KindAt(path) == host[Resolve(path)].kind
Listing(path) == DOMAIN host[Resolve(path)].entries

\* An entry is removed, or something else is renamed over it.
HostChanges ==
  /\ stage \in {"walk", "dir", "file"} /\ changes > 0
  /\ \E d \in HostNode : \E x \in DOMAIN host[d].entries :
       \E to \in HostNode \ {host[d].entries[x]} :
         host' = [host EXCEPT ![d].entries =
                    [y \in DOMAIN @ \ (IF to = Gone THEN {x} ELSE {}) |->
                       IF y = x THEN to ELSE @[y]]]
  /\ changes' = changes - 1 /\ changed' = TRUE /\ moved' = TRUE
  /\ UNCHANGED <<vars, stage, tree, tasks, cause, virtual_files>>

(***************************************************************************)
(* The walk: visit(entry) calls the closure, inner(entry) the two loops of *)
(* visit_pre_mut_inner.                                                    *)
(***************************************************************************)
Visiting(n) == [call |-> "visit", node |-> n]
Inner(n) == [call |-> "inner", node |-> n]
Calling(call) == stage = "walk" /\ tasks # <<>> /\ Head(tasks).call = call

Abort(to, what) ==
  /\ stage' = to /\ cause' = what
  /\ UNCHANGED <<vars, tree, tasks, host, changes, changed, moved, virtual_files>>

\* The host answers a call with an error of its own: no right to, or no disk.
Refused == Abort("failed", "refused")

Current == Head(tasks).node
HostPath == tree[Current].from[1]
\* Mutant: the entry of a directory is looked for where the paths start.
FullBare(path, x) == <<x>>
Full(path, x) == Append(path, x)

\* The entry is what it is, or becomes it without the host.
VisitInline ==
  /\ Calling("visit") /\ tree[Current].ty # "virtualize"
  /\ tree' = [tree EXCEPT ![Current].ty = IF @ = "source" THEN "active" ELSE @]
  /\ tasks' = Tail(tasks)
  /\ UNCHANGED <<vars, stage, host, changes, changed, moved, cause, virtual_files>>

\* fs::metadata(&host_path)?, and what is neither a directory nor a file.
Metadata ==
  /\ Calling("visit") /\ tree[Current].ty = "virtualize"
  /\ \/ Refused
     \/ KindAt(HostPath) \notin {"dir", "file"} /\ Abort("failed", "metadata")
     \/ /\ KindAt(HostPath) \in {"dir", "file"}
        /\ stage' = KindAt(HostPath) /\ moved' = FALSE
        /\ UNCHANGED <<vars, tree, tasks, host, changes, changed, cause, virtual_files>>

\* The key of an entry among virtual_files: its path, from its preopen's.
Key(n) == At[n[1]] \o Tail(n)

\* What a listing of the names adds to virtual_files.
Listed(names) ==
  [k \in {Key(Append(Current, x)) : x \in names} |-> Full(HostPath, k[Len(k)])]

\* Mutant: an entry that was listed before keeps its host path.
Insert(old, new) ==
  [k \in DOMAIN old \cup DOMAIN new |-> IF k \in DOMAIN old THEN old[k] ELSE new[k]]

Extend(old, new) ==
  [k \in DOMAIN old \cup DOMAIN new |-> IF k \in DOMAIN new THEN new[k] ELSE old[k]]

\* fs::read_dir(&host_path)? and each entry?: a name that is not UTF-8 panics.
ReadDir ==
  /\ stage = "dir"
  /\ \/ Refused
     \/ KindAt(HostPath) # "dir" /\ Abort("failed", "read_dir")
     \/ /\ KindAt(HostPath) = "dir" /\ Listing(HostPath) \cap Garbled # {}
        /\ Abort("panicked", "name")
     \/ /\ KindAt(HostPath) = "dir" /\ Listing(HostPath) \cap Garbled = {}
        /\ LET names == Listing(HostPath)
               new == [n \in {Append(Current, x) : x \in names} |->
                         Virtualize(Full(HostPath, n[Len(n)]), TRUE)]
           IN  /\ tree' = Extend([tree EXCEPT ![Current].ty = "dir"], new)
               /\ virtual_files' = Extend(virtual_files, Listed(names))
        /\ tasks' = Tail(tasks)
        /\ stage' = "walk"
        /\ UNCHANGED <<vars, host, changes, changed, moved, cause>>

\* What fs::read gets anything from: a device too, once metadata is past.
Readable(path) == Resolve(path) # Gone /\ KindAt(path) # "dir"

\* fs::read(&host_path)?
ReadFile ==
  /\ stage = "file"
  /\ \/ Refused
     \/ KindAt(HostPath) # "file" /\ Abort("failed", "read")
     \/ /\ Readable(HostPath)
        /\ tree' = [tree EXCEPT ![Current].ty = "active"]
        /\ tasks' = Tail(tasks)
        /\ stage' = "walk"
        /\ UNCHANGED <<vars, host, changes, changed, moved, cause, virtual_files>>

\* Mutant: the children are visited, but not what they contain.
LoopsShallow(n) ==
  LET children == ChildrenOf(tree, n)
  IN  [i \in 1..Len(children) |-> Visiting(children[i])]

\* The children are visited, then walked.
Loops(n) ==
  LET children == ChildrenOf(tree, n)
  IN  [i \in 1..Len(children) |-> Visiting(children[i])]
        \o [i \in 1..Len(children) |-> Inner(children[i])]

Walk ==
  /\ Calling("inner")
  /\ tasks' = (IF tree[Current].ty = "dir" THEN Loops(Current) ELSE <<>>) \o Tail(tasks)
  /\ UNCHANGED <<vars, stage, tree, host, changes, changed, moved, cause,
                 virtual_files>>

(***************************************************************************)
(* The inline filesystem, as FsIndex has it.                               *)
(***************************************************************************)
Roots(t) == Only(Preopens, {x \in Elements(Preopens) : <<x>> \in DOMAIN t})

AsForest(t) ==
  [preopens |-> [i \in 1..Len(Roots(t)) |-> <<Roots(t)[i]>>],
   children |-> [n \in Node |->
                   IF n \in DOMAIN t /\ t[n].ty = "dir" THEN ChildrenOf(t, n)
                   ELSE <<>>],
   ty |-> [n \in Node |-> IF n \in DOMAIN t THEN t[n].ty ELSE "active"],
   name |-> [n \in Node |-> n[Len(n)]]]

Linearize ==
  /\ stage = "walk" /\ tasks = <<>>
  /\ stage' = "index"
  /\ fs' = AsForest(tree)
  /\ pc' = "preopen"
  /\ UNCHANGED <<visits, preopen_indices, level, child_offset,
                 tree, tasks, host, changes, changed, moved, cause, virtual_files>>

IndexStep == stage = "index" /\ Next /\ UNCHANGED rvars

Calls(t) ==
  LET roots == Roots(t)
  IN  [i \in 1..(2 * Len(roots)) |->
         IF i % 2 = 1 THEN Visiting(<<roots[(i + 1) \div 2]>>)
         ELSE Inner(<<roots[i \div 2]>>)]

HostInit ==
  /\ \E s \in Setups :
       /\ tree = s.tree /\ host = s.host
       /\ changes = s.changes
       /\ tasks = Calls(s.tree)
  /\ stage = "walk" /\ changed = FALSE /\ moved = FALSE /\ cause = "none"
  /\ virtual_files = [k \in {} |-> <<>>]
  /\ fs = AsForest([n \in {} |-> Inline("dir")])
  /\ pc = "waiting"
  /\ visits = <<>> /\ preopen_indices = <<>>
  /\ children_of = <<>> /\ next_children_of = <<>>
  /\ parent = 1 /\ child = 1 /\ child_offset = 0

Virtualizing ==
  \/ VisitInline \/ Metadata \/ ReadDir \/ ReadFile \/ Walk \/ Linearize
  \/ IndexStep

HostNext == Virtualizing \/ HostChanges

HostSpec == HostInit /\ [][HostNext]_hvars /\ WF_hvars(Virtualizing)

-----------------------------------------------------------------------------
(***************************************************************************)
(* Properties.                                                             *)
(***************************************************************************)

Finished == stage = "index"

\* The host path that an entry stands for: below a configured Virtualize entry
\* the same names as in the guest.
Configured(n) ==
  CHOOSE k \in 1..Len(n) :
    /\ ~tree[SubSeq(n, 1, k)].listed
    /\ \A j \in (k + 1)..Len(n) : tree[SubSeq(n, 1, j)].listed
OfHost(n) == tree[SubSeq(n, 1, Configured(n))].from # <<>>
Source(n) ==
  LET k == Configured(n)
  IN  tree[SubSeq(n, 1, k)].from[1] \o SubSeq(n, k + 1, Len(n))

\* A virtualization that gets through has nothing left to read (visit_bfs would
\* meet an unreachable!), and if the host held still the guest's filesystem is
\* the host's: every entry that was to come from the host is a file where the
\* host has a file and a directory with the host's names where it has one,
\* whatever symlinks lead there.
HostInlined ==
  Finished =>
    \A n \in DOMAIN tree :
      /\ tree[n].ty \notin {"virtualize", "source"}
      /\ OfHost(n) /\ ~changed =>
           IF tree[n].ty = "dir"
           THEN /\ KindAt(Source(n)) = "dir"
                /\ {x \in Elements(Names) : Append(n, x) \in DOMAIN tree}
                     = Listing(Source(n))
           ELSE tree[n].ty = "active" /\ KindAt(Source(n)) = "file"

\* The entry that a guest path opens: the preopen with the longest name wins.
Opens(n, key) ==
  /\ Key(n) = key
  /\ \A m \in DOMAIN tree : Key(m) = key => Len(At[m[1]]) <= Len(At[n[1]])

\* virtual_files lists what the directories of the host brought, each under the
\* path the guest opens it by and with the path it was read from: of two
\* preopens that overlap, the one that the guest's path leads to.
ListedExact ==
  Finished =>
    /\ DOMAIN virtual_files = {Key(n) : n \in {m \in DOMAIN tree : tree[m].listed}}
    /\ \A n \in DOMAIN tree :
         tree[n].listed /\ Opens(n, Key(n)) =>
           virtual_files[Key(n)] = Source(n)

\* It fails only for what the host did or has where the entry is configured to
\* come from: an error of its own; a dangling symlink, a path that is not there,
\* something neither file nor directory, or a cycle of symlinks; or, for reading
\* what metadata was content with, a change since that call.  It panics on a name
\* there that is not UTF-8 and, linearizing, on a symlink that is configured.
FailsForACause ==
  /\ stage = "failed" =>
       LET kind == KindAt(Source(Current))
       IN  \/ cause = "refused"
           \/ cause = "metadata" /\ kind \notin {"dir", "file"}
           \/ cause = "read_dir" /\ kind # "dir" /\ moved
           \/ cause = "read" /\ kind # "file" /\ moved
  /\ stage = "panicked" => Listing(Source(Current)) \cap Garbled # {}
  /\ pc = "panicked" => \E n \in DOMAIN tree : tree[n].ty = "symlink"

\* Every virtualization comes to an end, on a host with cycles of symlinks too.
Ends == <>(pc \in {"done", "panicked"} \/ stage \in {"failed", "panicked"})

=============================================================================
