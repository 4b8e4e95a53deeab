----------------------------- MODULE VirtualFs -----------------------------
(***************************************************************************)
(* What the virtual filesystem promises to the guest, with no static index *)
(* in it: the configured tree, read-only, in which a path leads where its  *)
(* names lead, a directory lists its children once each and in order, and  *)
(* a stream delivers a file's bytes in sequence.  An entry configured as a *)
(* runtime file or directory is what its path denotes on the host, and the *)
(* guest reaches nothing else of the host.  The promise is what a call is  *)
(* answered, if it is: which ones panic instead is not part of it.         *)
(*                                                                         *)
(* An object is <<"node", n>> for an entry of the tree or <<"host", o>>,   *)
(* o being the sequence of components from the root of the host.           *)
(***************************************************************************)
EXTENDS Integers, Sequences, HostPath

CONSTANTS
  Streams,    (* the stream resources                                      *)
  Paths,      (* the paths the guest uses, sequences of parts              *)
  Offsets,    (* the offsets it reads from                                 *)
  Lens        (* the lengths it reads                                      *)

VARIABLES
  world,      (* the configuration: the tree and the host                  *)
  held,       (* the objects the guest has descriptors of                  *)
  streams,    (* the open streams and how far they have been read          *)
  call,       (* the objects that the last call was made on, and its       *)
              (* arguments                                                 *)
  answer      (* which operation it was, and its result                    *)

vars == <<world, held, streams, call, answer>>

tree == world.tree
NodeObject(n) == <<"node", n>>
HostObject(o) == <<"host", o>>
IsNode(o) == o[1] = "node"
IsDir(n) == tree.ty[n] \in {"dir", "rdir"}
IsRuntime(n) == tree.ty[n] \in {"rdir", "rfile"}

Asks(on, args) == call' = [on |-> on, args |-> args]
Reply(op, status, value) == answer' = [op |-> op, status |-> status, value |-> value]

\* A last part that is "." or empty stays where it is.
Stays(part) == part \in {".", ""}
Trim(path) ==
  IF Stays(path[Len(path)]) THEN SubSeq(path, 1, Len(path) - 1) ELSE path

ChildrenOf(n) == {tree.children[n][c] : c \in 1..Len(tree.children[n])}

\* The nodes that the first m names of a path lead to.
Reached(n, path) ==
  LET at[m \in 0..Len(path)] ==
        IF m = 0 THEN {n}
        ELSE {c \in UNION {ChildrenOf(p) : p \in at[m - 1]} :
                tree.name[c] = path[m]}
  IN  at[Len(path)]

\* What a host path denotes, under any of the host's preopens.
Denoted(path) ==
  {world.host[name] \o Drop(Components(path), Len(Components(name))) :
     name \in {n \in DOMAIN world.host :
                 /\ Absolute(n) = Absolute(path)
                 /\ StartsWith(Components(path), Components(n))}}

HostRoots ==
  {HostObject(world.host_list[i].dir) : i \in 1..Len(world.host_list)}
Roots ==
  {NodeObject(tree.roots[i]) : i \in 1..Len(tree.roots)}
    \cup (IF world.host_preopens THEN HostRoots ELSE {})

GetDirectories ==
  /\ UNCHANGED <<world, streams>>
  /\ held' = held \cup Roots
  /\ Asks(<<>>, <<>>)
  /\ Reply("get-directories", "ok", Roots)

DropDescriptor ==
  /\ UNCHANGED <<world, streams, call, answer>>
  /\ \E o \in held : held' = held \ {o}

Grant(op, o) == (held' = IF op = "open" THEN held \cup {o} ELSE held)

\* What an operation at a node of the tree answers.
AnswerNode(op, n) ==
  /\ Grant(op, NodeObject(n))
  /\ CASE op = "open" -> Reply(op, "ok", NodeObject(n))
       [] op = "stat" -> Reply(op, "ok", <<"stat", <<IsDir(n), tree.size[n]>>>>)
       [] op = "type" -> Reply(op, "ok", <<"stat", <<IsDir(n), 0>>>>)
       [] op = "hash" -> Reply(op, "ok", NodeObject(n))
       [] op = "readlink" -> Reply(op, "invalid", <<>>)

\* What the host answers about one of some objects, if it does not refuse.
AnswerHost(op, objects) ==
  \/ \E o \in objects \cap world.host_objects :
       Grant(op, HostObject(o)) /\ Reply(op, "ok", HostObject(o))
  \/ Reply(op, "host-error", <<>>) /\ UNCHANGED held

\* open-at, stat-at, readlink-at and metadata-hash-at.
AtRuntime(op, n) ==
  LET denoted == Denoted(tree.host_path[n])
  IN  \/ AnswerHost(op, denoted)
      \/ denoted = {} /\ Reply(op, "no-entry", <<>>) /\ UNCHANGED held

AtPath(op) ==
  /\ UNCHANGED <<world, streams>>
  /\ answer'.op = op
  /\ \E o \in held, path \in Paths :
       /\ Asks(<<o>>, <<"path", path>>)
       /\ IF ~IsNode(o) THEN AnswerHost(op, world.resolve[<<o[2], path>>])
          ELSE LET reached == Reached(o[2], Trim(path))
               IN  \/ /\ reached = {}
                      /\ \E e \in {"no-entry", "not-directory"} : Reply(op, e, <<>>)
                      /\ UNCHANGED held
                   \/ \E n \in reached :
                        IF IsRuntime(n) THEN AtRuntime(op, n) ELSE AnswerNode(op, n)

\* stat, get-type and metadata-hash on descriptors; the size of a runtime file is
\* that of the host's.
AtDescriptor(op) ==
  /\ UNCHANGED <<world, streams>>
  /\ answer'.op = op
  /\ \E o \in held :
       /\ Asks(<<o>>, <<>>)
       /\ IF ~IsNode(o) THEN AnswerHost(op, {o[2]})
          ELSE IF op = "stat" /\ tree.ty[o[2]] = "rfile" THEN AtRuntime(op, o[2])
          ELSE AnswerNode(op, o[2])

IsSame ==
  /\ UNCHANGED <<world, held, streams>>
  /\ \E o, p \in held :
       /\ Asks(<<o, p>>, <<>>)
       /\ \E same \in IF IsNode(o) \/ IsNode(p) THEN {o = p} ELSE BOOLEAN :
            Reply("is-same-object", "ok", same)

\* A descriptor can be read, and nothing can be changed with it.
ReadOnly ==
  /\ UNCHANGED <<world, held, streams>>
  /\ \E o \in held : Asks(<<o>>, <<>>)
  /\ Reply("modify", "access", <<>>) \/ Reply("get-flags", "ok", "read")

\* The bytes a read delivers, from an offset on.
Delivered(n, offset, len) ==
  <<offset, IF offset + len <= tree.size[n] THEN offset + len ELSE tree.size[n]>>

Read(s, n, offset, len) ==
  IF IsDir(n) THEN
    Reply("read", "is-directory", <<>>) /\ UNCHANGED streams
  ELSE IF offset >= tree.size[n] THEN
    /\ Reply("read", IF offset > tree.size[n] /\ ~tree.passive[n]
                     THEN "invalid-seek" ELSE "closed", <<>>)
    /\ UNCHANGED streams
  ELSE /\ Reply("read", "ok", Delivered(n, offset, len))
       /\ streams' = [streams EXCEPT ![s].pos = Delivered(n, offset, len)[2]]

OpenStream ==
  /\ UNCHANGED <<world, held>>
  /\ \E s \in Streams, o \in held, offset \in Offsets :
       /\ streams[s].kind = "none"
       /\ Asks(<<o>>, <<"from", offset>>)
       /\ \/ /\ streams' =
                  [streams EXCEPT ![s] = [kind |-> "file", of |-> o, pos |-> offset]]
             /\ Reply("read-via-stream", "ok", <<>>)
          \/ /\ ~IsNode(o) /\ UNCHANGED streams
             /\ Reply("read-via-stream", "host-error", <<>>)

OpenDirectory ==
  /\ UNCHANGED <<world, held>>
  /\ \E s \in Streams, o \in held :
       /\ streams[s].kind = "none"
       /\ Asks(<<o>>, <<>>)
       /\ \/ /\ ~IsNode(o) \/ ~IsDir(o[2])
             /\ Reply("read-directory", "not-directory", <<>>) /\ UNCHANGED streams
          \/ /\ ~IsNode(o) \/ IsDir(o[2])
             /\ streams' = [streams EXCEPT ![s] = [kind |-> "dir", of |-> o, pos |-> 0]]
             /\ Reply("read-directory", "ok", <<>>)
          \/ /\ ~IsNode(o) /\ UNCHANGED streams
             /\ Reply("read-directory", "host-error", <<>>)

ReadStream ==
  /\ UNCHANGED <<world, held>>
  /\ \E s \in Streams, len \in Lens :
       /\ streams[s].kind = "file"
       /\ Asks(<<>>, <<"stream", s, len>>)
       /\ IF IsNode(streams[s].of)
          THEN Read(s, streams[s].of[2], streams[s].pos, len)
          ELSE Reply("read", "host", <<>>) /\ UNCHANGED streams

\* descriptor.read: one read at an offset, with nothing to remember.
ReadAt ==
  /\ UNCHANGED <<world, held, streams>>
  /\ \E o \in held, offset \in Offsets, len \in Lens :
       /\ Asks(<<o>>, <<"from", offset, len>>)
       /\ IF ~IsNode(o) THEN \E status \in {"host", "host-error"} :
                               Reply("pread", status, <<>>)
          ELSE IF IsDir(o[2]) THEN Reply("pread", "io", <<>>)
          ELSE IF offset < tree.size[o[2]]
            THEN Reply("pread", "ok", Delivered(o[2], offset, len))
          ELSE Reply("pread", IF offset > tree.size[o[2]] /\ ~tree.passive[o[2]]
                              THEN "io" ELSE "ok", <<>>)

NextEntry ==
  /\ UNCHANGED <<world, held>>
  /\ \E s \in Streams :
       /\ streams[s].kind = "dir"
       /\ Asks(<<>>, <<"stream", s>>)
       /\ IF ~IsNode(streams[s].of)
          THEN Reply("entry", "host", <<>>) /\ UNCHANGED streams
          ELSE LET listed == tree.children[streams[s].of[2]]
                   next == streams[s].pos + 1
               IN  IF next <= Len(listed)
                   THEN /\ Reply("entry", "ok", NodeObject(listed[next]))
                        /\ streams' = [streams EXCEPT ![s].pos = next]
                   ELSE Reply("entry", "end", <<>>) /\ UNCHANGED streams

DropStream ==
  /\ UNCHANGED <<world, held, call, answer>>
  /\ \E s \in Streams :
       streams' = [streams EXCEPT ![s] = [kind |-> "none", of |-> <<>>, pos |-> 0]]

\* A call that panics leaves everything as it was.
Panics == UNCHANGED <<world, held, streams>> /\ answer'.status = "trap"

Init ==
  /\ held = {}
  /\ streams = [s \in Streams |-> [kind |-> "none", of |-> <<>>, pos |-> 0]]
  /\ call = [on |-> <<>>, args |-> <<>>]
  /\ answer = [op |-> "none", status |-> "ok", value |-> <<>>]

Next ==
  \/ GetDirectories \/ DropDescriptor
  \/ \E op \in {"open", "stat", "readlink", "hash"} : AtPath(op)
  \/ \E op \in {"stat", "type", "hash"} : AtDescriptor(op)
  \/ IsSame \/ ReadOnly
  \/ OpenStream \/ OpenDirectory \/ ReadStream \/ ReadAt \/ NextEntry \/ DropStream
  \/ Panics

Spec == Init /\ [][Next]_vars

=============================================================================
