---------------------------- MODULE MCAdapterFs ----------------------------
(***************************************************************************)
(* AdapterFs on small configurations.  In all of them the host has the     *)
(* objects /, /x, /x/y and /z.                                             *)
(***************************************************************************)
EXTENDS AdapterFs

MCAlphabet == <<".", "/", "x", "y", "z">>

\* The names of the instance, in byte order.
MCNames == <<"/", "/x", "/z", "a", "d", "e", "f", "r">>
MCByteOrder ==
  {<<MCNames[ij[1]], MCNames[ij[2]]>> :
     ij \in {kl \in (1..Len(MCNames)) \X (1..Len(MCNames)) : kl[1] < kl[2]}}

MCPaths ==
  {<<".">>, <<"a">>, <<"e">>, <<"f">>, <<"r">>, <<"d", "">>, <<"d", "a">>, <<"a", "a">>,
   <<"">>, <<"r", "a">>}

X == <<"x">>
Y == <<"y">>
Z == <<"z">>
HostTree == {<<>>, <<X>>, <<X, Y>>, <<Z>>}

\* Where the paths of the guest lead on the host: it has "a" in / for /x, in /x
\* for /x/y, and nothing else.
MCResolve ==
  [of \in HostTree \X MCPaths |->
     CASE of[2] = <<".">> -> {of[1]}
       [] of[1] = <<>> /\ of[2] = <<"a">> -> {<<X>>}
       [] of[1] = <<X>> /\ of[2] = <<"a">> -> {<<X, Y>>}
       [] of[1] = <<>> /\ of[2] = <<"a", "a">> -> {<<X, Y>>}
       [] OTHER -> {}]

RootPreopen == [name |-> <<"/">>, dir |-> <<>>]

Entry(name, ty, data) == [name |-> name, ty |-> ty, data |-> data]

(***************************************************************************)
(* One preopen that contains a file, a runtime directory /x, a runtime     *)
(* file "./" and another directory, with a passive file of the same name   *)
(* and an empty directory.                                                 *)
(***************************************************************************)
MixedTree ==
  [children |-> <<<<2, 3, 4, 5>>, <<>>, <<6, 7>>, <<>>, <<>>, <<>>, <<>>>>,
   name |-> <<"/", "a", "d", "f", "r", "a", "e">>,
   ty |-> <<"dir", "file", "dir", "rfile", "rdir", "file", "dir">>,
   size |-> <<0, 2, 0, 0, 0, 3, 0>>,
   passive |-> [n \in 1..7 |-> n = 6],
   host_path |-> [n \in 1..7 |-> IF n = 4 THEN <<".", "/">> ELSE <<"/", "x">>],
   roots |-> <<1>>]
Mixed(host_list) ==
  [index |-> <<Entry("/", "dir", <<1, 4>>), Entry("a", "active", <<0, 2>>),
               Entry("d", "dir", <<3, 2>>), Entry("f", "rfile", <<<<".", "/">>, 0>>),
               Entry("r", "rdir", <<<<"/", "x">>, 0>>),
               Entry("a", "passive", <<0, 3>>), Entry("e", "dir", <<1, 0>>)>>,
   origin |-> [k \in 1..7 |-> k], preopens |-> <<1>>, tree |-> MixedTree,
   host_preopens |-> FALSE, host_list |-> host_list, host |-> HostMap(host_list),
   host_objects |-> HostTree, resolve |-> MCResolve]

(***************************************************************************)
(* A static preopen beside a preopen of the host, which has another object *)
(* under the same name.                                                    *)
(***************************************************************************)
BesideTree ==
  [children |-> <<<<2>>, <<>>>>, name |-> <<"/x", "a">>, ty |-> <<"dir", "file">>,
   size |-> <<0, 1>>, passive |-> <<FALSE, FALSE>>,
   host_path |-> [n \in 1..2 |-> <<>>], roots |-> <<1>>]
Beside ==
  [index |-> <<Entry("/x", "dir", <<1, 1>>), Entry("a", "active", <<0, 1>>)>>,
   origin |-> [k \in 1..2 |-> k], preopens |-> <<1>>, tree |-> BesideTree,
   host_preopens |-> TRUE, host_list |-> <<[name |-> <<"/", "x">>, dir |-> <<X>>]>>,
   host |-> [n \in {<<"/", "x">>} |-> <<X>>],
   host_objects |-> HostTree, resolve |-> MCResolve]

(***************************************************************************)
(* A runtime directory as a preopen, as --preopen configures it.           *)
(***************************************************************************)
RuntimePreopen ==
  [index |-> <<Entry("/", "rdir", <<<<"/", "x">>, 7>>)>>,
   origin |-> <<1>>, preopens |-> <<1>>,
   tree |-> [children |-> <<<<>>>>, name |-> <<"/">>, ty |-> <<"rdir">>,
             size |-> <<0>>, passive |-> <<FALSE>>,
             host_path |-> <<<<"/", "x">>>>, roots |-> <<1>>],
   host_preopens |-> FALSE, host_list |-> <<RootPreopen>>,
   host |-> HostMap(<<RootPreopen>>), host_objects |-> HostTree,
   resolve |-> MCResolve]

\* A runtime file as one beside it.
RuntimeFiles ==
  [index |-> <<Entry("/", "rdir", <<<<".", "/">>, 7>>), Entry("/z", "rfile", <<<<"/", "x">>, 7>>)>>,
   origin |-> <<1, 2>>, preopens |-> <<1, 2>>,
   tree |-> [children |-> <<<<>>, <<>>>>, name |-> <<"/", "/z">>, ty |-> <<"rdir", "rfile">>,
             size |-> <<0, 0>>, passive |-> <<FALSE, FALSE>>,
             host_path |-> <<<<".", "/">>, <<"/", "x">>>>, roots |-> <<1, 2>>],
   host_preopens |-> FALSE, host_list |-> <<RootPreopen>>,
   host |-> HostMap(<<RootPreopen>>), host_objects |-> HostTree,
   resolve |-> MCResolve]

MCWorlds ==
  {Mixed(<<RootPreopen>>), Mixed(<<[name |-> <<".">>, dir |-> <<Z>>]>>),
   Beside, RuntimePreopen, RuntimeFiles}
RuntimeWorlds == {RuntimePreopen}

\* What was last asked and answered decides nothing of what follows, but that a
\* panic ends it: states that differ in nothing else are one, while every step
\* is still compared with VirtualFs.
MCView == <<world, state, held, streams, IF Alive THEN <<>> ELSE <<call, answer>>>>

\* What the theorems about AdapterFs assume holds here, but that two of the
\* configurations have a preopen that is a runtime entry.
ASSUME MCGuest == GuestReads
ASSUME MCHostLookups == HostLookups

=============================================================================
