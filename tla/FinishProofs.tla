---------------------------- MODULE FinishProofs ----------------------------
(***************************************************************************)
(* Proofs about finish: about TempFiles, and from the second part on about *)
(* Virtualizer.                                                            *)
(*                                                                         *)
(* TempFiles, for any number of processes: a virtualization that never     *)
(* held a name together with another returns its own component and fails   *)
(* only for a system call, and no file is left unaccounted for.            *)
(*                                                                         *)
(* The three properties say nothing of the steps on the way, so IInv adds  *)
(* what every step relies on: Files, the state of the files a process      *)
(* holds; Apart, that nobody else holds them; and Targets, that a file     *)
(* that is open for writing has no name but the one it was opened by, so   *)
(* that a write cannot reach another process's file.                       *)
(*                                                                         *)
(* Virtualizer, for any toggles, streams and components: each of the       *)
(* eleven stages of finish is described by what it makes of membership in  *)
(* the four sets of a module, and chained for an arbitrary interface       *)
(* (VirtualizedIs); the invariant is OptionsOK.                            *)
(***************************************************************************)
EXTENDS TempFiles, Virtualizer, TLAPS

Present(path) == path \in DOMAIN dir
Contains(path, c) == Present(path) /\ content[dir[path]] = c
Opened(r, path) == Contains(path, Empty) /\ r.fd = dir[path]

\* What a process that met nobody can rely on, step by step.
FilesOf(r, p) ==
  /\ r.bytes = p
  /\ r.pc = "write_input" => Opened(r, InputOf(r))
  /\ r.pc = "optimize" => Contains(InputOf(r), p)
  /\ r.pc \in {"create_output", "write_output", "read_output", "remove_input"}
       => Present(InputOf(r))
  /\ r.pc = "write_output" => Opened(r, OutputOf(r))
  /\ r.pc = "read_output" => Contains(OutputOf(r), p)
  /\ r.pc \in {"remove_input", "remove_output"} => Present(OutputOf(r))
  /\ r.pc = "write_virt" => Opened(r, VirtOf(r))
  /\ r.pc = "compose" => Contains(VirtOf(r), p)
  /\ r.pc = "remove_virt" => Present(VirtOf(r))

Files == \A p \in Procs \ met : FilesOf(run[p], p)

Failures == {"opt_failed", "compose_failed", "failed"}
Causes == \A p \in Procs \ met : run[p].pc \in Failures => run[p].faulty

Apart ==
  \A p, q \in Procs :
    p # q /\ Holds(run[p]) \cap Holds(run[q]) # {} => p \in met /\ q \in met

Target(r) ==
  IF r.pc = "write_input" THEN InputOf(r)
  ELSE IF r.pc = "write_output" THEN OutputOf(r)
  ELSE VirtOf(r)

Writing == {"write_input", "write_output", "write_virt"}

Targets ==
  \A p \in Procs :
    run[p].pc \in Writing =>
      /\ run[p].fd \in 1..Len(content)
      /\ \A path \in DOMAIN dir : dir[path] = run[p].fd => path = Target(run[p])

\* A file has one name.
OneName == \A a, b \in DOMAIN dir : dir[a] = dir[b] => a = b

\* The names that a process holds it has taken, and others not yet.
NamesOf(r) ==
  /\ Holds(r) \subseteq Paths
  /\ r.pc = "start" => r.input = NoName
  /\ r.pc \in {"start", "name_output"} => r.output = NoName
  /\ r.pc \notin VirtSteps \cup Ended => r.virt = NoName

Names == \A p \in Procs : NamesOf(run[p])

SameNames(r, s) == r.input = s.input /\ r.output = s.output /\ r.virt = s.virt

\* What the directory is between two steps.
Directory ==
  /\ DOMAIN dir \subseteq Paths
  /\ dir = [path \in DOMAIN dir |-> dir[path]]
  /\ \A path \in DOMAIN dir : dir[path] \in 1..Len(content)
  /\ content \in Seq(Content)
  /\ OneName

IInv ==
  /\ now \in Nat /\ run \in [Procs -> Run] /\ met \subseteq Procs
  /\ Directory /\ Targets /\ Apart /\ Files /\ Causes /\ Names /\ NoLitter

-----------------------------------------------------------------------------
(***************************************************************************)
(* One process moves.  Calm is what its step does to everybody else: their *)
(* names and the contents behind them stay.                                *)
(***************************************************************************)

OthersStay(p) == \A q \in Procs \ {p} : run'[q] = run[q]

Calm(p) ==
  /\ OthersStay(p)
  /\ \A path \in DOMAIN dir \ Holds(run[p]) :
       path \in DOMAIN dir' /\ dir'[path] = dir[path]
  /\ \A path \in DOMAIN dir \ Holds(run[p]) :
       content'[dir[path]] = content[dir[path]]

\* The steps after which a process holds no more than before.
LEMMA OthersKeepFiles ==
  ASSUME IInv, NEW p \in Procs, Calm(p), met' = met,
         NEW q \in Procs \ met, q # p
  PROVE  FilesOf(run[q], q)'
<1>1. Holds(run[q]) \cap Holds(run[p]) = {}
  BY DEF IInv, Apart
<1>2. run'[q] = run[q] /\ FilesOf(run[q], q)
  BY DEF Calm, OthersStay, IInv, Files
<1> DEFINE r == run[q]
<1>3. r.pc \in Steps
  BY DEF IInv, Run
<1>4. \A path \in Holds(r) : \A c :
        /\ Present(path) => Present(path)'
        /\ Contains(path, c) => Contains(path, c)'
        /\ Opened(r, path) => Contains(path, Empty)' /\ r.fd = dir'[path]
  BY <1>1 DEF Calm, Present, Contains, Opened
<1>5. /\ r.pc \in {"write_input", "optimize", "create_output", "write_output",
                   "read_output", "remove_input"} => InputOf(r) \in Holds(r)
      /\ r.pc \in {"write_output", "read_output", "remove_input",
                   "remove_output"} => OutputOf(r) \in Holds(r)
      /\ r.pc \in {"write_virt", "compose", "remove_virt"}
           => VirtOf(r) \in Holds(r)
  BY DEF Holds, OptSteps, VirtSteps
<1>6. FilesOf(r, q)'
  <2> USE <1>2
  <2>1. r' = r
    BY DEF Calm
  <2>2. r.bytes = q
    BY DEF FilesOf
  <2>3. /\ r.pc = "write_input" => Opened(r, InputOf(r))'
        /\ r.pc = "write_output" => Opened(r, OutputOf(r))'
        /\ r.pc = "write_virt" => Opened(r, VirtOf(r))'
    BY <1>4, <1>5, <2>1 DEF FilesOf, Opened, InputOf, OutputOf, VirtOf
  <2>4. /\ r.pc = "optimize" => Contains(InputOf(r), q)'
        /\ r.pc = "read_output" => Contains(OutputOf(r), q)'
        /\ r.pc = "compose" => Contains(VirtOf(r), q)'
    BY <1>4, <1>5, <2>1 DEF FilesOf, Contains, InputOf, OutputOf, VirtOf
  <2>5. /\ r.pc \in {"create_output", "write_output", "read_output",
                     "remove_input"} => Present(InputOf(r))'
        /\ r.pc \in {"remove_input", "remove_output"} => Present(OutputOf(r))'
        /\ r.pc = "remove_virt" => Present(VirtOf(r))'
    BY <1>4, <1>5, <2>1 DEF FilesOf, Present, InputOf, OutputOf, VirtOf
  <2> QED BY <2>1, <2>2, <2>3, <2>4, <2>5 DEF FilesOf
<1> QED BY <1>6

\* What is left to show of a step in which one process goes on.
LEMMA Assemble ==
  ASSUME IInv, NEW p \in Procs, Calm(p), met' = met, now' = now,
         run' \in [Procs -> Run], Directory', Targets',
         Holds(run'[p]) \subseteq Holds(run[p]),
         SameNames(run'[p], run[p]), NamesOf(run'[p]),
         run[p].faulty => run'[p].faulty,
         p \notin met => FilesOf(run[p], p)',
         p \notin met /\ run'[p].pc \in Failures => run'[p].faulty,
         \A path \in DOMAIN dir' \cap Holds(run[p]) :
           path \in Holds(run'[p]) \/ run'[p].faulty \/ p \in met,
         DOMAIN dir' \ DOMAIN dir \subseteq Holds(run[p])
  PROVE  IInv'
<1>1. Files'
  BY OthersKeepFiles DEF Files
<1>2. Causes'
  BY DEF IInv, Causes, Calm, OthersStay
<1>3. Apart'
  BY DEF IInv, Apart, Calm, OthersStay
<1>4. Names'
  BY DEF IInv, Names, NamesOf, Calm, OthersStay, Holds, InputOf, OutputOf, VirtOf
<1>5. NoLitter'
  <2> SUFFICES ASSUME NEW path \in DOMAIN dir'
               PROVE  \E q \in Procs :
                        \/ path \in Holds(run'[q])
                        \/ /\ run'[q].faulty \/ q \in met
                           /\ path \in {InputOf(run'[q]), OutputOf(run'[q]),
                                        VirtOf(run'[q])}
    BY DEF NoLitter
  <2>1. CASE path \in Holds(run[p])
    <3>1. path \in {InputOf(run'[p]), OutputOf(run'[p]), VirtOf(run'[p])}
      BY <2>1 DEF Holds, SameNames, InputOf, OutputOf, VirtOf
    <3> QED BY <2>1, <3>1
  <2>2. CASE path \notin Holds(run[p])
    <3>1. path \in DOMAIN dir
      BY <2>2
    <3>2. PICK q \in Procs :
            \/ path \in Holds(run[q])
            \/ /\ run[q].faulty \/ q \in met
               /\ path \in {InputOf(run[q]), OutputOf(run[q]), VirtOf(run[q])}
      BY <3>1 DEF IInv, NoLitter
    <3>3. CASE q = p
      BY <2>2, <3>2, <3>3 DEF SameNames, InputOf, OutputOf, VirtOf
    <3>4. CASE q # p
      BY <3>2, <3>4 DEF Calm, OthersStay
    <3> QED BY <3>3, <3>4
  <2> QED BY <2>1, <2>2
<1> QED BY <1>1, <1>2, <1>3, <1>4, <1>5 DEF IInv

(***************************************************************************)
(* The system calls.                                                       *)
(***************************************************************************)

LEMMA OneMoves ==
  ASSUME IInv, NEW p \in Procs, NEW r \in Run, run' = [run EXCEPT ![p] = r]
  PROVE  run' \in [Procs -> Run] /\ OthersStay(p) /\ run'[p] = r
BY DEF IInv, OthersStay

LEMMA MovesOn ==
  ASSUME IInv, NEW p \in Procs, NEW pc \in Steps, Goto(p, pc)
  PROVE  /\ run' \in [Procs -> Run] /\ OthersStay(p)
         /\ run'[p] = [run[p] EXCEPT !.pc = pc]
<1>1. [run[p] EXCEPT !.pc = pc] \in Run
  BY DEF IInv, Run
<1> QED BY <1>1, OneMoves DEF Goto

LEMMA Opens ==
  ASSUME IInv, NEW p \in Procs, NEW to \in Steps, NEW file \in Nat,
         Open(p, file, to)
  PROVE  /\ run' \in [Procs -> Run] /\ OthersStay(p)
         /\ run'[p] = Opening(run[p], file, to)
<1>1. Opening(run[p], file, to) \in Run
  BY DEF IInv, Run, Opening
<1> QED BY <1>1, OneMoves DEF Open

LEMMA CreateGives ==
  ASSUME IInv, NEW p \in Procs, NEW path \in Paths, path \in Holds(run[p]),
         NEW to \in Steps, Create(p, path, to)
  PROVE  /\ Calm(p) /\ Directory' /\ now' = now /\ met' = met
         /\ run' \in [Procs -> Run]
         /\ run'[p] = Opening(run[p], dir'[path], to)
         /\ DOMAIN dir' = DOMAIN dir \cup {path}
         /\ \A a \in DOMAIN dir : dir'[a] = dir[a]
         /\ path \notin DOMAIN dir => dir'[path] = Len(content) + 1
         /\ Len(content') >= Len(content)
         /\ dir'[path] \in 1..Len(content')
         /\ content'[dir'[path]] = Empty
<1>0. /\ run \in [Procs -> Run] /\ Directory /\ content \in Seq(Content)
      /\ \A a \in DOMAIN dir : dir[a] \in 1..Len(content)
      /\ Empty \in Content
  BY DEF IInv, Directory, Content
<1>1. CASE path \in DOMAIN dir
  <2>1. /\ content' = [content EXCEPT ![dir[path]] = Empty]
        /\ Open(p, dir[path], to)
        /\ dir' = dir /\ now' = now /\ met' = met
    BY <1>1 DEF Create
  <2>3. /\ run' \in [Procs -> Run] /\ OthersStay(p)
        /\ run'[p] = Opening(run[p], dir'[path], to)
    <3>1. dir[path] \in Nat /\ dir'[path] = dir[path]
      BY <1>0, <1>1, <2>1
    <3> QED BY <2>1, <3>1, Opens
  <2>4. content' \in Seq(Content) /\ Len(content') = Len(content)
    BY <1>0, <1>1, <2>1
  <2>5. content'[dir'[path]] = Empty
    BY <1>0, <1>1, <2>1
  <2>6. \A a \in DOMAIN dir \ {path} : content'[dir[a]] = content[dir[a]]
    BY <1>0, <1>1, <2>1 DEF Directory, OneName
  <2>7. Directory'
    <3>1. /\ DOMAIN dir' \subseteq Paths
          /\ dir' = [a \in DOMAIN dir' |-> dir'[a]]
          /\ \A a \in DOMAIN dir' : dir'[a] \in 1..Len(content')
      BY <1>0, <2>1, <2>4 DEF Directory
    <3>2. OneName'
      BY <1>0, <2>1 DEF Directory, OneName
    <3> QED BY <2>4, <3>1, <3>2 DEF Directory
  <2>8. Calm(p)
    BY <2>1, <2>3, <2>6 DEF Calm
  <2>9. /\ DOMAIN dir' = DOMAIN dir \cup {path}
        /\ \A a \in DOMAIN dir : dir'[a] = dir[a]
    BY <1>1, <2>1
  <2>10. /\ Len(content') >= Len(content)
         /\ dir'[path] \in 1..Len(content')
    <3>1. Len(content) \in Nat /\ dir[path] \in 1..Len(content)
      BY <1>0, <1>1
    <3> QED BY <2>1, <2>4, <3>1
  <2> QED BY <1>1, <2>1, <2>3, <2>5, <2>7, <2>8, <2>9, <2>10
<1>2. CASE path \notin DOMAIN dir
  <2> DEFINE new == Len(content) + 1
  <2>1. /\ content' = Append(content, Empty)
        /\ Open(p, new, to)
        /\ dir' = [q \in DOMAIN dir \cup {path} |->
                     IF q = path THEN new ELSE dir[q]]
        /\ now' = now /\ met' = met
    BY <1>2 DEF Create
  <2>2. new \in Nat /\ dir'[path] = new /\ DOMAIN dir' = DOMAIN dir \cup {path}
    BY <1>0, <2>1
  <2>4. /\ run' \in [Procs -> Run] /\ OthersStay(p)
        /\ run'[p] = Opening(run[p], dir'[path], to)
    BY <2>1, <2>2, Opens
  <2>5. /\ content' \in Seq(Content) /\ Len(content') = new
        /\ content'[new] = Empty
        /\ \A i \in 1..Len(content) : content'[i] = content[i]
    BY <1>0, <2>1
  <2>6. \A a \in DOMAIN dir : dir'[a] = dir[a]
    BY <1>2, <2>1
  <2>7. Directory'
    <3>1. \A a \in DOMAIN dir' : dir'[a] \in 1..Len(content')
      BY <1>0, <2>2, <2>5, <2>6
    <3>2. OneName'
      <4>1. \A a \in DOMAIN dir : dir'[a] # new
        BY <1>0, <2>6
      <4>2. \A a, b \in DOMAIN dir : dir'[a] = dir'[b] => a = b
        BY <1>0, <2>6 DEF Directory, OneName
      <4> QED BY <2>2, <4>1, <4>2 DEF OneName
    <3>3. DOMAIN dir' \subseteq Paths
      BY <1>0, <2>2 DEF Directory
    <3>4. dir' = [a \in DOMAIN dir' |-> dir'[a]]
      BY <2>1
    <3> QED BY <2>5, <3>1, <3>2, <3>3, <3>4 DEF Directory
  <2>8. Calm(p)
    <3>1. \A a \in DOMAIN dir : content'[dir[a]] = content[dir[a]]
      BY <1>0, <2>5
    <3> QED BY <2>2, <2>4, <2>6, <3>1 DEF Calm
  <2> QED BY <1>0, <1>2, <2>1, <2>2, <2>4, <2>5, <2>6, <2>7, <2>8
<1> QED BY <1>1, <1>2

LEMMA WriteGives ==
  ASSUME IInv, NEW p \in Procs, run[p].pc \in Writing,
         Target(run[p]) \in Holds(run[p]), NEW to \in Steps, Write(p, to)
  PROVE  /\ Calm(p) /\ Directory' /\ now' = now /\ met' = met /\ dir' = dir
         /\ run' \in [Procs -> Run]
         /\ run'[p] = [run[p] EXCEPT !.pc = to]
         /\ Len(content') = Len(content)
         /\ Opened(run[p], Target(run[p]))
              => content'[run[p].fd] = run[p].bytes
<1> DEFINE fd == run[p].fd
<1>1. /\ Directory /\ content \in Seq(Content)
      /\ \A a \in DOMAIN dir : dir[a] \in 1..Len(content)
      /\ run[p].bytes \in Content /\ Torn \in Content
      /\ fd \in 1..Len(content)
      /\ \A a \in DOMAIN dir : dir[a] = fd => a = Target(run[p])
  BY DEF IInv, Directory, Content, Run, Targets
<1>2. PICK c \in IF content[fd] = Empty
                 THEN {run[p].bytes} ELSE {run[p].bytes, Torn} :
        content' = [content EXCEPT ![fd] = c]
  BY DEF Write
<1>3. Goto(p, to) /\ now' = now /\ dir' = dir /\ met' = met
  BY DEF Write
<1>4. /\ run' \in [Procs -> Run] /\ OthersStay(p)
      /\ run'[p] = [run[p] EXCEPT !.pc = to]
  BY <1>3, MovesOn
<1>5. c \in Content
  BY <1>1, <1>2
<1>6. content' \in Seq(Content) /\ Len(content') = Len(content)
  BY <1>1, <1>2, <1>5
<1>7. Directory'
  <2>1. OneName'
    BY <1>1, <1>3 DEF Directory, OneName
  <2>2. /\ DOMAIN dir' \subseteq Paths
        /\ dir' = [a \in DOMAIN dir' |-> dir'[a]]
        /\ \A a \in DOMAIN dir' : dir'[a] \in 1..Len(content')
    BY <1>1, <1>3, <1>6 DEF Directory
  <2> QED BY <1>6, <2>1, <2>2 DEF Directory
<1>8. Calm(p)
  <2>1. \A a \in DOMAIN dir \ Holds(run[p]) : dir[a] # fd
    BY <1>1
  <2>2. \A a \in DOMAIN dir \ Holds(run[p]) : content'[dir[a]] = content[dir[a]]
    BY <1>1, <1>2, <2>1
  <2> QED BY <1>3, <1>4, <2>2 DEF Calm
<1>9. ASSUME Opened(run[p], Target(run[p]))
      PROVE  content'[fd] = run[p].bytes
  <2>1. content[fd] = Empty
    BY <1>9 DEF Opened, Contains
  <2> QED BY <1>1, <1>2, <2>1
<1> QED BY <1>3, <1>4, <1>6, <1>7, <1>8, <1>9

LEMMA RemoveGives ==
  ASSUME IInv, NEW p \in Procs, NEW path \in Holds(run[p]),
         NEW to \in Steps, Remove(p, path, to)
  PROVE  /\ Calm(p) /\ Directory' /\ now' = now /\ met' = met
         /\ content' = content
         /\ run' \in [Procs -> Run]
         /\ run'[p] = [run[p] EXCEPT !.pc =
                         IF Present(path) THEN to ELSE "failed"]
         /\ DOMAIN dir' = DOMAIN dir \ {path}
         /\ \A a \in DOMAIN dir' : dir'[a] = dir[a]
<1>1. /\ dir' = Without(path) /\ now' = now /\ met' = met
      /\ content' = content
      /\ Goto(p, IF Present(path) THEN to ELSE "failed")
  BY DEF Remove, Present
<1>2. (IF Present(path) THEN to ELSE "failed") \in Steps
  BY DEF Steps, Ended
<1>3. /\ run' \in [Procs -> Run] /\ OthersStay(p)
      /\ run'[p] = [run[p] EXCEPT !.pc = IF Present(path) THEN to ELSE "failed"]
  BY <1>1, <1>2, MovesOn
<1>4. /\ DOMAIN dir' = DOMAIN dir \ {path}
      /\ \A a \in DOMAIN dir' : dir'[a] = dir[a]
      /\ dir' = [a \in DOMAIN dir' |-> dir'[a]]
  BY <1>1 DEF Without
<1>5. Directory'
  BY <1>1, <1>4 DEF IInv, Directory, OneName
<1>6. Calm(p)
  BY <1>1, <1>3, <1>4 DEF Calm
<1> QED BY <1>1, <1>3, <1>4, <1>5, <1>6

\* A file that is open keeps its one name.
LEMMA KeepsTargets ==
  ASSUME IInv, NEW p \in Procs, OthersStay(p), Directory',
         Len(content') >= Len(content),
         \A a \in DOMAIN dir' : \/ a \in DOMAIN dir /\ dir'[a] = dir[a]
                                \/ dir'[a] = Len(content) + 1,
         run'[p].pc \in Writing =>
           /\ Target(run'[p]) \in DOMAIN dir'
           /\ run'[p].fd = dir'[Target(run'[p])]
  PROVE  Targets'
<1>1. Len(content) \in Nat /\ Len(content') \in Nat
  BY DEF IInv, Directory
<1> SUFFICES ASSUME NEW q \in Procs, run'[q].pc \in Writing
             PROVE  /\ run'[q].fd \in 1..Len(content')
                    /\ \A a \in DOMAIN dir' :
                         dir'[a] = run'[q].fd => a = Target(run'[q])
  BY DEF Targets, Target
<1>2. CASE q = p
  BY <1>2 DEF Directory, OneName
<1>3. CASE q # p
  <2>1. run'[q] = run[q]
    BY <1>3 DEF OthersStay
  <2>2. /\ run[q].fd \in 1..Len(content)
        /\ \A a \in DOMAIN dir : dir[a] = run[q].fd => a = Target(run[q])
    BY <2>1 DEF IInv, Targets
  <2> QED BY <1>1, <2>1, <2>2
<1> QED BY <1>2, <1>3

(***************************************************************************)
(* Steps.                                                                  *)
(***************************************************************************)

\* A step of one process that leaves the directory alone.
LEMMA MovesKeep ==
  ASSUME IInv, NEW p \in Procs, NEW r \in Run, run' = [run EXCEPT ![p] = r],
         UNCHANGED <<now, dir, content, met>>,
         Holds(r) \subseteq Holds(run[p]), SameNames(r, run[p]),
         r.pc \notin Writing, NamesOf(r), run[p].faulty => r.faulty,
         p \notin met => FilesOf(r, p),
         p \notin met /\ r.pc \in Failures => r.faulty,
         \A path \in DOMAIN dir \cap Holds(run[p]) :
           path \in Holds(r) \/ r.faulty \/ p \in met
  PROVE  IInv'
<1>1. run' \in [Procs -> Run] /\ OthersStay(p) /\ run'[p] = r
  BY OneMoves
<1>2. Directory'
  BY DEF IInv, Directory, OneName
<1>3. Calm(p)
  BY <1>1 DEF Calm
<1>4. Targets'
  <2>1. Len(content') >= Len(content)
    BY DEF IInv, Directory
  <2>2. \A a \in DOMAIN dir' : a \in DOMAIN dir /\ dir'[a] = dir[a]
    OBVIOUS
  <2> QED BY <1>1, <1>2, <2>1, <2>2, KeepsTargets
<1>5. p \notin met => FilesOf(run[p], p)'
  BY <1>1 DEF FilesOf, Present, Contains, Opened
<1> QED BY <1>1, <1>2, <1>3, <1>4, <1>5, Assemble

\* The steps that only go on to another place.
LEMMA GotoKeeps ==
  ASSUME IInv, NEW p \in Procs, NEW pc \in Steps \ Writing, Goto(p, pc),
         UNCHANGED <<now, dir, content, met>>,
         Holds([run[p] EXCEPT !.pc = pc]) \subseteq Holds(run[p]),
         NamesOf([run[p] EXCEPT !.pc = pc]),
         p \notin met => FilesOf([run[p] EXCEPT !.pc = pc], p),
         p \notin met /\ pc \in Failures => run[p].faulty,
         \A path \in DOMAIN dir \cap Holds(run[p]) :
           \/ path \in Holds([run[p] EXCEPT !.pc = pc])
           \/ run[p].faulty \/ p \in met
  PROVE  IInv'
<1> DEFINE r == [run[p] EXCEPT !.pc = pc]
<1>1. /\ r \in Run /\ r.pc = pc /\ r.faulty = run[p].faulty
      /\ SameNames(r, run[p])
  BY DEF IInv, Run, SameNames
<1>2. run' = [run EXCEPT ![p] = r]
  BY DEF Goto
<1> HIDE DEF r
<1> QED BY <1>1, <1>2, MovesKeep DEF r

\* A name is taken.
LEMMA TakeKeeps ==
  ASSUME IInv, NEW p \in Procs, NEW r \in Run, Take(p, r),
         r.pc \in {"name_output", "create_input", "create_virt"},
         NamesOf(r), Holds(run[p]) \subseteq Holds(r),
         r.bytes = run[p].bytes, r.faulty = run[p].faulty,
         \A path \in Paths \cap {InputOf(run[p]), OutputOf(run[p]), VirtOf(run[p])} :
           path \in {InputOf(r), OutputOf(r), VirtOf(r)}
  PROVE  IInv'
<1>1. run' \in [Procs -> Run] /\ OthersStay(p) /\ run'[p] = r
  BY OneMoves DEF Take
<1>2. UNCHANGED <<now, dir, content>> /\ met \subseteq met' /\ met' \subseteq Procs
  BY DEF IInv, Take
<1>3. Directory'
  BY <1>2 DEF IInv, Directory, OneName
<1>4. Targets'
  <2>1. Len(content') >= Len(content)
    BY <1>2 DEF IInv, Directory
  <2>2. \A a \in DOMAIN dir' : a \in DOMAIN dir /\ dir'[a] = dir[a]
    BY <1>2
  <2>3. r.pc \notin Writing
    BY DEF Writing
  <2> QED BY <1>1, <1>3, <2>1, <2>2, <2>3, KeepsTargets
<1>5. Apart'
  <2> SUFFICES ASSUME NEW a \in Procs, NEW b \in Procs, a # b,
                      Holds(run'[a]) \cap Holds(run'[b]) # {}
               PROVE  a \in met' /\ b \in met'
    BY DEF Apart, Holds, InputOf, OutputOf, VirtOf
  <2>1. \A q \in Procs \ {p} :
          Holds(run[q]) \cap Holds(r) # {} => q \in met' /\ p \in met'
    BY DEF Take
  <2>2. CASE a # p /\ b # p
    BY <1>1, <1>2, <2>2 DEF IInv, Apart, OthersStay
  <2>3. CASE a = p
    BY <1>1, <2>1, <2>3 DEF OthersStay
  <2>4. CASE b = p
    BY <1>1, <2>1, <2>4 DEF OthersStay
  <2> QED BY <2>2, <2>3, <2>4
<1>6. Files'
  <2> SUFFICES ASSUME NEW q \in Procs \ met' PROVE FilesOf(run[q], q)'
    BY DEF Files
  <2>1. q \notin met /\ FilesOf(run[q], q)
    BY <1>2 DEF IInv, Files
  <2>2. CASE q = p
    BY <1>1, <2>1, <2>2 DEF FilesOf
  <2>3. CASE q # p
    <3>1. run'[q] = run[q]
      BY <1>1, <2>3 DEF OthersStay
    <3> QED BY <1>2, <2>1, <3>1 DEF FilesOf, Present, Contains, Opened
  <2> QED BY <2>2, <2>3
<1>7. Causes'
  <2>1. r.pc \notin Failures
    BY DEF Failures
  <2> QED BY <1>1, <1>2, <2>1 DEF IInv, Causes, OthersStay
<1>8. Names'
  BY <1>1 DEF IInv, Names, NamesOf, OthersStay, Holds, InputOf, OutputOf, VirtOf
<1>9. NoLitter'
  <2> SUFFICES ASSUME NEW path \in DOMAIN dir'
               PROVE  \E q \in Procs :
                        \/ path \in Holds(run'[q])
                        \/ /\ run'[q].faulty \/ q \in met'
                           /\ path \in {InputOf(run'[q]), OutputOf(run'[q]),
                                        VirtOf(run'[q])}
    BY DEF NoLitter
  <2>1. path \in DOMAIN dir /\ path \in Paths
    BY <1>2 DEF IInv, Directory
  <2>2. PICK q \in Procs :
          \/ path \in Holds(run[q])
          \/ /\ run[q].faulty \/ q \in met
             /\ path \in {InputOf(run[q]), OutputOf(run[q]), VirtOf(run[q])}
    BY <2>1 DEF IInv, NoLitter
  <2>3. CASE q = p
    BY <1>1, <1>2, <2>1, <2>2, <2>3
  <2>4. CASE q # p
    BY <1>1, <1>2, <2>2, <2>4 DEF OthersStay
  <2> QED BY <2>3, <2>4
<1> QED BY <1>1, <1>2, <1>3, <1>4, <1>5, <1>6, <1>7, <1>8, <1>9 DEF IInv

LEMMA CreateKeeps ==
  ASSUME IInv, NEW p \in Procs, NEW to \in Writing,
         NEW path \in Paths \cap Holds(run[p]), Create(p, path, to),
         Target([run[p] EXCEPT !.pc = to]) = path,
         Holds([run[p] EXCEPT !.pc = to]) = Holds(run[p]),
         NamesOf([run[p] EXCEPT !.pc = to]),
         p \notin met /\ to = "write_output" => Present(InputOf(run[p]))
  PROVE  IInv'
<1> DEFINE r == run[p]
<1>0. to \in Steps
  BY DEF Writing, Steps, OptSteps, VirtSteps
<1>1. /\ Calm(p) /\ Directory' /\ now' = now /\ met' = met
      /\ run' \in [Procs -> Run]
      /\ r' = Opening(run[p], dir'[path], to)
      /\ DOMAIN dir' = DOMAIN dir \cup {path}
      /\ \A a \in DOMAIN dir : dir'[a] = dir[a]
      /\ path \notin DOMAIN dir => dir'[path] = Len(content) + 1
      /\ Len(content') >= Len(content)
      /\ content'[dir'[path]] = Empty
  BY <1>0, CreateGives
<1>2. /\ r'.pc = to /\ r'.fd = dir'[path] /\ SameNames(r', run[p])
      /\ r'.bytes = run[p].bytes /\ r'.faulty = run[p].faulty
  BY <1>1 DEF IInv, Run, Opening, SameNames
<1>3. /\ Target(r') = path /\ Holds(r') = Holds(run[p]) /\ NamesOf(r')
  <2>1. run[p] \in Run
    BY DEF IInv
  <2> QED BY <1>2, <2>1
       DEF Run, Target, Holds, NamesOf, SameNames, InputOf, OutputOf, VirtOf
<1>4. Targets'
  BY <1>1, <1>2, <1>3, KeepsTargets DEF Calm
<1>5. ASSUME p \notin met PROVE FilesOf(run[p], p)'
  <2>1. r'.bytes = p
    BY <1>2, <1>5 DEF IInv, Files, FilesOf
  <2>2. Opened(r, path)'
    BY <1>1, <1>2 DEF Opened, Contains, Present
  <2>3. to = "write_output" => Present(InputOf(r))'
    BY <1>1, <1>2, <1>5 DEF Present, InputOf, SameNames
  <2>4. CASE to = "write_input"
    BY <1>2, <1>3, <2>1, <2>2, <2>4 DEF FilesOf, Target
  <2>5. CASE to = "write_output"
    BY <1>2, <1>3, <2>1, <2>2, <2>3, <2>5 DEF FilesOf, Target
  <2>6. CASE to = "write_virt"
    BY <1>2, <1>3, <2>1, <2>2, <2>6 DEF FilesOf, Target
  <2> QED BY <2>4, <2>5, <2>6 DEF Writing
<1>6. r'.pc \notin Failures
  BY <1>2 DEF Writing, Failures
<1> QED BY <1>1, <1>2, <1>3, <1>4, <1>5, <1>6, Assemble

\* What each write leads to.
Written(pc) ==
  IF pc = "write_input" THEN "optimize"
  ELSE IF pc = "write_output" THEN "read_output"
  ELSE "compose"

LEMMA WriteKeeps ==
  ASSUME IInv, NEW p \in Procs, run[p].pc \in Writing,
         Write(p, Written(run[p].pc))
  PROVE  IInv'
<1> DEFINE r == run[p]
           to == Written(run[p].pc)
<1>0. to \in Steps /\ to \notin Writing \cup Failures
  BY DEF Written, Steps, OptSteps, VirtSteps, Writing, Failures
<1>1. Target(run[p]) \in Holds(run[p])
  BY DEF Writing, Target, Holds, OptSteps, VirtSteps
<1>2. /\ Calm(p) /\ Directory' /\ now' = now /\ met' = met /\ dir' = dir
      /\ run' \in [Procs -> Run]
      /\ r' = [run[p] EXCEPT !.pc = to]
      /\ Len(content') = Len(content)
      /\ Opened(run[p], Target(run[p])) => content'[run[p].fd] = run[p].bytes
  <2> HIDE DEF to
  <2> QED BY <1>0, <1>1, WriteGives DEF to
<1>3. /\ r'.pc = to /\ SameNames(r', run[p])
      /\ r'.bytes = run[p].bytes /\ r'.faulty = run[p].faulty
  BY <1>2 DEF IInv, Run, SameNames
<1>4. Holds(r') = Holds(run[p]) /\ NamesOf(r')
  <2>1. Holds(r') = Holds(run[p])
    BY <1>3 DEF Writing, Written, Holds, OptSteps, VirtSteps, SameNames,
         InputOf, OutputOf, VirtOf
  <2> QED BY <1>3, <2>1 DEF IInv, Names, NamesOf, SameNames, Writing, Written,
            VirtSteps, Ended
<1>5. Targets'
  <2>1. Len(content') >= Len(content)
    BY <1>2 DEF IInv, Directory
  <2> QED BY <1>0, <1>2, <1>3, <2>1, KeepsTargets DEF Calm
<1>6. ASSUME p \notin met PROVE FilesOf(run[p], p)'
  <2>1. FilesOf(run[p], p)
    BY <1>6 DEF IInv, Files
  <2>2. PICK path : path = Target(run[p])
    OBVIOUS
  <2>0. Opened(run[p], path)
    BY <2>1, <2>2 DEF FilesOf, Target, Writing
  <2>3. Contains(path, p)'
    BY <1>2, <2>0, <2>1, <2>2 DEF FilesOf, Opened, Contains, Present
  <2>4. CASE run[p].pc = "write_input"
    BY <1>3, <2>1, <2>2, <2>3, <2>4
      DEF FilesOf, Target, Written, SameNames, InputOf, Contains, Present
  <2>5. CASE run[p].pc = "write_output"
    BY <1>2, <1>3, <2>1, <2>2, <2>3, <2>5
      DEF FilesOf, Target, Written, SameNames, InputOf, OutputOf, Contains, Present
  <2>6. CASE run[p].pc = "write_virt"
    BY <1>3, <2>1, <2>2, <2>3, <2>6
      DEF FilesOf, Target, Written, SameNames, VirtOf, Contains, Present
  <2> QED BY <2>4, <2>5, <2>6 DEF Writing
<1> QED BY <1>0, <1>2, <1>3, <1>4, <1>5, <1>6, Assemble

LEMMA RemoveKeeps ==
  ASSUME IInv, NEW p \in Procs, NEW path \in Holds(run[p]),
         NEW to \in Steps, Remove(p, path, to),
         \/ run[p].pc \in {"opt_failed", "compose_failed"} /\ to = "failed"
         \/ run[p].pc = "remove_input" /\ to = "remove_output"
              /\ path = InputOf(run[p])
         \/ run[p].pc = "remove_output" /\ to = "encode"
         \/ run[p].pc = "remove_virt" /\ to = "ok"
  PROVE  IInv'
<1> DEFINE r == run[p]
           pc == IF Present(path) THEN to ELSE "failed"
<1>1. /\ Calm(p) /\ Directory' /\ now' = now /\ met' = met
      /\ content' = content
      /\ run' \in [Procs -> Run]
      /\ r' = [run[p] EXCEPT !.pc = pc]
      /\ DOMAIN dir' = DOMAIN dir \ {path}
      /\ \A a \in DOMAIN dir' : dir'[a] = dir[a]
  BY RemoveGives
<1>2. /\ r'.pc = pc /\ SameNames(r', run[p])
      /\ r'.bytes = run[p].bytes /\ r'.faulty = run[p].faulty
  BY <1>1 DEF IInv, Run, SameNames
<1>3. pc \notin Writing
  BY DEF Writing
<1>4. Holds(r') \subseteq Holds(run[p])
  BY <1>2 DEF Holds, OptSteps, VirtSteps, SameNames, InputOf, OutputOf, VirtOf
<1>5. NamesOf(r')
  <2>1. NamesOf(run[p])
    BY DEF IInv, Names
  <2> QED BY <1>2, <1>4, <2>1 DEF NamesOf, SameNames, VirtSteps, Ended
<1>6. Targets'
  <2>1. Len(content') >= Len(content)
    BY <1>1 DEF IInv, Directory
  <2> QED BY <1>1, <1>2, <1>3, <2>1, KeepsTargets DEF Calm
<1>7. ASSUME p \notin met
      PROVE  /\ FilesOf(run[p], p) /\ (run[p].pc \in Failures => run[p].faulty)
             /\ (Present(path) \/ run[p].pc \in Failures)
  <2>1. FilesOf(run[p], p) /\ (run[p].pc \in Failures => run[p].faulty)
    BY <1>7 DEF IInv, Files, Causes
  <2> QED BY <2>1 DEF FilesOf, Holds, OptSteps, VirtSteps, Failures
<1>8. p \notin met => FilesOf(run[p], p)'
  <2>1. ASSUME p \notin met, pc = "remove_output"
        PROVE  Present(OutputOf(r))'
    <3>1. run[p].pc = "remove_input" /\ path = InputOf(run[p])
      BY <2>1
    <3>2. Present(OutputOf(run[p]))
      BY <1>7, <2>1, <3>1 DEF FilesOf
    <3>3. OutputOf(run[p]) # path
      BY <3>1 DEF InputOf, OutputOf
    <3> QED BY <1>1, <1>2, <3>2, <3>3 DEF Present, OutputOf, SameNames
  <2>2. p \notin met => r'.bytes = p
    BY <1>2, <1>7 DEF FilesOf
  <2> QED BY <1>1, <1>2, <2>1, <2>2 DEF FilesOf
<1>9. p \notin met /\ r'.pc \in Failures => r'.faulty
  BY <1>2, <1>7 DEF Failures
<1>10. \A a \in DOMAIN dir' \cap Holds(run[p]) :
         a \in Holds(r') \/ r'.faulty \/ p \in met
  <2> SUFFICES ASSUME NEW a \in DOMAIN dir' \cap Holds(run[p]),
                      ~r'.faulty, p \notin met
               PROVE  a \in Holds(r')
    OBVIOUS
  <2>1. a # path /\ Present(path) /\ run[p].pc \notin Failures
    BY <1>1, <1>2, <1>7
  <2>2. run[p].pc = "remove_input" /\ path = InputOf(run[p]) /\ r'.pc = "remove_output"
    BY <1>2, <2>1 DEF Holds, OptSteps, VirtSteps, Failures
  <2>3. a = OutputOf(run[p])
    BY <2>1, <2>2 DEF Holds, OptSteps
  <2>4. OutputOf(r') = OutputOf(run[p])
    BY <1>2 DEF SameNames, OutputOf
  <2>5. Holds(r') = {OutputOf(r')}
    BY <2>2 DEF Holds, OptSteps, VirtSteps
  <2> QED BY <2>3, <2>4, <2>5
<1>11. DOMAIN dir' \ DOMAIN dir \subseteq Holds(run[p])
  BY <1>1
<1>12. run[p].faulty => r'.faulty
  BY <1>2
<1> HIDE DEF r, pc
<1> QED
  BY <1>1, <1>2, <1>4, <1>5, <1>6, <1>8, <1>9, <1>10, <1>11, <1>12, Assemble
    DEF r

LEMMA ApplyWasmOptStep ==
  ASSUME IInv, NEW p \in Procs, ApplyWasmOpt(p)
  PROVE  IInv'
<1> DEFINE r == run[p]
<1>1. r \in Run /\ NamesOf(r) /\ now \in Nat
  BY DEF IInv, Names
<1>2. p \notin met => FilesOf(r, p) /\ (r.pc \in Failures => r.faulty)
  BY DEF IInv, Files, Causes
<1>3. CASE NameInput(p)
  <2> DEFINE s == [r EXCEPT !.pc = "name_output", !.input = now]
  <2>1. r.pc = "start" /\ Take(p, s)
    BY <1>3 DEF NameInput
  <2>2. /\ s \in Run /\ s.pc = "name_output" /\ s.input = now
        /\ s.output = r.output /\ s.virt = r.virt
        /\ s.bytes = r.bytes /\ s.faulty = r.faulty
    BY <1>1 DEF Run, Steps, Name
  <2>3. Holds(r) = {} /\ Holds(s) = {InputOf(s)}
    BY <2>1, <2>2 DEF Holds, OptSteps, VirtSteps
  <2>4. NamesOf(s)
    BY <1>1, <2>1, <2>2, <2>3 DEF NamesOf, InputOf, Paths, VirtSteps, Ended
  <2>5. \A path \in Paths \cap {InputOf(r), OutputOf(r), VirtOf(r)} :
          path \in {InputOf(s), OutputOf(s), VirtOf(s)}
    BY <1>1, <2>1, <2>2 DEF NamesOf, InputOf, OutputOf, VirtOf, Paths, NoName
  <2> HIDE DEF s
  <2> QED BY <2>1, <2>2, <2>3, <2>4, <2>5, TakeKeeps
<1>4. CASE NameOutput(p)
  <2> DEFINE s == [r EXCEPT !.pc = "create_input", !.output = now]
  <2>1. r.pc = "name_output" /\ Take(p, s)
    BY <1>4 DEF NameOutput
  <2>2. /\ s \in Run /\ s.pc = "create_input" /\ s.output = now
        /\ s.input = r.input /\ s.virt = r.virt
        /\ s.bytes = r.bytes /\ s.faulty = r.faulty
    BY <1>1 DEF Run, Steps, OptSteps, Name
  <2>3. Holds(r) = {InputOf(r)} /\ Holds(s) = {InputOf(r), OutputOf(s)}
    BY <2>1, <2>2 DEF Holds, OptSteps, VirtSteps, InputOf
  <2>4. NamesOf(s)
    BY <1>1, <2>1, <2>2, <2>3 DEF NamesOf, OutputOf, Paths, VirtSteps, Ended
  <2>5. \A path \in Paths \cap {InputOf(r), OutputOf(r), VirtOf(r)} :
          path \in {InputOf(s), OutputOf(s), VirtOf(s)}
    BY <1>1, <2>1, <2>2 DEF NamesOf, InputOf, OutputOf, VirtOf, Paths, NoName
  <2> HIDE DEF s
  <2> QED BY <2>1, <2>2, <2>3, <2>4, <2>5, TakeKeeps
<1>5. CASE CreateInput(p)
  <2> DEFINE s == [r EXCEPT !.pc = "write_input"]
  <2>1. r.pc = "create_input" /\ Create(p, InputOf(r), "write_input")
    BY <1>5 DEF CreateInput
  <2>2. /\ s.pc = "write_input"
        /\ s.input = r.input /\ s.output = r.output /\ s.virt = r.virt
    BY <1>1 DEF Run
  <2>3. Holds(r) = {InputOf(r), OutputOf(r)} /\ Holds(s) = Holds(r)
    BY <2>1, <2>2 DEF Holds, OptSteps, VirtSteps, InputOf, OutputOf
  <2>4. NamesOf(s) /\ Target(s) = InputOf(r) /\ InputOf(r) \in Paths
    BY <1>1, <2>1, <2>2, <2>3 DEF NamesOf, Target, InputOf, VirtSteps, Ended
  <2> HIDE DEF s
  <2> QED BY <2>1, <2>3, <2>4, CreateKeeps DEF s, Writing
<1>6. CASE WriteInput(p)
  BY <1>6, WriteKeeps DEF WriteInput, Written, Writing
<1>7. CASE Optimize(p)
  <2> DEFINE input == InputOf(r)
  <2>1. r.pc = "optimize"
    BY <1>7 DEF Optimize
  <2>2. Holds(r) = {InputOf(r), OutputOf(r)}
    BY <2>1 DEF Holds, OptSteps, VirtSteps
  <2>3. CASE Present(input) /\ content[dir[input]] \notin {Empty, Torn}
    <3> DEFINE s == [r EXCEPT !.pc = "create_output",
                              !.bytes = content[dir[input]]]
    <3>1. /\ run' = [run EXCEPT ![p] = s]
          /\ UNCHANGED <<now, dir, content, met>>
      BY <1>7, <2>3 DEF Optimize, Read, Present
    <3>2. content[dir[input]] \in Content
      BY <2>3 DEF Present, IInv, Directory
    <3>3. /\ s \in Run /\ s.pc = "create_output" /\ SameNames(s, r)
          /\ s.bytes = content[dir[input]] /\ s.faulty = r.faulty
      BY <1>1, <3>2 DEF Run, Steps, OptSteps, SameNames
    <3>4. Holds(s) = Holds(r)
      BY <2>2, <3>3 DEF Holds, OptSteps, VirtSteps, SameNames, InputOf, OutputOf
    <3>5. NamesOf(s)
      BY <1>1, <2>1, <3>3, <3>4 DEF NamesOf, SameNames, VirtSteps, Ended
    <3>6. p \notin met => FilesOf(s, p)
      BY <1>2, <2>1, <2>3, <3>3 DEF FilesOf, Contains, SameNames, InputOf
    <3>7. s.pc \notin Writing \cup Failures
      BY <3>3 DEF Writing, Failures
    <3> HIDE DEF s
    <3> QED BY <3>1, <3>3, <3>4, <3>5, <3>6, <3>7, MovesKeep
  <2>4. CASE ~(Present(input) /\ content[dir[input]] \notin {Empty, Torn})
    <3>1. Goto(p, "opt_failed") /\ UNCHANGED <<now, dir, content, met>>
      BY <1>7, <2>4 DEF Optimize, Present
    <3>2. p \in met
      BY TempFilesAssumption, <1>2, <2>1, <2>4 DEF FilesOf, Contains
    <3> DEFINE s == [r EXCEPT !.pc = "opt_failed"]
    <3>3. /\ s.pc = "opt_failed" /\ SameNames(s, r)
      BY <1>1 DEF Run, SameNames
    <3>4. Holds(s) = Holds(r)
      BY <2>2, <3>3 DEF Holds, OptSteps, VirtSteps, SameNames, InputOf, OutputOf
    <3>5. NamesOf(s)
      BY <1>1, <2>1, <3>3, <3>4 DEF NamesOf, SameNames, VirtSteps, Ended
    <3>6. "opt_failed" \in Steps \ Writing
      BY DEF Steps, OptSteps, Writing
    <3> QED BY <3>1, <3>2, <3>4, <3>5, <3>6, GotoKeeps
  <2> QED BY <2>3, <2>4
<1>8. CASE CreateOutput(p)
  <2> DEFINE s == [r EXCEPT !.pc = "write_output"]
  <2>1. r.pc = "create_output" /\ Create(p, OutputOf(r), "write_output")
    BY <1>8 DEF CreateOutput
  <2>2. /\ s.pc = "write_output"
        /\ s.input = r.input /\ s.output = r.output /\ s.virt = r.virt
    BY <1>1 DEF Run
  <2>3. Holds(r) = {InputOf(r), OutputOf(r)} /\ Holds(s) = Holds(r)
    BY <2>1, <2>2 DEF Holds, OptSteps, VirtSteps, InputOf, OutputOf
  <2>4. NamesOf(s) /\ Target(s) = OutputOf(r) /\ OutputOf(r) \in Paths
    BY <1>1, <2>1, <2>2, <2>3 DEF NamesOf, Target, OutputOf, VirtSteps, Ended
  <2>5. p \notin met => Present(InputOf(r))
    BY <1>2, <2>1 DEF FilesOf
  <2> HIDE DEF s
  <2> QED BY <2>1, <2>3, <2>4, <2>5, CreateKeeps DEF s, Writing
<1>9. CASE WriteOutput(p)
  BY <1>9, WriteKeeps DEF WriteOutput, Written, Writing
<1>10. CASE OptFailed(p)
  <2>1. r.pc = "opt_failed" /\ Remove(p, InputOf(r), "failed")
    BY <1>10 DEF OptFailed
  <2>2. InputOf(r) \in Holds(r)
    BY <2>1 DEF Holds, OptSteps, VirtSteps
  <2> QED BY <2>1, <2>2, RemoveKeeps DEF Steps, Ended
<1>11. CASE ReadOutput(p)
  <2> DEFINE output == OutputOf(r)
  <2>1. r.pc = "read_output"
    BY <1>11 DEF ReadOutput
  <2>2. Holds(r) = {InputOf(r), OutputOf(r)}
    BY <2>1 DEF Holds, OptSteps, VirtSteps
  <2>3. CASE Present(output)
    <3> DEFINE s == [r EXCEPT !.pc = "remove_input",
                              !.bytes = content[dir[output]]]
    <3>1. /\ run' = [run EXCEPT ![p] = s]
          /\ UNCHANGED <<now, dir, content, met>>
      BY <1>11, <2>3 DEF ReadOutput, Read, Present
    <3>2. content[dir[output]] \in Content
      BY <2>3 DEF Present, IInv, Directory
    <3>3. /\ s \in Run /\ s.pc = "remove_input" /\ SameNames(s, r)
          /\ s.bytes = content[dir[output]] /\ s.faulty = r.faulty
      BY <1>1, <3>2 DEF Run, Steps, OptSteps, SameNames
    <3>4. Holds(s) = Holds(r)
      BY <2>2, <3>3 DEF Holds, OptSteps, VirtSteps, SameNames, InputOf, OutputOf
    <3>5. NamesOf(s)
      BY <1>1, <2>1, <3>3, <3>4 DEF NamesOf, SameNames, VirtSteps, Ended
    <3>6. p \notin met => FilesOf(s, p)
      BY <1>2, <2>1, <2>3, <3>3
        DEF FilesOf, Contains, SameNames, InputOf, OutputOf
    <3>7. s.pc \notin Writing \cup Failures
      BY <3>3 DEF Writing, Failures
    <3> HIDE DEF s
    <3> QED BY <3>1, <3>3, <3>4, <3>5, <3>6, <3>7, MovesKeep
  <2>4. CASE ~Present(output)
    <3>1. Goto(p, "failed") /\ UNCHANGED <<now, dir, content, met>>
      BY <1>11, <2>4 DEF ReadOutput, Read, Present
    <3>2. p \in met
      BY <1>2, <2>1, <2>4 DEF FilesOf, Contains
    <3> DEFINE s == [r EXCEPT !.pc = "failed"]
    <3>3. /\ s.pc = "failed" /\ SameNames(s, r)
      BY <1>1 DEF Run, SameNames
    <3>4. Holds(s) = {}
      BY <3>3 DEF Holds, OptSteps, VirtSteps
    <3>5. NamesOf(s)
      BY <1>1, <2>1, <3>3, <3>4 DEF NamesOf, SameNames, VirtSteps, Ended
    <3>6. "failed" \in Steps \ Writing
      BY DEF Steps, Ended, Writing
    <3> QED BY <3>1, <3>2, <3>4, <3>5, <3>6, GotoKeeps
  <2> QED BY <2>3, <2>4
<1>12. CASE RemoveInput(p)
  <2>1. r.pc = "remove_input" /\ Remove(p, InputOf(r), "remove_output")
    BY <1>12 DEF RemoveInput
  <2>2. InputOf(r) \in Holds(r)
    BY <2>1 DEF Holds, OptSteps, VirtSteps
  <2> QED BY <2>1, <2>2, RemoveKeeps DEF Steps, OptSteps
<1>13. CASE RemoveOutput(p)
  <2>1. r.pc = "remove_output" /\ Remove(p, OutputOf(r), "encode")
    BY <1>13 DEF RemoveOutput
  <2>2. OutputOf(r) \in Holds(r)
    BY <2>1 DEF Holds, OptSteps, VirtSteps
  <2> QED BY <2>1, <2>2, RemoveKeeps DEF Steps
<1> QED
  BY <1>3, <1>4, <1>5, <1>6, <1>7, <1>8, <1>9, <1>10, <1>11, <1>12, <1>13
    DEF ApplyWasmOpt

LEMMA ComposeFilesStep ==
  ASSUME IInv, NEW p \in Procs, ComposeFiles(p)
  PROVE  IInv'
<1> DEFINE r == run[p]
<1>1. r \in Run /\ NamesOf(r) /\ now \in Nat
  BY DEF IInv, Names
<1>2. p \notin met => FilesOf(r, p) /\ (r.pc \in Failures => r.faulty)
  BY DEF IInv, Files, Causes
<1>3. CASE NameVirt(p)
  <2> DEFINE s == [r EXCEPT !.pc = "create_virt", !.virt = now]
  <2>1. r.pc = "name_virt" /\ Take(p, s)
    BY <1>3 DEF NameVirt
  <2>2. /\ s \in Run /\ s.pc = "create_virt" /\ s.virt = now
        /\ s.input = r.input /\ s.output = r.output
        /\ s.bytes = r.bytes /\ s.faulty = r.faulty
    BY <1>1 DEF Run, Steps, VirtSteps, Name
  <2>3. Holds(r) = {} /\ Holds(s) = {VirtOf(s)}
    BY <2>1, <2>2 DEF Holds, OptSteps, VirtSteps
  <2>4. NamesOf(s)
    BY <1>1, <2>1, <2>2, <2>3 DEF NamesOf, VirtOf, Paths, VirtSteps, Ended
  <2>5. \A path \in Paths \cap {InputOf(r), OutputOf(r), VirtOf(r)} :
          path \in {InputOf(s), OutputOf(s), VirtOf(s)}
    BY <1>1, <2>1, <2>2
      DEF NamesOf, InputOf, OutputOf, VirtOf, Paths, NoName, VirtSteps, Ended
  <2> HIDE DEF s
  <2> QED BY <2>1, <2>2, <2>3, <2>4, <2>5, TakeKeeps
<1>4. CASE CreateVirt(p)
  <2> DEFINE s == [r EXCEPT !.pc = "write_virt"]
  <2>1. r.pc = "create_virt" /\ Create(p, VirtOf(r), "write_virt")
    BY <1>4 DEF CreateVirt
  <2>2. /\ s.pc = "write_virt"
        /\ s.input = r.input /\ s.output = r.output /\ s.virt = r.virt
    BY <1>1 DEF Run
  <2>3. Holds(r) = {VirtOf(r)} /\ Holds(s) = Holds(r)
    BY <2>1, <2>2 DEF Holds, OptSteps, VirtSteps, VirtOf
  <2>4. NamesOf(s) /\ Target(s) = VirtOf(r) /\ VirtOf(r) \in Paths
    BY <1>1, <2>1, <2>2, <2>3 DEF NamesOf, Target, VirtOf, VirtSteps, Ended
  <2> HIDE DEF s
  <2> QED BY <2>1, <2>3, <2>4, CreateKeeps DEF s, Writing
<1>5. CASE WriteVirt(p)
  BY <1>5, WriteKeeps DEF WriteVirt, Written, Writing
<1>6. CASE Compose(p)
  <2> DEFINE virt == VirtOf(r)
  <2>1. r.pc = "compose"
    BY <1>6 DEF Compose
  <2>2. Holds(r) = {VirtOf(r)}
    BY <2>1 DEF Holds, OptSteps, VirtSteps
  <2>3. CASE Present(virt) /\ content[dir[virt]] \notin {Empty, Torn}
    <3> DEFINE s == [r EXCEPT !.pc = "remove_virt",
                              !.bytes = content[dir[virt]]]
    <3>1. /\ run' = [run EXCEPT ![p] = s]
          /\ UNCHANGED <<now, dir, content, met>>
      BY <1>6, <2>3 DEF Compose, Read, Present
    <3>2. content[dir[virt]] \in Content
      BY <2>3 DEF Present, IInv, Directory
    <3>3. /\ s \in Run /\ s.pc = "remove_virt" /\ SameNames(s, r)
          /\ s.bytes = content[dir[virt]] /\ s.faulty = r.faulty
      BY <1>1, <3>2 DEF Run, Steps, VirtSteps, SameNames
    <3>4. Holds(s) = Holds(r)
      BY <2>2, <3>3 DEF Holds, OptSteps, VirtSteps, SameNames, VirtOf
    <3>5. NamesOf(s)
      BY <1>1, <2>1, <3>3, <3>4 DEF NamesOf, SameNames, VirtSteps, Ended
    <3>6. p \notin met => FilesOf(s, p)
      BY <1>2, <2>1, <2>3, <3>3 DEF FilesOf, Contains, SameNames, VirtOf
    <3>7. s.pc \notin Writing \cup Failures
      BY <3>3 DEF Writing, Failures
    <3> HIDE DEF s
    <3> QED BY <3>1, <3>3, <3>4, <3>5, <3>6, <3>7, MovesKeep
  <2>4. CASE ~(Present(virt) /\ content[dir[virt]] \notin {Empty, Torn})
    <3>1. Goto(p, "compose_failed") /\ UNCHANGED <<now, dir, content, met>>
      BY <1>6, <2>4 DEF Compose, Present
    <3>2. p \in met
      BY TempFilesAssumption, <1>2, <2>1, <2>4 DEF FilesOf, Contains
    <3> DEFINE s == [r EXCEPT !.pc = "compose_failed"]
    <3>3. /\ s.pc = "compose_failed" /\ SameNames(s, r)
      BY <1>1 DEF Run, SameNames
    <3>4. Holds(s) = Holds(r)
      BY <2>2, <3>3 DEF Holds, OptSteps, VirtSteps, SameNames, VirtOf
    <3>5. NamesOf(s)
      BY <1>1, <2>1, <3>3, <3>4 DEF NamesOf, SameNames, VirtSteps, Ended
    <3>6. "compose_failed" \in Steps \ Writing
      BY DEF Steps, VirtSteps, Writing
    <3> QED BY <3>1, <3>2, <3>4, <3>5, <3>6, GotoKeeps
  <2> QED BY <2>3, <2>4
<1>7. CASE ComposeFailed(p)
  <2>1. r.pc = "compose_failed" /\ Remove(p, VirtOf(r), "failed")
    BY <1>7 DEF ComposeFailed
  <2>2. VirtOf(r) \in Holds(r)
    BY <2>1 DEF Holds, OptSteps, VirtSteps
  <2> QED BY <2>1, <2>2, RemoveKeeps DEF Steps, Ended
<1>8. CASE RemoveVirt(p)
  <2>1. r.pc = "remove_virt" /\ Remove(p, VirtOf(r), "ok")
    BY <1>8 DEF RemoveVirt
  <2>2. VirtOf(r) \in Holds(r)
    BY <2>1 DEF Holds, OptSteps, VirtSteps
  <2> QED BY <2>1, <2>2, RemoveKeeps DEF Steps, Ended
<1> QED BY <1>3, <1>4, <1>5, <1>6, <1>7, <1>8 DEF ComposeFiles

\* The step between the two parts: no name is held across it.
LEMMA BetweenStep ==
  ASSUME IInv, NEW p \in Procs, SkipOpt(p) \/ Encode(p)
  PROVE  IInv'
<1> DEFINE r == run[p]
<1>1. r \in Run /\ NamesOf(r) /\ (p \notin met => FilesOf(r, p))
  BY DEF IInv, Names, Files
<1>2. PICK pc \in {"encode", "failed", "name_virt", "ok"} :
        /\ Goto(p, pc) /\ UNCHANGED <<now, dir, content, met>>
        /\ r.pc \in {"start", "encode"}
        /\ pc = "failed" => r.bytes \in {Empty, Torn}
  BY DEF SkipOpt, Encode, AfterEncode
<1> DEFINE s == [r EXCEPT !.pc = pc]
<1>3. s.pc = pc /\ SameNames(s, r) /\ s.bytes = r.bytes
  BY <1>1 DEF Run, SameNames
<1>4. Holds(s) = {} /\ Holds(r) = {}
  BY <1>2, <1>3 DEF Holds, OptSteps, VirtSteps
<1>5. NamesOf(s)
  BY <1>1, <1>2, <1>3, <1>4 DEF NamesOf, SameNames, VirtSteps, Ended
<1>6. pc \in Steps \ Writing
  BY DEF Steps, Ended, Writing
<1>7. p \notin met => FilesOf(s, p) /\ pc \notin Failures
  BY TempFilesAssumption, <1>1, <1>2, <1>3 DEF FilesOf, Failures
<1> QED BY <1>2, <1>4, <1>5, <1>6, <1>7, GotoKeeps

\* A process that fails or is killed keeps its files, and is known for it.
LEMMA FaultStep ==
  ASSUME IInv, NEW p \in Procs, SystemCallFails(p) \/ Kill(p)
  PROVE  IInv'
<1> DEFINE r == run[p]
<1>1. r \in Run /\ NamesOf(r) /\ (p \notin met => FilesOf(r, p))
  BY DEF IInv, Names, Files
<1>2. PICK pc \in {"opt_failed", "compose_failed", "failed", "killed"} :
        /\ run' = [run EXCEPT ![p] = [r EXCEPT !.pc = pc, !.faulty = TRUE]]
        /\ UNCHANGED <<now, dir, content, met>>
        /\ pc = "opt_failed"
             => r.pc \in {"optimize", "create_output", "write_output"}
        /\ pc = "compose_failed" => r.pc = "compose"
        /\ pc = "failed" => r.pc \in OptSteps \cup VirtSteps
  BY DEF SystemCallFails, Kill, OnError
<1> DEFINE s == [r EXCEPT !.pc = pc, !.faulty = TRUE]
<1>3. s \in Run /\ s.pc = pc /\ s.faulty /\ SameNames(s, r) /\ s.bytes = r.bytes
  BY <1>1, <1>2 DEF Run, Steps, OptSteps, VirtSteps, Ended, SameNames
<1>4. Holds(s) \subseteq Holds(r)
  <2>1. CASE pc = "opt_failed"
    <3>1. Holds(s) = {InputOf(s), OutputOf(s)}
      BY <1>3, <2>1 DEF Holds, OptSteps, VirtSteps
    <3>2. Holds(r) = {InputOf(r), OutputOf(r)}
      BY <1>2, <2>1 DEF Holds, OptSteps, VirtSteps
    <3> QED BY <1>3, <3>1, <3>2 DEF SameNames, InputOf, OutputOf
  <2>2. CASE pc = "compose_failed"
    <3>1. Holds(s) = {VirtOf(s)}
      BY <1>3, <2>2 DEF Holds, OptSteps, VirtSteps
    <3>2. Holds(r) = {VirtOf(r)}
      BY <1>2, <2>2 DEF Holds, OptSteps, VirtSteps
    <3> QED BY <1>3, <3>1, <3>2 DEF SameNames, VirtOf
  <2>3. CASE pc \in {"failed", "killed"}
    BY <1>3, <2>3 DEF Holds, OptSteps, VirtSteps
  <2> QED BY <1>2, <2>1, <2>2, <2>3
<1>5. NamesOf(s)
  BY <1>1, <1>2, <1>3, <1>4 DEF NamesOf, SameNames, VirtSteps, Ended
<1>6. s.pc \notin Writing
  BY <1>2, <1>3 DEF Writing
<1>7. p \notin met => FilesOf(s, p)
  BY <1>1, <1>2, <1>3 DEF FilesOf
<1> HIDE DEF s
<1> QED BY <1>2, <1>3, <1>4, <1>5, <1>6, <1>7, MovesKeep DEF s

-----------------------------------------------------------------------------
(***************************************************************************)
(* The theorems.                                                           *)
(***************************************************************************)

LEMMA InitEstablishes == Init => IInv
<1> SUFFICES ASSUME Init PROVE IInv
  OBVIOUS
<1>1. /\ now = 0 /\ met = {} /\ content = <<>>
      /\ dir = [path \in {} |-> 0] /\ DOMAIN dir = {}
  BY DEF Init
<1>2. ASSUME NEW p \in Procs
      PROVE  /\ run[p] \in Run /\ run[p].pc = "start" /\ run[p].bytes = p
             /\ run[p].input = NoName /\ run[p].output = NoName
             /\ run[p].virt = NoName
  <2>1. run[p] = [pc |-> "start", input |-> NoName, output |-> NoName,
                  virt |-> NoName, fd |-> 0, bytes |-> p, faulty |-> FALSE]
    BY DEF Init
  <2>2. "start" \in Steps /\ NoName \in Name /\ p \in Content
    BY DEF Steps, Name, Content
  <2> QED BY <2>1, <2>2 DEF Run
<1>3. run \in [Procs -> Run]
  BY <1>2 DEF Init
<1>4. Directory
  BY <1>1 DEF Directory, OneName
<1>5. \A p \in Procs : Holds(run[p]) = {}
  BY <1>2 DEF Holds, OptSteps, VirtSteps
<1>6. Targets /\ Apart /\ NoLitter
  BY <1>1, <1>2, <1>5 DEF Targets, Writing, Apart, NoLitter
<1>7. Files /\ Causes
  BY <1>2 DEF Files, FilesOf, Causes, Failures
<1>8. Names
  BY <1>2, <1>5 DEF Names, NamesOf
<1> QED BY <1>1, <1>3, <1>4, <1>6, <1>7, <1>8 DEF IInv

LEMMA NextKeeps == IInv /\ [Next]_vars => IInv'
<1> SUFFICES ASSUME IInv, [Next]_vars PROVE IInv'
  OBVIOUS
<1>1. ASSUME NEW p \in Procs, Proceed(p) \/ SystemCallFails(p) \/ Kill(p)
      PROVE  IInv'
  BY <1>1, ApplyWasmOptStep, ComposeFilesStep, BetweenStep, FaultStep DEF Proceed
<1>2. CASE Tick \/ UNCHANGED vars
  <2>1. UNCHANGED <<dir, content, run, met>> /\ now' \in Nat
    BY <1>2 DEF IInv, Tick, vars
  <2> QED BY <2>1 DEF IInv, Directory, OneName, Targets, Target, Apart, Files,
            FilesOf, Present, Contains, Opened, Causes, Names, NamesOf, NoLitter,
            Holds, InputOf, OutputOf, VirtOf
<1> QED BY <1>1, <1>2 DEF Next

\* Two processes that never held one name at one time cannot disturb each
\* other: what a virtualization returns is its own component.
THEOREM OwnResultHolds == Spec => []OwnResult
<1>1. IInv => OwnResult
  BY DEF IInv, Files, FilesOf, OwnResult
<1> QED BY <1>1, InitEstablishes, NextKeeps, PTL DEF Spec

\* ... and it fails only when one of its own system calls failed.
THEOREM FailsForACauseHolds == Spec => []FailsForACause
<1>1. IInv => FailsForACause
  BY DEF IInv, Causes, Failures, FailsForACause
<1> QED BY <1>1, InitEstablishes, NextKeeps, PTL DEF Spec

\* Whatever is left in the temporary directory, a fault or a shared name left
\* there.
THEOREM NoLitterHolds == Spec => []NoLitter
<1>1. IInv => NoLitter
  BY DEF IInv
<1> QED BY <1>1, InitEstablishes, NextKeeps, PTL DEF Spec

-----------------------------------------------------------------------------
(***************************************************************************)
(* What finish makes of the options: proofs about Virtualizer, for any     *)
(* toggles, streams and components.                                        *)
(***************************************************************************)

-----------------------------------------------------------------------------
(***************************************************************************)
(* What the options lead to.  Virtualized goes through eleven stages; each *)
(* is described by what it makes of membership in the four sets of a       *)
(* module, so that the stages chain for an arbitrary interface.            *)
(***************************************************************************)
Module ==
  [imports : SUBSET Interfaces, exports : SUBSET Interfaces,
   traps : SUBSET Interfaces, world : SUBSET Interfaces]

LEMMA Prefixes ==
  /\ Starting["wasi:cli/environment"] = {"environment"}
  /\ Starting["wasi:config/store"] = {"store"}
  /\ Starting["wasi:cli/std"] = {"std"}
  /\ Starting["wasi:cli/terminal"] = {"terminal"}
  /\ Starting["wasi:cli/clocks"] = {}
  /\ Starting["wasi:cli/exit"] = {"exit"}
  /\ Starting["wasi:http/"] = {"http", "incoming-handler"}
  /\ Starting["wasi:sockets/"] = {"sockets", "network"}
  /\ Starting["wasi:random/"] = {"random"}
  /\ Starting["wasi:clocks/"] = {"monotonic-clock", "wall-clock"}
  /\ Starting["wasi:filesystem/"] = {"filesystem"}
  /\ Starting["wasi:io/"] = {"io"}
BY DEF Starting

LEMMA AllInterfaces ==
  Interfaces = {"environment", "store", "std", "terminal", "exit", "http", "incoming-handler",
                "sockets", "network", "random", "monotonic-clock", "wall-clock",
                "filesystem", "io"}
<1>1. DOMAIN Starting = {"wasi:cli/environment", "wasi:config/store", "wasi:cli/std",
               "wasi:cli/terminal", "wasi:cli/clocks", "wasi:cli/exit", "wasi:http/",
               "wasi:sockets/", "wasi:random/", "wasi:clocks/", "wasi:filesystem/",
               "wasi:io/"}
  BY DEF Starting
<1>2. Interfaces = UNION {Starting[p] : p \in DOMAIN Starting}
  BY DEF Interfaces
<1>3. ASSUME NEW i PROVE i \in Interfaces <=> \E p \in DOMAIN Starting : i \in Starting[p]
  BY <1>2
<1> QED BY <1>1, <1>3, Prefixes

LEMMA StubIs ==
  ASSUME NEW m \in Module, NEW s
  PROVE  /\ Stub(m, s) \in Module
         /\ Stub(m, s).imports = m.imports \ s
         /\ Stub(m, s).exports = m.exports
         /\ Stub(m, s).traps = m.traps
         /\ Stub(m, s).world = m.world
BY DEF Stub, Module

LEMMA StripIs ==
  ASSUME NEW m \in Module, NEW s
  PROVE  /\ Strip(m, s) \in Module
         /\ Strip(m, s).imports = m.imports \ s
         /\ Strip(m, s).exports = m.exports \ s
         /\ Strip(m, s).traps = m.traps \ s
         /\ Strip(m, s).world = m.world
BY DEF Strip, Stub, Module

LEMMA ReplaceIs ==
  ASSUME NEW m \in Module, NEW s \in SUBSET Interfaces
  PROVE  /\ ReplaceOrInsert(m, s) \in Module
         /\ ReplaceOrInsert(m, s).imports = m.imports
         /\ ReplaceOrInsert(m, s).exports = m.exports \cup s
         /\ ReplaceOrInsert(m, s).traps = m.traps \cup s
         /\ ReplaceOrInsert(m, s).world = m.world
BY DEF ReplaceOrInsert, Module

LEMMA MergeIs ==
  ASSUME NEW m \in Module, NEW s \in SUBSET Interfaces
  PROVE  /\ Merge(m, s) \in Module
         /\ Merge(m, s).imports = m.imports
         /\ Merge(m, s).exports = m.exports
         /\ Merge(m, s).traps = m.traps
         /\ Merge(m, s).world = m.world \cup s
BY DEF Merge, Module

LEMMA StripCliIs ==
  ASSUME NEW m \in Module, NEW i \in Interfaces
  PROVE  /\ StripCli(m, i) \in Module
         /\ StripCli(m, i).imports = m.imports \ {i}
         /\ StripCli(m, i).exports = m.exports
         /\ StripCli(m, i).traps = m.traps \cup {i}
         /\ StripCli(m, i).world = m.world
BY DEF StripCli, Stub, Module

\* n is what the stage of env or config makes of m.
HostServed(n, m, host, i) ==
  /\ n \in Module
  /\ \A j : j \in n.imports <=> j \in m.imports /\ (j = i => host # "unset" /\ host # "none")
  /\ \A j : j \in n.exports <=> j \in m.exports
  /\ \A j : j \in n.traps <=> j \in m.traps \/ (j = i /\ host = "unset")
  /\ \A j : j \in n.world <=> j \in m.world \/ (j = i /\ host # "unset")

LEMMA HostStageIs ==
  ASSUME NEW m \in Module, NEW host \in HostAccess \cup {"unset"}, NEW i \in Interfaces,
         NEW n, n = HostStage(m, host, i)
  PROVE  HostServed(n, m, host, i)
<1> USE DEF HostServed
<1> DEFINE one == {i}
<1>0. one \in SUBSET Interfaces /\ \A j : j \in one <=> j = i
  OBVIOUS
<1> HIDE DEF one
<1>1. CASE host = "unset"
  <2>1. n = StripCli(m, i)
    BY <1>1 DEF HostStage
  <2> QED BY <1>1, <2>1, StripCliIs
<1>2. CASE host = "none"
  <2>1. n = Merge(Stub(m, one), one)
    BY <1>2 DEF HostStage, one
  <2> QED BY <1>0, <1>2, <2>1, MergeIs, StubIs
<1>3. CASE host # "unset" /\ host # "none"
  <2>1. n = Merge(m, one)
    BY <1>3 DEF HostStage, HostAccess, one
  <2> QED BY <1>0, <1>3, <2>1, MergeIs
<1> QED BY <1>1, <1>2, <1>3

\* The same for exit and random.
OutsideServed(n, m, value, functions) ==
  /\ n \in Module
  /\ \A j : j \in n.imports <=> j \in m.imports
  /\ \A j : j \in n.exports <=> j \in m.exports \/ (j \in functions /\ value = "deny")
  /\ \A j : j \in n.traps <=> j \in m.traps \/ (j \in functions /\ value = "deny")
  /\ \A j : j \in n.world <=> j \in m.world \/ (j \in functions /\ value = "deny")

LEMMA OutsideStageIs ==
  ASSUME NEW m \in Module, NEW value, NEW prefix, NEW functions \in SUBSET Interfaces,
         Starting[prefix] = functions, NEW n, n = OutsideStage(m, value, prefix, functions)
  PROVE  OutsideServed(n, m, value, functions)
<1> USE DEF OutsideServed
<1>1. CASE value = "deny"
  <2>1. n = ReplaceOrInsert(Merge(m, functions), functions)
    BY <1>1 DEF OutsideStage
  <2> QED BY <1>1, <2>1, MergeIs, ReplaceIs
<1>2. CASE value # "deny"
  BY <1>2 DEF OutsideStage
<1> QED BY <1>1, <1>2

\* The same for clocks, sockets and http.
SwitchServed(n, m, value, group, functions, passed) ==
  /\ n \in Module
  /\ \A j : j \in n.imports <=> j \in m.imports /\ (j \in group => value = "allow")
  /\ \A j : j \in n.exports <=>
       \/ j \in m.exports /\ (j \in group => value # "unset")
       \/ j \in functions /\ value = "deny"
  /\ \A j : j \in n.traps <=>
       \/ j \in m.traps /\ (j \in group => value # "unset")
       \/ j \in functions /\ value = "deny"
  /\ \A j : j \in n.world <=>
       \/ j \in m.world
       \/ j \in group /\ value = "deny"
       \/ j \in passed /\ value = "allow"

LEMMA SwitchStageIs ==
  ASSUME NEW m \in Module, NEW value \in {"unset", "allow", "deny"}, NEW prefix,
         NEW group \in SUBSET Interfaces, NEW functions \in SUBSET group,
         NEW passed \in SUBSET group, Starting[prefix] = group,
         NEW n, n = SwitchStage(m, value, prefix, functions, passed)
  PROVE  SwitchServed(n, m, value, group, functions, passed)
<1> USE DEF SwitchServed
<1>0. passed \in SUBSET Interfaces /\ functions \in SUBSET Interfaces
  OBVIOUS
<1>1. CASE value = "deny"
  <2>1. n = ReplaceOrInsert(Stub(Merge(m, group), group), functions)
    BY <1>1 DEF SwitchStage
  <2>2. /\ Merge(m, group) \in Module /\ Stub(Merge(m, group), group) \in Module
    BY MergeIs, StubIs
  <2> QED BY <1>0, <1>1, <2>1, <2>2, MergeIs, ReplaceIs, StubIs
<1>2. CASE value = "allow"
  <2>1. n = Merge(m, passed)
    BY <1>2 DEF SwitchStage
  <2> QED BY <1>0, <1>2, <2>1, MergeIs
<1>3. CASE value = "unset"
  <2>1. n = Strip(m, group)
    BY <1>3 DEF SwitchStage
  <2> QED BY <1>3, <2>1, StripIs
<1> QED BY <1>1, <1>2, <1>3

CliInterfaces == {"std", "terminal"}

LEMMA CreateIoVirtIs ==
  ASSUME NEW m \in Module, NEW o, NEW n, n = CreateIoVirt(m, o)
  PROVE  /\ n \in Module
         /\ \A j : j \in n.imports <=>
              /\ j \in m.imports
              /\ j \in CliInterfaces => o.stdio.set /\ ~DisableStdio(o)
              /\ j = "filesystem" => FsPassthrough(o)
              /\ j = "io" => FsPassthrough(o) \/ ~DisableStdio(o)
         /\ \A j : j \in n.exports <=> j \in m.exports /\ (j \in CliInterfaces => o.stdio.set)
         /\ \A j : j \in n.traps <=> j \in m.traps /\ (j \in CliInterfaces => o.stdio.set)
         /\ n.world = m.world
<1> DEFINE cli == CliInterfaces
           stripped == IF o.stdio.set THEN m ELSE Strip(m, cli)
           stubbed == IF DisableStdio(o) THEN Stub(stripped, cli) ELSE stripped
           unused == {"filesystem"} \cup (IF DisableStdio(o) THEN {"io"} ELSE {})
<1>1. n = IF FsPassthrough(o) THEN stubbed ELSE Stub(stubbed, unused)
  <2>1. Starting["wasi:cli/std"] \cup Starting["wasi:cli/terminal"] = CliInterfaces
    BY Prefixes DEF CliInterfaces
  <2> HIDE DEF FsPassthrough, DisableStdio
  <2>2. unused = Starting["wasi:filesystem/"]
                   \cup (IF DisableStdio(o) THEN Starting["wasi:io/"] ELSE {})
    BY Prefixes
  <2> HIDE DEF unused
  <2> QED BY <2>1, <2>2 DEF CreateIoVirt
<1>2. /\ stripped \in Module
      /\ \A j : j \in stripped.imports <=> j \in m.imports /\ (j \in cli => o.stdio.set)
      /\ \A j : j \in stripped.exports <=> j \in m.exports /\ (j \in cli => o.stdio.set)
      /\ \A j : j \in stripped.traps <=> j \in m.traps /\ (j \in cli => o.stdio.set)
      /\ stripped.world = m.world
  BY StripIs
<1> HIDE DEF stripped
<1>3. /\ stubbed \in Module
      /\ \A j : j \in stubbed.imports <=> j \in stripped.imports /\ (j \in cli => ~DisableStdio(o))
      /\ stubbed.exports = stripped.exports
      /\ stubbed.traps = stripped.traps
      /\ stubbed.world = stripped.world
  BY <1>2, StubIs
<1>4. \A j : j \in unused <=> j = "filesystem" \/ (j = "io" /\ DisableStdio(o))
  OBVIOUS
<1> HIDE DEF stubbed, unused
<1>5. /\ n \in Module
      /\ \A j : j \in n.imports <=>
           /\ j \in stubbed.imports
           /\ j = "filesystem" => FsPassthrough(o)
           /\ j = "io" => FsPassthrough(o) \/ ~DisableStdio(o)
      /\ n.exports = stubbed.exports
      /\ n.traps = stubbed.traps
      /\ n.world = stubbed.world
  BY <1>1, <1>3, <1>4, StubIs
<1> QED BY <1>2, <1>3, <1>5

\* The same for create_io_virt, or for no io at all.
IoServed(n, m, o) ==
  /\ n \in Module
  /\ \A j : j \in n.imports <=>
       /\ j \in m.imports
       /\ j = "io" => HasVirtualizedIo(o) /\ (FsPassthrough(o) \/ ~DisableStdio(o))
       /\ HasVirtualizedIo(o) /\ j \in CliInterfaces => o.stdio.set /\ ~DisableStdio(o)
       /\ HasVirtualizedIo(o) /\ j = "filesystem" => FsPassthrough(o)
  /\ \A j : j \in n.exports <=>
       /\ j \in m.exports
       /\ j = "io" => HasVirtualizedIo(o)
       /\ HasVirtualizedIo(o) /\ j \in CliInterfaces => o.stdio.set
  /\ \A j : j \in n.traps <=>
       /\ j \in m.traps
       /\ j = "io" => HasVirtualizedIo(o)
       /\ HasVirtualizedIo(o) /\ j \in CliInterfaces => o.stdio.set
  /\ \A j : j \in n.world <=> j \in m.world \/ (j = "io" /\ HasVirtualizedIo(o))

LEMMA IoStageIs ==
  ASSUME NEW m \in Module, NEW o, NEW n, n = IoStage(m, o)
  PROVE  IoServed(n, m, o)
<1> USE DEF IoServed
<1> DEFINE c == CreateIoVirt(m, o)
           io == {"io"}
<1>1. /\ io \in SUBSET Interfaces /\ Starting["wasi:io/"] = io
      /\ \A j : j \in io <=> j = "io"
      /\ \A j \in CliInterfaces : j # "io"
  BY AllInterfaces, Prefixes DEF CliInterfaces
<1>2. c = CreateIoVirt(m, o)
  OBVIOUS
<1> HIDE DEF c, io
<1>3. CASE HasVirtualizedIo(o)
  <2>1. n = Merge(c, io)
    BY <1>1, <1>2, <1>3 DEF IoStage
  <2>2. /\ c \in Module
        /\ \A j : j \in c.imports <=>
              /\ j \in m.imports
              /\ j \in CliInterfaces => o.stdio.set /\ ~DisableStdio(o)
              /\ j = "filesystem" => FsPassthrough(o)
              /\ j = "io" => FsPassthrough(o) \/ ~DisableStdio(o)
        /\ \A j : j \in c.exports <=> j \in m.exports /\ (j \in CliInterfaces => o.stdio.set)
        /\ \A j : j \in c.traps <=> j \in m.traps /\ (j \in CliInterfaces => o.stdio.set)
        /\ c.world = m.world
    BY <1>2, CreateIoVirtIs, ZenonT(60)
  <2>3. /\ n \in Module
        /\ n.imports = c.imports
        /\ n.exports = c.exports
        /\ n.traps = c.traps
        /\ n.world = c.world \cup io
    BY <1>1, <2>1, <2>2, MergeIs
  <2>4. \A j : j \in n.imports <=>
              /\ j \in m.imports
              /\ j = "io" => FsPassthrough(o) \/ ~DisableStdio(o)
              /\ j \in CliInterfaces => o.stdio.set /\ ~DisableStdio(o)
              /\ j = "filesystem" => FsPassthrough(o)
    BY <2>2, <2>3
  <2>5. \A j : j \in n.world <=> j \in m.world \/ j = "io"
    BY <1>1, <2>2, <2>3
  <2> QED BY <1>3, <2>2, <2>3, <2>4, <2>5
<1>4. CASE ~HasVirtualizedIo(o)
  <2>1. n = Strip(m, io)
    BY <1>1, <1>4 DEF IoStage
  <2> QED BY <1>1, <1>4, <2>1, StripIs
<1> QED BY <1>3, <1>4

StdioServed(n, m, o) ==
  /\ n \in Module
  /\ \A j : j \in n.imports <=> j \in m.imports /\ (j \in CliInterfaces => o.stdio.set)
  /\ \A j : j \in n.exports <=> j \in m.exports /\ (j \in CliInterfaces => o.stdio.set)
  /\ \A j : j \in n.traps <=> j \in m.traps /\ (j \in CliInterfaces => o.stdio.set)
  /\ \A j : j \in n.world <=> j \in m.world \/ (j \in CliInterfaces /\ o.stdio.set)

LEMMA StdioStageIs ==
  ASSUME NEW m \in Module, NEW o, NEW n, n = StdioStage(m, o)
  PROVE  StdioServed(n, m, o)
<1> USE DEF StdioServed
<1>1. Starting["wasi:cli/std"] \cup Starting["wasi:cli/terminal"] = CliInterfaces
      /\ CliInterfaces \in SUBSET Interfaces
  BY Prefixes, AllInterfaces DEF CliInterfaces
<1>2. n = IF o.stdio.set THEN Merge(m, CliInterfaces) ELSE Strip(m, CliInterfaces)
  BY <1>1 DEF StdioStage
<1> QED BY <1>1, <1>2, MergeIs, StripIs

FsServed(n, m, o) ==
  /\ n \in Module
  /\ \A j : j \in n.imports <=> j \in m.imports /\ (j = "filesystem" => o.fs.set \/ o.stdio.set)
  /\ \A j : j \in n.exports <=> j \in m.exports /\ (j = "filesystem" => o.fs.set \/ o.stdio.set)
  /\ \A j : j \in n.traps <=> j \in m.traps /\ (j = "filesystem" => o.fs.set \/ o.stdio.set)
  /\ \A j : j \in n.world <=> j \in m.world \/ (j = "filesystem" /\ (o.fs.set \/ o.stdio.set))

LEMMA FsStageIs ==
  ASSUME NEW m \in Module, NEW o, NEW n, n = FsStage(m, o)
  PROVE  FsServed(n, m, o)
<1> USE DEF FsServed
<1> DEFINE files == {"filesystem"}
<1>1. /\ Starting["wasi:filesystem/"] = files /\ files \in SUBSET Interfaces
      /\ \A j : j \in files <=> j = "filesystem"
  BY Prefixes, AllInterfaces
<1> HIDE DEF files
<1>2. n = IF o.fs.set \/ o.stdio.set THEN Merge(m, files) ELSE Strip(m, files)
  BY <1>1 DEF FsStage
<1> QED BY <1>1, <1>2, MergeIs, StripIs

LEMMA FieldsOf ==
  ASSUME NEW o \in WasiVirt
  PROVE  /\ o.env \in HostAccess \cup {"unset"} /\ o.config \in HostAccess \cup {"unset"}
         /\ \A s \in Switches : o.switch[s] \in {"unset", "allow", "deny"}
         /\ o.fs.set \in BOOLEAN /\ o.fs.host_preopens \in BOOLEAN /\ o.fs.runtime \in BOOLEAN
         /\ o.stdio.set \in BOOLEAN /\ o.stdio.cfg \in [Streams -> StdioCfg]
         /\ o.debug \in BOOLEAN /\ o.compose \in SUBSET Interfaces
BY DEF WasiVirt

LEMMA AdapterIs ==
  LET everything == {"environment", "store", "io", "std", "terminal", "monotonic-clock",
                     "http", "sockets", "filesystem"}
  IN  /\ Adapter \in Module
      /\ Adapter.imports = everything
      /\ Adapter.exports = everything
      /\ Adapter.traps = {}
      /\ Adapter.world = {}
BY AllInterfaces DEF Adapter, Module

\* What the options say of an interface: imported, trapping, in the world.
Imported(o, i) ==
  CASE i = "environment" -> o.env \notin {"unset", "none"}
    [] i = "store" -> o.config \notin {"unset", "none"}
    [] i = "io" -> HasVirtualizedIo(o) /\ (FsPassthrough(o) \/ ~DisableStdio(o))
    [] i \in CliInterfaces -> o.stdio.set /\ ~DisableStdio(o)
    [] i = "monotonic-clock" -> o.switch["clocks"] = "allow"
    [] i = "http" -> o.switch["http"] = "allow"
    [] i = "sockets" -> o.switch["sockets"] = "allow"
    [] i = "filesystem" -> FsPassthrough(o)
    [] OTHER -> FALSE

Trapping(o, i) ==
  CASE i = "environment" -> o.env = "unset"
    [] i = "store" -> o.config = "unset"
    [] i = "exit" -> o.switch["exit"] = "deny"
    [] i = "random" -> o.switch["random"] = "deny"
    [] i \in {"monotonic-clock", "wall-clock"} -> o.switch["clocks"] = "deny"
    [] i \in {"http", "incoming-handler"} -> o.switch["http"] = "deny"
    [] i = "network" -> o.switch["sockets"] = "deny"
    [] OTHER -> FALSE

Encoded(o, i) ==
  CASE i = "environment" -> o.env # "unset"
    [] i = "store" -> o.config # "unset"
    [] i = "exit" -> o.switch["exit"] = "deny"
    [] i = "random" -> o.switch["random"] = "deny"
    [] i = "monotonic-clock" -> o.switch["clocks"] # "unset"
    [] i = "wall-clock" -> o.switch["clocks"] = "deny"
    [] i = "http" -> o.switch["http"] # "unset"
    [] i = "incoming-handler" -> o.switch["http"] = "deny"
    [] i = "sockets" -> o.switch["sockets"] # "unset"
    [] i = "network" -> o.switch["sockets"] = "deny"
    [] i = "io" -> HasVirtualizedIo(o)
    [] i \in CliInterfaces -> o.stdio.set
    [] i = "filesystem" -> o.fs.set \/ o.stdio.set
    [] OTHER -> FALSE

(***************************************************************************)
(* Of every interface, whether the module imports it, traps in it and      *)
(* exports it in its world, as conditions on the options alone: no stage   *)
(* undoes what an earlier one did, for any combination of options.         *)
(***************************************************************************)
LEMMA VirtualizedIs ==
  ASSUME NEW o \in WasiVirt
  PROVE  LET m == Virtualized(o)
         IN  /\ m \in Module
             /\ \A i \in Interfaces :
                  /\ i \in m.imports <=> Imported(o, i)
                  /\ i \in m.traps <=> Trapping(o, i)
                  /\ i \in m.world <=> Encoded(o, i)
                  /\ Encoded(o, i) => i \in m.exports
<1> DEFINE
      swExit == o.switch["exit"]
      swRandom == o.switch["random"]
      swClocks == o.switch["clocks"]
      swSockets == o.switch["sockets"]
      swHttp == o.switch["http"]
      env     == HostStage(Adapter, o.env, "environment")
      config  == HostStage(env, o.config, "store")
      exit    == OutsideStage(config, swExit, "wasi:cli/exit", WASI_EXIT_FNS)
      random  == OutsideStage(exit, swRandom, "wasi:random/", WASI_RANDOM_FNS)
      io      == IoStage(random, o)
      clocks  == SwitchStage(io, swClocks, "wasi:clocks/", WASI_CLOCK_FNS, {"monotonic-clock"})
      sockets == SwitchStage(clocks, swSockets, "wasi:sockets/", WASI_SOCKETS_FNS, {"sockets"})
      http    == SwitchStage(sockets, swHttp, "wasi:http/", WASI_HTTP_FNS, {"http"})
      std     == StdioStage(http, o)
      m       == FsStage(std, o)
<1>1. Virtualized(o) = m
  BY DEF Virtualized
<1>2. /\ o.env \in HostAccess \cup {"unset"} /\ o.config \in HostAccess \cup {"unset"}
      /\ swExit \in {"unset", "allow", "deny"}
      /\ swRandom \in {"unset", "allow", "deny"}
      /\ swClocks \in {"unset", "allow", "deny"}
      /\ swSockets \in {"unset", "allow", "deny"}
      /\ swHttp \in {"unset", "allow", "deny"}
  BY FieldsOf DEF Switches
<1>3. /\ env = HostStage(Adapter, o.env, "environment")
      /\ config  = HostStage(env, o.config, "store")
      /\ exit = OutsideStage(config, swExit, "wasi:cli/exit", WASI_EXIT_FNS)
      /\ random = OutsideStage(exit, swRandom, "wasi:random/", WASI_RANDOM_FNS)
      /\ io = IoStage(random, o)
      /\ clocks = SwitchStage(io, swClocks, "wasi:clocks/", WASI_CLOCK_FNS, {"monotonic-clock"})
      /\ sockets = SwitchStage(clocks, swSockets, "wasi:sockets/", WASI_SOCKETS_FNS, {"sockets"})
      /\ http = SwitchStage(sockets, swHttp, "wasi:http/", WASI_HTTP_FNS, {"http"})
      /\ std = StdioStage(http, o)
      /\ m = FsStage(std, o)
  OBVIOUS
<1> HIDE DEF swExit, swRandom, swClocks, swSockets, swHttp, env, config, exit, random, io, clocks, sockets, http, std, m
<1>4. /\ WASI_EXIT_FNS \in SUBSET Interfaces /\ Starting["wasi:cli/exit"] = WASI_EXIT_FNS
      /\ WASI_RANDOM_FNS \in SUBSET Interfaces /\ Starting["wasi:random/"] = WASI_RANDOM_FNS
      /\ WASI_CLOCK_FNS \in SUBSET Interfaces /\ Starting["wasi:clocks/"] = WASI_CLOCK_FNS
      /\ {"sockets", "network"} \in SUBSET Interfaces
      /\ Starting["wasi:sockets/"] = {"sockets", "network"}
      /\ WASI_HTTP_FNS \in SUBSET Interfaces /\ Starting["wasi:http/"] = WASI_HTTP_FNS
  BY AllInterfaces, Prefixes
     DEF WASI_EXIT_FNS, WASI_RANDOM_FNS, WASI_CLOCK_FNS, WASI_SOCKETS_FNS, WASI_HTTP_FNS
<1>5. /\ {"monotonic-clock"} \in SUBSET WASI_CLOCK_FNS
      /\ {"http"} \in SUBSET WASI_HTTP_FNS
      /\ {"sockets"} \in SUBSET {"sockets", "network"}
      /\ WASI_SOCKETS_FNS \in SUBSET {"sockets", "network"}
      /\ WASI_CLOCK_FNS \in SUBSET WASI_CLOCK_FNS /\ WASI_HTTP_FNS \in SUBSET WASI_HTTP_FNS
      /\ "environment" \in Interfaces /\ "store" \in Interfaces
  BY AllInterfaces DEF WASI_CLOCK_FNS, WASI_SOCKETS_FNS, WASI_HTTP_FNS
<1>6. HostServed(env, Adapter, o.env, "environment")
  <2>1. Adapter \in Module /\ o.env \in HostAccess \cup {"unset"} /\ "environment" \in Interfaces
        /\ env = HostStage(Adapter, o.env, "environment")
    BY <1>2, <1>3, <1>5, AdapterIs
  <2> QED BY ONLY <2>1, HostStageIs
<1>7. HostServed(config, env, o.config, "store")
  <2>1. env \in Module /\ o.config \in HostAccess \cup {"unset"} /\ "store" \in Interfaces
        /\ config = HostStage(env, o.config, "store")
    BY <1>2, <1>3, <1>5, <1>6 DEF HostServed
  <2> QED BY ONLY <2>1, HostStageIs
<1>8. OutsideServed(exit, config, swExit, WASI_EXIT_FNS)
  <2>1. config \in Module /\ WASI_EXIT_FNS \in SUBSET Interfaces
        /\ Starting["wasi:cli/exit"] = WASI_EXIT_FNS
        /\ exit = OutsideStage(config, swExit, "wasi:cli/exit", WASI_EXIT_FNS)
    BY <1>3, <1>4, <1>7 DEF HostServed
  <2> QED BY ONLY <2>1, OutsideStageIs
<1>9. OutsideServed(random, exit, swRandom, WASI_RANDOM_FNS)
  BY <1>3, <1>4, <1>8, OutsideStageIs DEF OutsideServed
<1>10. IoServed(io, random, o)
  BY <1>3, <1>9, IoStageIs DEF OutsideServed
<1>11. SwitchServed(clocks, io, swClocks, WASI_CLOCK_FNS, WASI_CLOCK_FNS, {"monotonic-clock"})
  <2>1. io \in Module /\ WASI_CLOCK_FNS \in SUBSET Interfaces
        /\ swClocks \in {"unset", "allow", "deny"}
        /\ {"monotonic-clock"} \in SUBSET WASI_CLOCK_FNS
        /\ WASI_CLOCK_FNS \in SUBSET WASI_CLOCK_FNS
        /\ Starting["wasi:clocks/"] = WASI_CLOCK_FNS
        /\ clocks = SwitchStage(io, swClocks, "wasi:clocks/", WASI_CLOCK_FNS, {"monotonic-clock"})
    BY <1>2, <1>3, <1>4, <1>5, <1>10 DEF IoServed
  <2> QED BY ONLY <2>1, SwitchStageIs
<1>12. SwitchServed(sockets, clocks, swSockets, {"sockets", "network"}, WASI_SOCKETS_FNS,
                    {"sockets"})
  <2>1. clocks \in Module /\ {"sockets", "network"} \in SUBSET Interfaces
        /\ swSockets \in {"unset", "allow", "deny"}
        /\ {"sockets"} \in SUBSET {"sockets", "network"}
        /\ WASI_SOCKETS_FNS \in SUBSET {"sockets", "network"}
        /\ Starting["wasi:sockets/"] = {"sockets", "network"}
        /\ sockets = SwitchStage(clocks, swSockets, "wasi:sockets/", WASI_SOCKETS_FNS, {"sockets"})
    BY <1>2, <1>3, <1>4, <1>5, <1>11 DEF SwitchServed
  <2> QED BY ONLY <2>1, SwitchStageIs
<1>13. SwitchServed(http, sockets, swHttp, WASI_HTTP_FNS, WASI_HTTP_FNS, {"http"})
  <2>1. sockets \in Module /\ WASI_HTTP_FNS \in SUBSET Interfaces
        /\ swHttp \in {"unset", "allow", "deny"}
        /\ {"http"} \in SUBSET WASI_HTTP_FNS
        /\ WASI_HTTP_FNS \in SUBSET WASI_HTTP_FNS
        /\ Starting["wasi:http/"] = WASI_HTTP_FNS
        /\ http = SwitchStage(sockets, swHttp, "wasi:http/", WASI_HTTP_FNS, {"http"})
    BY <1>2, <1>3, <1>4, <1>5, <1>12 DEF SwitchServed
  <2> QED BY ONLY <2>1, SwitchStageIs
<1>14. StdioServed(std, http, o)
  <2>1. http \in Module /\ std = StdioStage(http, o)
    BY <1>3, <1>13 DEF SwitchServed
  <2> QED BY ONLY <2>1, StdioStageIs
<1>15. FsServed(m, std, o)
  <2>1. std \in Module /\ m = FsStage(std, o)
    BY <1>3, <1>14 DEF StdioServed
  <2> QED BY ONLY <2>1, FsStageIs
<1>16. ASSUME NEW i \in Interfaces
       PROVE  /\ i \in m.imports <=> Imported(o, i)
              /\ i \in m.traps <=> Trapping(o, i)
              /\ i \in m.world <=> Encoded(o, i)
              /\ Encoded(o, i) => i \in m.exports
  <2> USE <1>2, <1>6, <1>7, <1>8, <1>9, <1>10, <1>11, <1>12, <1>13, <1>14, <1>15, AdapterIs
         DEF HostServed, OutsideServed, SwitchServed, IoServed, StdioServed, FsServed
  <2>1. HasVirtualizedIo(o) <=> o.fs.set \/ o.stdio.set \/ swClocks # "unset" \/ swHttp # "unset" \/ swSockets # "unset"
    BY DEF HasVirtualizedIo, swExit, swRandom, swClocks, swSockets, swHttp
  <2>2. FsPassthrough(o) => o.fs.set
    BY DEF FsPassthrough
  <2>3. i \in m.imports <=> Imported(o, i)
    BY <2>1, <2>2, AllInterfaces
       DEF Imported, CliInterfaces, swExit, swRandom, swClocks, swSockets, swHttp,
           WASI_EXIT_FNS, WASI_RANDOM_FNS, WASI_CLOCK_FNS, WASI_SOCKETS_FNS, WASI_HTTP_FNS
  <2>4. i \in m.traps <=> Trapping(o, i)
    BY <2>1, <2>2, AllInterfaces
       DEF Trapping, CliInterfaces, swExit, swRandom, swClocks, swSockets, swHttp,
           WASI_EXIT_FNS, WASI_RANDOM_FNS, WASI_CLOCK_FNS, WASI_SOCKETS_FNS, WASI_HTTP_FNS
  <2>5. i \in m.world <=> Encoded(o, i)
    BY <2>1, <2>2, AllInterfaces
       DEF Encoded, CliInterfaces, swExit, swRandom, swClocks, swSockets, swHttp,
           WASI_EXIT_FNS, WASI_RANDOM_FNS, WASI_CLOCK_FNS, WASI_SOCKETS_FNS, WASI_HTTP_FNS
  <2>6. Encoded(o, i) => i \in m.exports
    BY <2>1, <2>2, AllInterfaces
       DEF Encoded, CliInterfaces, swExit, swRandom, swClocks, swSockets, swHttp,
           WASI_EXIT_FNS, WASI_RANDOM_FNS, WASI_CLOCK_FNS, WASI_SOCKETS_FNS, WASI_HTTP_FNS
  <2> QED BY ONLY <2>3, <2>4, <2>5, <2>6
<1> QED BY <1>1, <1>15, <1>16 DEF FsServed

-----------------------------------------------------------------------------
(***************************************************************************)
(* The properties, of any options.                                         *)
(***************************************************************************)
LEMMA EncodesFor ==
  ASSUME NEW o \in WasiVirt, NEW m, m = Virtualized(o)
  PROVE  /\ m.imports \subseteq m.world
         /\ m.world \subseteq m.exports
         /\ IoTogether(m)
<1>1. /\ m \in Module
      /\ \A i \in Interfaces :
           /\ i \in m.imports <=> Imported(o, i)
           /\ i \in m.traps <=> Trapping(o, i)
           /\ i \in m.world <=> Encoded(o, i)
           /\ Encoded(o, i) => i \in m.exports
  BY VirtualizedIs
<1>2. m.imports \subseteq Interfaces /\ m.world \subseteq Interfaces
  BY <1>1 DEF Module
<1>3. FsPassthrough(o) => o.fs.set
  BY DEF FsPassthrough
<1>4. ASSUME NEW i \in Interfaces, Imported(o, i) PROVE Encoded(o, i)
  BY <1>3, <1>4, AllInterfaces DEF Imported, Encoded, CliInterfaces
<1>5. m.world \cap UsesIo # {} <=> "io" \in m.world
  <2>1. "io" \in m.world <=> HasVirtualizedIo(o)
    BY <1>1, AllInterfaces DEF Encoded, CliInterfaces
  <2>2. /\ "std" \in m.world <=> o.stdio.set
        /\ "terminal" \in m.world <=> o.stdio.set
        /\ "filesystem" \in m.world <=> o.fs.set \/ o.stdio.set
        /\ "monotonic-clock" \in m.world <=> o.switch["clocks"] # "unset"
        /\ "http" \in m.world <=> o.switch["http"] # "unset"
        /\ "sockets" \in m.world <=> o.switch["sockets"] # "unset"
    BY <1>1, AllInterfaces DEF Encoded, CliInterfaces
  <2> QED BY <2>1, <2>2 DEF UsesIo, HasVirtualizedIo
<1>6. "io" \notin m.traps
  BY <1>1, AllInterfaces DEF Trapping
<1> QED BY <1>1, <1>2, <1>4, <1>5, <1>6 DEF IoTogether

LEMMA NothingBeyondFor ==
  ASSUME NEW o \in WasiVirt, NEW m, m = Virtualized(o), NEW i \in Interfaces \ {"io"},
         Served(m, i) \in {"host", "through"}
  PROVE  Allowed(o, i)
<1>1. /\ i \in m.imports <=> Imported(o, i)
      /\ i \in m.traps <=> Trapping(o, i)
      /\ i \in m.world <=> Encoded(o, i)
  BY VirtualizedIs
<1>2. i \notin m.world \/ (i \notin m.traps /\ i \in m.imports)
  BY DEF Served
<1>3. ~Encoded(o, i) \/ (~Trapping(o, i) /\ Imported(o, i))
  BY <1>1, <1>2
<1> QED BY <1>3, AllInterfaces, Prefixes
        DEF Imported, Trapping, Encoded, Allowed, SwitchOf, CliInterfaces, FsPassthrough, DisableStdio

LEMMA NothingStubbedFor ==
  ASSUME NEW o \in WasiVirt, NEW m, m = Virtualized(o), NEW i \in Interfaces \ {"io"},
         Allowed(o, i)
  PROVE  Served(m, i) \in {"host", "through"}
<1>1. /\ i \in m.imports <=> Imported(o, i)
      /\ i \in m.traps <=> Trapping(o, i)
      /\ i \in m.world <=> Encoded(o, i)
  BY VirtualizedIs
<1>2. ~Encoded(o, i) \/ (~Trapping(o, i) /\ Imported(o, i))
  BY FieldsOf, AllInterfaces, Prefixes
     DEF Imported, Trapping, Encoded, Allowed, SwitchOf, CliInterfaces, FsPassthrough, DisableStdio, HostAccess, Switches
<1> QED BY <1>1, <1>2 DEF Served

\* When an interface has the host behind it.
LEMMA ThroughIs ==
  ASSUME NEW o \in WasiVirt, NEW m, m = Virtualized(o)
  PROVE  /\ Served(m, "std") = "through" <=> o.stdio.set /\ ~DisableStdio(o)
         /\ Served(m, "filesystem") = "through" <=> FsPassthrough(o)
         /\ Served(m, "io") = "through" <=> FsPassthrough(o) \/ ~DisableStdio(o)
<1>1. \A i \in {"std", "filesystem", "io"} :
        Served(m, i) = "through" <=> Encoded(o, i) /\ ~Trapping(o, i) /\ Imported(o, i)
  BY VirtualizedIs, AllInterfaces DEF Served
<1>2. FsPassthrough(o) => o.fs.set
  BY DEF FsPassthrough
<1>3. ~DisableStdio(o) => o.stdio.set
  BY DEF DisableStdio
<1>4. HasVirtualizedIo(o) <=> \/ o.fs.set \/ o.stdio.set
                             \/ \E s \in {"clocks", "http", "sockets"} : o.switch[s] # "unset"
  BY DEF HasVirtualizedIo
<1> QED BY <1>1, <1>2, <1>3, <1>4 DEF Imported, Trapping, Encoded, CliInterfaces

\* What the filter leaves alone: whatever the component imports.
LEMMA FilteredIs ==
  ASSUME NEW o \in WasiVirt, NEW f, f = Filtered(o)
  PROVE  /\ f \in WasiVirt
         /\ f.compose = o.compose /\ f.debug = o.debug
         /\ "environment" \in o.compose => f.env = o.env
         /\ "store" \in o.compose => f.config = o.config
         /\ "std" \in o.compose \/ "terminal" \in o.compose => f.stdio = o.stdio
         /\ ~("std" \in o.compose \/ "terminal" \in o.compose) => f.stdio.set = FALSE
         /\ "exit" \in o.compose => f.switch["exit"] = o.switch["exit"]
         /\ "random" \in o.compose => f.switch["random"] = o.switch["random"]
         /\ "http" \in o.compose \/ "incoming-handler" \in o.compose
              => f.switch["http"] = o.switch["http"]
         /\ "sockets" \in o.compose \/ "network" \in o.compose
              => f.switch["sockets"] = o.switch["sockets"]
<1> DEFINE found == {p \in IMPORT_FILTER_PREFIXES : Starting[p] \cap o.compose # {}}
      keeps == [exit |-> "wasi:cli/exit", clocks |-> "wasi:clocks/", http |-> "wasi:http/",
                sockets |-> "wasi:sockets/", random |-> "wasi:random/"]
      env == IF "wasi:cli/environment" \in found THEN o.env ELSE "unset"
      config == IF "wasi:config/store" \in found THEN o.config ELSE "unset"
      files == IF "wasi:filesystem/" \in found THEN o.fs ELSE NoFs
      stdio == IF {"wasi:cli/std", "wasi:cli/terminal"} \cap found # {}
                    THEN o.stdio ELSE NoStdio
      switch == [s \in Switches |-> IF keeps[s] \in found THEN o.switch[s] ELSE "unset"]
<1>1. f = [o EXCEPT !.env = env, !.config = config, !.fs = files, !.stdio = stdio, !.switch = switch]
  BY DEF Filtered
<1>2. /\ "wasi:cli/environment" \in found <=> "environment" \in o.compose
      /\ "wasi:config/store" \in found <=> "store" \in o.compose
      /\ "wasi:cli/std" \in found <=> "std" \in o.compose
      /\ "wasi:cli/terminal" \in found <=> "terminal" \in o.compose
      /\ "wasi:cli/exit" \in found <=> "exit" \in o.compose
      /\ "wasi:random/" \in found <=> "random" \in o.compose
      /\ "wasi:http/" \in found <=> "http" \in o.compose \/ "incoming-handler" \in o.compose
      /\ "wasi:sockets/" \in found <=> "sockets" \in o.compose \/ "network" \in o.compose
  BY Prefixes DEF IMPORT_FILTER_PREFIXES
<1>3. /\ keeps["exit"] = "wasi:cli/exit" /\ keeps["random"] = "wasi:random/"
      /\ keeps["http"] = "wasi:http/" /\ keeps["sockets"] = "wasi:sockets/"
  OBVIOUS
<1> HIDE DEF found, keeps
<1>4. /\ switch \in [Switches -> {"unset", "allow", "deny"}]
      /\ keeps["exit"] \in found => switch["exit"] = o.switch["exit"]
      /\ keeps["random"] \in found => switch["random"] = o.switch["random"]
      /\ keeps["http"] \in found => switch["http"] = o.switch["http"]
      /\ keeps["sockets"] \in found => switch["sockets"] = o.switch["sockets"]
  BY FieldsOf DEF Switches
<1>5. NoFs \in [set : BOOLEAN, host_preopens : BOOLEAN, runtime : BOOLEAN]
      /\ NoStdio \in [set : BOOLEAN, cfg : [Streams -> StdioCfg]]
  BY DEF NoFs, NoStdio, AllStreams, StdioCfg
<1>6. /\ env \in HostAccess \cup {"unset"}
      /\ config \in HostAccess \cup {"unset"}
      /\ files \in [set : BOOLEAN, host_preopens : BOOLEAN, runtime : BOOLEAN]
      /\ stdio \in [set : BOOLEAN, cfg : [Streams -> StdioCfg]]
  BY <1>5 DEF WasiVirt
<1>7. /\ "environment" \in o.compose => env = o.env
      /\ "store" \in o.compose => config = o.config
      /\ "std" \in o.compose \/ "terminal" \in o.compose => stdio = o.stdio
      /\ ~("std" \in o.compose \/ "terminal" \in o.compose) => stdio.set = FALSE
  BY <1>2 DEF NoStdio
<1> HIDE DEF env, config, files, stdio, switch
<1>8. /\ f \in WasiVirt
      /\ f.compose = o.compose /\ f.debug = o.debug /\ f.env = env /\ f.config = config
      /\ f.stdio = stdio /\ f.switch = switch
  <2> DEFINE g == [switch |-> switch, env |-> env, config |-> config, fs |-> files,
                   stdio |-> stdio, debug |-> o.debug, compose |-> o.compose]
  <2>1. f = g
    BY <1>1 DEF WasiVirt
  <2>2. g \in WasiVirt
    BY <1>4, <1>6, FieldsOf DEF WasiVirt
  <2> QED BY <2>1, <2>2
<1> QED BY <1>2, <1>3, <1>4, <1>7, <1>8

-----------------------------------------------------------------------------
(***************************************************************************)
(* The options stay well-formed, asked is what they were before the filter *)
(* and the result is theirs.  debug is the command line's alone, which     *)
(* builds no further.                                                      *)
(***************************************************************************)
Traces(o) == o.debug => o.stdio.set /\ o.stdio.cfg["stderr"] = "allow"

OptionsOK ==
  /\ opts \in WasiVirt /\ asked \in WasiVirt
  /\ opts = asked \/ (opts = Filtered(asked) /\ asked.compose # NoComponent)
  /\ result = NoResult => ~opts.debug
  /\ Traces(asked)
  /\ opts.debug /\ opts.compose # NoComponent => opts = Filtered(asked)
  /\ result = NoResult \/ result = Result(opts)

LEMMA InitOptions == OptInit => OptionsOK
<1> SUFFICES ASSUME OptInit PROVE OptionsOK
  OBVIOUS
<1>1. NoFs \in [set : BOOLEAN, host_preopens : BOOLEAN, runtime : BOOLEAN]
      /\ NoStdio \in [set : BOOLEAN, cfg : [Streams -> StdioCfg]]
  BY DEF NoFs, NoStdio, AllStreams, StdioCfg
<1>2. Default \in WasiVirt /\ Default.debug = FALSE
  BY <1>1 DEF Default, WasiVirt, NoComponent
<1> QED BY <1>2 DEF OptInit, OptionsOK, Traces

\* A setter: any options that are well-formed and leave debug alone.
LEMMA SetStep ==
  ASSUME OptionsOK, Building, NEW o \in WasiVirt, o.debug = opts.debug, Set(o)
  PROVE  OptionsOK'
BY DEF OptionsOK, Building, Set, Traces

LEMMA SettersKeep ==
  ASSUME NEW o \in WasiVirt
  PROVE  /\ \A host \in HostAccess :
              /\ [o EXCEPT !.env = host] \in WasiVirt /\ [o EXCEPT !.env = host].debug = o.debug
              /\ [o EXCEPT !.config = host] \in WasiVirt
              /\ [o EXCEPT !.config = host].debug = o.debug
         /\ \A allowed \in BOOLEAN :
              LET p == [o EXCEPT !.fs.set = TRUE, !.fs.host_preopens = allowed]
              IN  p \in WasiVirt /\ p.debug = o.debug
         /\ LET p == [o EXCEPT !.fs.set = TRUE, !.fs.runtime = TRUE]
            IN  p \in WasiVirt /\ p.debug = o.debug
         /\ \A cfg \in StdioCfg :
              LET p == [o EXCEPT !.stdio = [set |-> TRUE, cfg |-> AllStreams(cfg)]]
              IN  p \in WasiVirt /\ p.debug = o.debug
         /\ \A component \in SUBSET Interfaces :
              LET p == [o EXCEPT !.compose = component] IN p \in WasiVirt /\ p.debug = o.debug
<1>1. ASSUME NEW host \in HostAccess
      PROVE /\ [o EXCEPT !.env = host] \in WasiVirt /\ [o EXCEPT !.env = host].debug = o.debug
            /\ [o EXCEPT !.config = host] \in WasiVirt
            /\ [o EXCEPT !.config = host].debug = o.debug
  BY DEF WasiVirt
<1>2. ASSUME NEW allowed \in BOOLEAN
      PROVE LET p == [o EXCEPT !.fs.set = TRUE, !.fs.host_preopens = allowed]
            IN  p \in WasiVirt /\ p.debug = o.debug
  BY DEF WasiVirt
<1>3. LET p == [o EXCEPT !.fs.set = TRUE, !.fs.runtime = TRUE]
            IN  p \in WasiVirt /\ p.debug = o.debug
  BY DEF WasiVirt
<1>4. ASSUME NEW cfg \in StdioCfg
      PROVE LET p == [o EXCEPT !.stdio = [set |-> TRUE, cfg |-> AllStreams(cfg)]]
              IN  p \in WasiVirt /\ p.debug = o.debug
  BY DEF WasiVirt, AllStreams
<1>5. ASSUME NEW component \in SUBSET Interfaces
      PROVE LET p == [o EXCEPT !.compose = component] IN p \in WasiVirt /\ p.debug = o.debug
  BY DEF WasiVirt
<1> QED BY <1>1, <1>2, <1>3, <1>4, <1>5

LEMMA AllKeeps ==
  ASSUME NEW o \in WasiVirt, NEW value \in {"allow", "deny"}, NEW host \in HostAccess,
         NEW allowed \in BOOLEAN, NEW cfg \in StdioCfg
  PROVE  LET p == [o EXCEPT !.switch = [s \in Switches |-> value], !.env = host,
                      !.fs.set = TRUE, !.fs.host_preopens = allowed,
                      !.stdio = [set |-> TRUE, cfg |-> AllStreams(cfg)]]
         IN  p \in WasiVirt /\ p.debug = o.debug
BY DEF WasiVirt, AllStreams

LEMMA NotNone == \A o : Result(o) # NoResult
BY DEF Result, NoResult

LEMMA CliKeeps ==
  ASSUME NEW args \in Args, ~DebugRefused(args)
  PROVE  CliOptions(args) \in WasiVirt /\ Traces(CliOptions(args))
         /\ CliOptions(args).compose = args.compose
<1>1. args.compose \in SUBSET Interfaces
  BY ConstantsAssumption DEF Args, NoComponent
<1>2. All(args) \in {"allow", "deny"} /\ StdioArg(args) \in {"allow", "deny"}
  BY DEF All, StdioArg, Given, Args
<1>3. \A s \in Switches :
        (IF s \in Toggles THEN Given(args.allow[s], All(args)) ELSE All(args)) \in {"allow", "deny"}
  BY <1>2 DEF Given, Args
<1>4. \A stream \in Streams : Given(args.stream[stream], StdioArg(args)) \in StdioCfg
  BY <1>2 DEF Given, Args, StdioCfg
<1>5. /\ Given(args.allow_env, IF args.allow_all THEN "all" ELSE "none") \in HostAccess
      /\ Given(args.allow_config, "none") \in HostAccess
      /\ args.preopen \in BOOLEAN /\ args.debug \in BOOLEAN
  BY DEF Given, Args, HostAccess
<1>6. CliOptions(args) \in WasiVirt
  BY <1>1, <1>3, <1>4, <1>5 DEF CliOptions, WasiVirt
<1>7. CliOptions(args).debug => CliOptions(args).stdio.cfg["stderr"] = "allow"
  BY ConstantsAssumption DEF CliOptions, DebugRefused
<1> QED BY <1>6, <1>7 DEF CliOptions, Traces

LEMMA StepOptions ==
  OptionsOK /\ [OptNext]_optVars => OptionsOK'
<1> SUFFICES ASSUME OptionsOK, [OptNext]_optVars PROVE OptionsOK'
  OBVIOUS
<1>0. opts \in WasiVirt /\ NoComponent \in SUBSET Interfaces
  BY DEF OptionsOK, NoComponent
<1>1. CASE SetSwitch
  <2>1. PICK s \in Toggles, value \in {"allow", "deny"} : Set([opts EXCEPT !.switch[s] = value])
    BY <1>1 DEF SetSwitch
  <2> DEFINE p == [opts EXCEPT !.switch[s] = value]
  <2>2. p \in WasiVirt /\ p.debug = opts.debug
    BY <1>0, ConstantsAssumption DEF WasiVirt
  <2>3. Building /\ Set(p)
    BY <1>1, <2>1 DEF SetSwitch
  <2> HIDE DEF p
  <2> QED BY <2>2, <2>3, SetStep
<1>2. CASE SetHostAccess
  BY <1>0, <1>2, SettersKeep, SetStep DEF SetHostAccess
<1>3. CASE SetHostPreopens
  BY <1>0, <1>3, SettersKeep, SetStep DEF SetHostPreopens
<1>4. CASE AddRuntimePreopen
  BY <1>0, <1>4, SettersKeep, SetStep DEF AddRuntimePreopen
<1>5. CASE SetStream
  <2>1. PICK stream \in Streams, cfg \in StdioCfg :
          Set([opts EXCEPT !.stdio.set = TRUE, !.stdio.cfg[stream] = cfg])
    BY <1>5 DEF SetStream
  <2> DEFINE p == [opts EXCEPT !.stdio.set = TRUE, !.stdio.cfg[stream] = cfg]
  <2>2. p \in WasiVirt /\ p.debug = opts.debug
    BY <1>0 DEF WasiVirt
  <2>3. Building /\ Set(p)
    BY <1>5, <2>1 DEF SetStream
  <2> HIDE DEF p
  <2> QED BY <2>2, <2>3, SetStep
<1>6. CASE SetStdio
  BY <1>0, <1>6, SettersKeep, SetStep DEF SetStdio
<1>7. CASE AllowAll
  BY <1>0, <1>7, AllKeeps, SetStep DEF AllowAll, HostAccess, StdioCfg
<1>8. CASE DenyAll
  BY <1>0, <1>8, AllKeeps, SetStep DEF DenyAll, HostAccess, StdioCfg
<1>9. CASE SetComponent
  BY <1>0, <1>9, SettersKeep, SetStep, ConstantsAssumption DEF SetComponent
<1>10. CASE FilterImports
  <2>1. opts = asked /\ result = NoResult /\ opts.compose # NoComponent /\ ~opts.debug
    BY <1>10 DEF FilterImports, Building, OptionsOK
  <2>2. Filtered(opts) \in WasiVirt /\ Filtered(opts).debug = opts.debug
    BY <1>0, FilteredIs
  <2> QED BY <1>10, <2>1, <2>2 DEF FilterImports, OptionsOK
<1>11. CASE Finish
  BY <1>11, NotNone DEF Finish, OptionsOK
<1>12. CASE Cli
  <2>1. PICK args \in Args :
          /\ ~DebugRefused(args)
          /\ asked' = CliOptions(args)
          /\ opts' = IF args.compose = NoComponent THEN asked' ELSE Filtered(asked')
          /\ result' = Result(opts')
    BY <1>12 DEF Cli
  <2>2. asked' \in WasiVirt /\ Traces(asked') /\ asked'.compose = args.compose
    BY <2>1, CliKeeps
  <2>3. Filtered(asked') \in WasiVirt /\ Filtered(asked').compose = asked'.compose
    BY <2>2, FilteredIs
  <2> QED BY <2>1, <2>2, <2>3, NotNone DEF OptionsOK, Traces
<1>13. CASE UNCHANGED optVars
  BY <1>13 DEF optVars, OptionsOK
<1> QED BY <1>1, <1>2, <1>3, <1>4, <1>5, <1>6, <1>7, <1>8, <1>9, <1>10, <1>11, <1>12, <1>13
        DEF OptNext

LEMMA OptionsAlways == OptSpec => []OptionsOK
BY InitOptions, StepOptions, PTL DEF OptSpec

LEMMA ModuleOf == OptionsOK /\ Finished => result.module = Virtualized(opts) /\ opts \in WasiVirt
BY DEF OptionsOK, Finished, NoResult, Result

(***************************************************************************)
(* finish (lib.rs): whatever was set, on whichever streams and components, *)
(* the adapter imports nothing outside of its world and exports all of it, *)
(* with io exactly when something hands out streams or pollables.          *)
(***************************************************************************)
THEOREM WhatIsEncoded == OptSpec => []Encodes
<1>1. OptionsOK => Encodes
  BY ModuleOf, EncodesFor DEF Encodes
<1> QED BY <1>1, OptionsAlways, PTL

\* What is called and not forgotten was passed on by the filter.
LEMMA AskedFor ==
  ASSUME OptionsOK, NEW i \in Called \ Forgotten
  PROVE  i \in Interfaces \ {"io"} /\ (Allowed(opts, i) <=> Allowed(asked, i))
<1>1. i \in Interfaces \ {"io"}
  BY FieldsOf DEF OptionsOK, Called
<1>2. CASE opts = asked
  BY <1>1, <1>2
<1>3. CASE opts # asked
  <2>1. opts = Filtered(asked) /\ asked.compose # NoComponent /\ asked \in WasiVirt
    BY <1>3 DEF OptionsOK
  <2>2. opts.compose = asked.compose
    BY <2>1, FilteredIs
  <2>3. i \in asked.compose /\ i \notin {"filesystem", "monotonic-clock", "wall-clock", "io"}
    BY <1>3, <2>1, <2>2 DEF Called, Forgotten
  <2>4. /\ i = "environment" => opts.env = asked.env
        /\ i = "store" => opts.config = asked.config
        /\ i \in {"std", "terminal"} => opts.stdio = asked.stdio
        /\ i = "exit" => opts.switch["exit"] = asked.switch["exit"]
        /\ i = "random" => opts.switch["random"] = asked.switch["random"]
        /\ i \in {"http", "incoming-handler"} => opts.switch["http"] = asked.switch["http"]
        /\ i \in {"sockets", "network"} => opts.switch["sockets"] = asked.switch["sockets"]
    BY <2>1, <2>3, FilteredIs
  <2>5. Allowed(opts, i) <=> Allowed(asked, i)
    BY <1>1, <2>3, <2>4, AllInterfaces, Prefixes DEF Allowed, SwitchOf
  <2> QED BY <1>1, <2>5
<1> QED BY <1>2, <1>3

(***************************************************************************)
(* A component reaches nothing of the host, around the adapter or through  *)
(* it, that was not asked for: of each interface it can call, what         *)
(* filter_imports, finish, create_io_virt and the deny stubs do together   *)
(* amounts to no more than the option that was set.  The filesystem and    *)
(* the clocks are left out where the filter has run.                       *)
(***************************************************************************)
THEOREM NothingReachedBeyond == OptSpec => []NothingBeyondOptions
<1>1. OptionsOK => NothingBeyondOptions
  BY ModuleOf, NothingBeyondFor, AskedFor DEF NothingBeyondOptions
<1> QED BY <1>1, OptionsAlways, PTL

(***************************************************************************)
(* What was asked for is served by the host, of each interface that can be *)
(* called; io has the host behind it exactly when files or streams of the  *)
(* host are behind the adapter, and not for clocks, http or sockets alone; *)
(* and a debug build has its stderr exactly when no component is composed  *)
(* that imports neither streams nor terminals.                             *)
(***************************************************************************)
THEOREM StubbedExactly == OptSpec => []NothingAllowedIsStubbed
<1>1. OptionsOK => NothingAllowedIsStubbed
  <2> SUFFICES ASSUME OptionsOK, Finished PROVE NothingAllowedIsStubbed
    BY DEF NothingAllowedIsStubbed
  <2>1. result.module = Virtualized(opts) /\ opts \in WasiVirt
    BY ModuleOf
  <2>2. \A i \in Called \ Forgotten :
          Allowed(asked, i) => Served(result.module, i) \in {"host", "through"}
    BY <2>1, NothingStubbedFor, AskedFor
  <2>3. /\ Served(result.module, "std") = "through" <=> opts.stdio.set /\ ~DisableStdio(opts)
        /\ Served(result.module, "filesystem") = "through" <=> FsPassthrough(opts)
        /\ Served(result.module, "io") = "through"
             <=> FsPassthrough(opts) \/ ~DisableStdio(opts)
    BY <2>1, ThroughIs
  <2>4. ~DisableStdio(opts) => opts.stdio.set
    BY DEF DisableStdio
  <2>5. IoFollowsFilesAndStreams
    BY <2>3, <2>4 DEF IoFollowsFilesAndStreams, UsesIo
  <2>6. DebugHasStderr
    <3> SUFFICES ASSUME opts.debug
                 PROVE  (/\ Served(result.module, "std") = "through"
                         /\ opts.stdio.cfg["stderr"] = "allow")
                          <=> Called \cap {"std", "terminal"} # {}
      BY DEF DebugHasStderr
    <3>1. CASE opts.compose = NoComponent
      <4>1. opts = asked
        <5>1. asked \in WasiVirt /\ Filtered(asked).compose = asked.compose
          BY FilteredIs DEF OptionsOK
        <5> QED BY <3>1, <5>1 DEF OptionsOK
      <4>2. opts.stdio.set /\ opts.stdio.cfg["stderr"] = "allow"
        BY <4>1 DEF OptionsOK, Traces
      <4>3. ~DisableStdio(opts)
        BY <4>2, ConstantsAssumption DEF DisableStdio
      <4>4. "std" \in Called
        BY <3>1, AllInterfaces DEF Called
      <4> QED BY <2>3, <4>2, <4>3, <4>4
    <3>2. CASE opts.compose # NoComponent
      <4>1. opts = Filtered(asked) /\ asked \in WasiVirt /\ Called = opts.compose \ {"io"}
        BY <3>2 DEF OptionsOK, Called
      <4>2. opts.compose = asked.compose /\ opts.debug = asked.debug
        BY <4>1, FilteredIs
      <4>3. asked.stdio.set /\ asked.stdio.cfg["stderr"] = "allow"
        BY <4>2 DEF OptionsOK, Traces
      <4>4. CASE "std" \in asked.compose \/ "terminal" \in asked.compose
        <5>1. opts.stdio = asked.stdio
          BY <4>1, <4>4, FilteredIs
        <5>2. ~DisableStdio(opts)
          BY <4>3, <5>1, ConstantsAssumption DEF DisableStdio
        <5> QED BY <2>3, <4>1, <4>2, <4>3, <4>4, <5>1, <5>2
      <4>5. CASE ~("std" \in asked.compose \/ "terminal" \in asked.compose)
        <5>1. opts.stdio.set = FALSE
          BY <4>1, <4>5, FilteredIs
        <5> QED BY <2>3, <4>1, <4>2, <4>5, <5>1
      <4> QED BY <4>4, <4>5
    <3> QED BY <3>1, <3>2
  <2> QED BY <2>2, <2>5, <2>6 DEF NothingAllowedIsStubbed
<1> QED BY <1>1, OptionsAlways, PTL

LEMMA ServedBy ==
  ASSUME NEW o \in WasiVirt, NEW p \in WasiVirt, NEW i \in Interfaces,
         Imported(o, i) <=> Imported(p, i), Trapping(o, i) <=> Trapping(p, i),
         Encoded(o, i) <=> Encoded(p, i)
  PROVE  Served(Virtualized(o), i) = Served(Virtualized(p), i)
BY VirtualizedIs DEF Served

(***************************************************************************)
(* filter_imports does not show, apart from the interfaces that the        *)
(* property leaves out: what a component imports is served as without it.  *)
(***************************************************************************)
THEOREM FilterHidden == OptSpec => []FilterTransparentElsewhere
<1>1. OptionsOK => FilterTransparentElsewhere
  <2> SUFFICES ASSUME OptionsOK, Finished,
                      NEW i \in opts.compose \ {"filesystem", "monotonic-clock", "wall-clock", "io"}
               PROVE  Served(result.module, i) = Served(Virtualized(asked), i)
    BY DEF FilterTransparentElsewhere
  <2>1. result.module = Virtualized(opts) /\ opts \in WasiVirt /\ asked \in WasiVirt
    BY ModuleOf DEF OptionsOK
  <2>2. CASE opts = asked
    BY <2>1, <2>2
  <2>3. CASE opts = Filtered(asked)
    <3>0. opts.compose = asked.compose
      BY <2>1, <2>3, FilteredIs
    <3>1. i \in Interfaces /\ i \in asked.compose
      BY <2>1, <3>0, FieldsOf
    <3>2. /\ i = "environment" => opts.env = asked.env
          /\ i = "store" => opts.config = asked.config
          /\ i \in {"std", "terminal"} => opts.stdio = asked.stdio
          /\ i = "exit" => opts.switch["exit"] = asked.switch["exit"]
          /\ i = "random" => opts.switch["random"] = asked.switch["random"]
          /\ i \in {"http", "incoming-handler"} => opts.switch["http"] = asked.switch["http"]
          /\ i \in {"sockets", "network"} => opts.switch["sockets"] = asked.switch["sockets"]
      BY <2>1, <2>3, <3>1, FilteredIs
    <3>3. i \in CliInterfaces => (DisableStdio(opts) <=> DisableStdio(asked))
      BY <3>2 DEF DisableStdio, CliInterfaces
    <3>4. /\ Imported(opts, i) <=> Imported(asked, i)
          /\ Trapping(opts, i) <=> Trapping(asked, i)
          /\ Encoded(opts, i) <=> Encoded(asked, i)
      BY <3>1, <3>2, <3>3, AllInterfaces DEF Imported, Trapping, Encoded, CliInterfaces
    <3> QED BY <2>1, <3>1, <3>4, ServedBy
  <2> QED BY <2>2, <2>3 DEF OptionsOK
<1> QED BY <1>1, OptionsAlways, PTL

=============================================================================
