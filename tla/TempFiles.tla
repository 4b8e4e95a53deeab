----------------------------- MODULE TempFiles -----------------------------
(***************************************************************************)
(* The temporary files of WasiVirt::finish (src/lib.rs): the adapter goes  *)
(* through wasm-opt by way of an input and an output file                  *)
(* (apply_wasm_opt), and the encoded component through wasm-compose by way *)
(* of a third.  All three are named by the second in which the name is     *)
(* made, in a directory that every virtualization on the machine shares.   *)
(*                                                                         *)
(* A process is one call of finish; each system call is one action, and    *)
(* any of them may fail, or the process be killed.  A file is what the     *)
(* module in it was made from: fs::write truncates first and writes later, *)
(* a removed file lives on for those that have it open, and a write over   *)
(* what somebody else wrote meanwhile may leave a mixture.                 *)
(***************************************************************************)
EXTENDS Integers, Sequences

CONSTANTS
  Procs,        (* virtualizations, all on one machine                      *)
  WasmOpt,      (* those with run_wasm_opt                                  *)
  Composing,    (* those with a compose_component_path                      *)
  MaxTime,      (* bound: the last second                                   *)
  Empty, Torn   (* contents of a file that are no module                    *)

ASSUME TempFilesAssumption ==
  /\ WasmOpt \subseteq Procs /\ Composing \subseteq Procs
  /\ MaxTime \in Nat
  /\ Empty \notin Procs /\ Torn \notin Procs

VARIABLES
  now,       (* SystemTime::now() in seconds                                *)
  dir,       (* env::temp_dir(): which file has a name                      *)
  content,   (* of every file there ever was                                *)
  run,       (* per process: next step, names, open file, bytes             *)
  met        (* history: those that held a name together with another       *)

vars == <<now, dir, content, run, met>>

Paths == {"input", "output", "virt"} \X Nat
NoName == -1

OptSteps == {"create_input", "write_input", "optimize", "create_output",
             "write_output", "opt_failed", "read_output", "remove_input",
             "remove_output"}
VirtSteps == {"create_virt", "write_virt", "compose", "compose_failed",
              "remove_virt"}
Ended == {"ok", "failed", "killed"}
Steps == OptSteps \cup VirtSteps \cup Ended
           \cup {"start", "name_output", "encode", "name_virt"}

\* A process names its files by the seconds it took their names in.
InputOf(r) == <<"input", r.input>>
\* Mutant: both files are given the same name.
OutputAlike(r) == <<"input", r.output>>
OutputOf(r) == <<"output", r.output>>
VirtOf(r) == <<"virt", r.virt>>

\* The names a process counts on at this step.
Holds(r) ==
  CASE r.pc = "name_output" -> {InputOf(r)}
    [] r.pc = "remove_output" -> {OutputOf(r)}
    [] r.pc \in OptSteps \ {"remove_output"} -> {InputOf(r), OutputOf(r)}
    [] r.pc \in VirtSteps -> {VirtOf(r)}
    [] OTHER -> {}

Goto(p, pc) == run' = [run EXCEPT ![p] = [run[p] EXCEPT !.pc = pc]]

\* A process takes a name: whoever holds it already has met it.
Take(p, r) ==
  LET others == {q \in Procs \ {p} : Holds(run[q]) \cap Holds(r) # {}}
  IN  /\ run' = [run EXCEPT ![p] = r]
      /\ met' = met \cup others \cup (IF others = {} THEN {} ELSE {p})
      /\ UNCHANGED <<now, dir, content>>

(***************************************************************************)
(* Files.                                                                  *)
(***************************************************************************)

Opening(r, file, to) == [r EXCEPT !.pc = to, !.fd = file]

Open(p, file, to) == run' = [run EXCEPT ![p] = Opening(run[p], file, to)]

\* File::create: an existing file is truncated, and keeps its readers.
Create(p, path, to) ==
  /\ IF path \in DOMAIN dir
     THEN /\ content' = [content EXCEPT ![dir[path]] = Empty]
          /\ Open(p, dir[path], to)
          /\ UNCHANGED dir
     ELSE LET new == Len(content) + 1
          IN  /\ content' = Append(content, Empty)
              /\ dir' = [q \in DOMAIN dir \cup {path} |->
                           IF q = path THEN new ELSE dir[q]]
              /\ Open(p, new, to)
  /\ UNCHANGED <<now, met>>

\* write_all to the open file, which another process may have filled by now.
Write(p, to) ==
  LET fd == run[p].fd
      bytes == run[p].bytes
  IN  /\ \E c \in IF content[fd] = Empty THEN {bytes} ELSE {bytes, Torn} :
           content' = [content EXCEPT ![fd] = c]
      /\ Goto(p, to)
      /\ UNCHANGED <<now, dir, met>>

\* Read a whole file into bytes; go elsewhere when there is none.
Read(p, path, to, without) ==
  /\ IF path \in DOMAIN dir
     THEN run' = [run EXCEPT ![p] = [run[p] EXCEPT !.pc = to,
                                               !.bytes = content[dir[path]]]]
     ELSE Goto(p, without)
  /\ UNCHANGED <<now, dir, content, met>>

Without(path) == [q \in DOMAIN dir \ {path} |-> dir[q]]

\* fs::remove_file(path)?
Remove(p, path, to) ==
  /\ dir' = Without(path)
  /\ Goto(p, IF path \in DOMAIN dir THEN to ELSE "failed")
  /\ UNCHANGED <<now, content, met>>

(***************************************************************************)
(* apply_wasm_opt.                                                         *)
(***************************************************************************)

\* The bytes are the module's own until they are read back from a file.
NameInput(p) ==
  /\ run[p].pc = "start" /\ p \in WasmOpt
  /\ Take(p, [run[p] EXCEPT !.pc = "name_output", !.input = now])

\* The second timestamp() may be a second later than the first.
NameOutput(p) ==
  /\ run[p].pc = "name_output"
  /\ Take(p, [run[p] EXCEPT !.pc = "create_input", !.output = now])

CreateInput(p) ==
  /\ run[p].pc = "create_input"
  /\ Create(p, InputOf(run[p]), "write_input")

WriteInput(p) ==
  /\ run[p].pc = "write_input"
  /\ Write(p, "optimize")

\* wasm-opt reads its input, which must be a module,
Optimize(p) ==
  LET input == InputOf(run[p])
  IN  /\ run[p].pc = "optimize"
      /\ IF input \in DOMAIN dir /\ content[dir[input]] \notin {Empty, Torn}
         THEN Read(p, input, "create_output", "opt_failed")
         ELSE Goto(p, "opt_failed") /\ UNCHANGED <<now, dir, content, met>>

\* Mutant: an output that is there already is taken for this run's.
CreateOutputUnlessThere(p) ==
  /\ run[p].pc = "create_output"
  /\ IF OutputOf(run[p]) \in DOMAIN dir
     THEN Goto(p, "read_output") /\ UNCHANGED <<now, dir, content, met>>
     ELSE Create(p, OutputOf(run[p]), "write_output")

\* and writes its output.
CreateOutput(p) ==
  /\ run[p].pc = "create_output"
  /\ Create(p, OutputOf(run[p]), "write_output")

WriteOutput(p) ==
  /\ run[p].pc = "write_output"
  /\ Write(p, "read_output")

\* The or_else: the input goes, the error stays.
OptFailed(p) ==
  /\ run[p].pc = "opt_failed"
  /\ Remove(p, InputOf(run[p]), "failed")

ReadOutput(p) ==
  /\ run[p].pc = "read_output"
  /\ Read(p, OutputOf(run[p]), "remove_input", "failed")

RemoveInput(p) ==
  /\ run[p].pc = "remove_input"
  /\ Remove(p, InputOf(run[p]), "remove_output")

\* Mutant: the output stays.
RemoveOutputNot(p) ==
  /\ run[p].pc = "remove_output"
  /\ Goto(p, "encode")
  /\ UNCHANGED <<now, dir, content, met>>

RemoveOutput(p) ==
  /\ run[p].pc = "remove_output"
  /\ Remove(p, OutputOf(run[p]), "encode")

(***************************************************************************)
(* The rest of finish.                                                     *)
(***************************************************************************)

SkipOpt(p) ==
  /\ run[p].pc = "start" /\ p \notin WasmOpt
  /\ Goto(p, "encode")
  /\ UNCHANGED <<now, dir, content, met>>

AfterEncode(p) == IF p \in Composing THEN "name_virt" ELSE "ok"

\* ComponentEncoder validates the bytes.
Encode(p) ==
  /\ run[p].pc = "encode"
  /\ Goto(p, IF run[p].bytes \in {Empty, Torn} THEN "failed" ELSE AfterEncode(p))
  /\ UNCHANGED <<now, dir, content, met>>

NameVirt(p) ==
  /\ run[p].pc = "name_virt"
  /\ Take(p, [run[p] EXCEPT !.pc = "create_virt", !.virt = now])

CreateVirt(p) ==
  /\ run[p].pc = "create_virt"
  /\ Create(p, VirtOf(run[p]), "write_virt")

WriteVirt(p) ==
  /\ run[p].pc = "write_virt"
  /\ Write(p, "compose")

Compose(p) ==
  LET virt == VirtOf(run[p])
  IN  /\ run[p].pc = "compose"
      /\ IF virt \in DOMAIN dir /\ content[dir[virt]] \notin {Empty, Torn}
         THEN Read(p, virt, "remove_virt", "compose_failed")
         ELSE Goto(p, "compose_failed") /\ UNCHANGED <<now, dir, content, met>>

ComposeFailed(p) ==
  /\ run[p].pc = "compose_failed"
  /\ Remove(p, VirtOf(run[p]), "failed")

RemoveVirt(p) ==
  /\ run[p].pc = "remove_virt"
  /\ Remove(p, VirtOf(run[p]), "ok")

(***************************************************************************)
(* The clock, system calls that fail, and processes that are killed.       *)
(***************************************************************************)

Tick == now < MaxTime /\ now' = now + 1 /\ UNCHANGED <<dir, content, run, met>>

\* Where an error leads: the two tools have their or_else, the rest a `?`.
OnError(pc) ==
  CASE pc \in {"optimize", "create_output", "write_output"} -> "opt_failed"
    [] pc = "compose" -> "compose_failed"
    [] OTHER -> "failed"

SystemCallFails(p) ==
  /\ run[p].pc \in OptSteps \cup VirtSteps
  /\ run' = [run EXCEPT ![p] = [run[p] EXCEPT !.pc = OnError(run[p].pc),
                                            !.faulty = TRUE]]
  /\ UNCHANGED <<now, dir, content, met>>

Kill(p) ==
  /\ run[p].pc \notin Ended \cup {"start"}
  /\ run' = [run EXCEPT ![p] = [run[p] EXCEPT !.pc = "killed", !.faulty = TRUE]]
  /\ UNCHANGED <<now, dir, content, met>>

Init ==
  /\ now = 0
  /\ dir = [path \in {} |-> 0]
  /\ content = <<>>
  /\ run = [p \in Procs |-> [pc |-> "start", input |-> NoName,
                             output |-> NoName, virt |-> NoName, fd |-> 0,
                             bytes |-> p, faulty |-> FALSE]]
  /\ met = {}

ApplyWasmOpt(p) ==
  \/ NameInput(p) \/ NameOutput(p) \/ CreateInput(p) \/ WriteInput(p)
  \/ Optimize(p) \/ CreateOutput(p) \/ WriteOutput(p) \/ OptFailed(p)
  \/ ReadOutput(p) \/ RemoveInput(p) \/ RemoveOutput(p)

ComposeFiles(p) ==
  \/ NameVirt(p) \/ CreateVirt(p) \/ WriteVirt(p) \/ Compose(p)
  \/ ComposeFailed(p) \/ RemoveVirt(p)

Proceed(p) == SkipOpt(p) \/ ApplyWasmOpt(p) \/ Encode(p) \/ ComposeFiles(p)

Next ==
  \/ Tick
  \/ \E p \in Procs : Proceed(p) \/ SystemCallFails(p) \/ Kill(p)

Spec == Init /\ [][Next]_vars

-----------------------------------------------------------------------------
(***************************************************************************)
(* Properties.                                                             *)
(***************************************************************************)

Content == Procs \cup {Empty, Torn}
Name == Nat \cup {NoName}
Run == [pc : Steps, input : Name, output : Name, virt : Name, fd : Nat,
        bytes : Content, faulty : BOOLEAN]

TypeOK ==
  /\ now \in 0..MaxTime
  /\ DOMAIN dir \subseteq Paths
  /\ \A path \in DOMAIN dir : dir[path] \in 1..Len(content)
  /\ content \in Seq(Content)
  /\ run \in [Procs -> Run]
  /\ met \subseteq Procs

\* A virtualization that succeeds returns its own component, whatever others
\* do, whichever of them are killed and whatever they leave behind: only two
\* that hold one name at the same time can take each other's.
OwnResult == \A p \in Procs \ met : run[p].pc = "ok" => run[p].bytes = p

\* One that had its names to itself fails only when a system call failed.
FailsForACause ==
  \A p \in Procs \ met : run[p].pc = "failed" => run[p].faulty

\* Every file in the directory is accounted for: a process still works with
\* it, or one that was killed, had a system call fail, or shared the name left
\* it there.  A run that succeeds leaves nothing.
NoLitter ==
  \A path \in DOMAIN dir : \E p \in Procs :
    \/ path \in Holds(run[p])
    \/ /\ run[p].faulty \/ p \in met
       /\ path \in {InputOf(run[p]), OutputOf(run[p]), VirtOf(run[p])}

=============================================================================
