----------------------------- MODULE AdapterIo -----------------------------
(***************************************************************************)
(* Standard streams and poll in the virtual adapter, virtual-adapter/src/  *)
(* io.rs, as create_io_virt of src/virt_io.rs configures them.  A stream   *)
(* or pollable of the guest wraps one of the host or is a stand-in: Null   *)
(* for ignored streams, Err for denied ones, a static file.                *)
(*                                                                         *)
(* The guest is one thread: it makes one call at a time, any call, and may *)
(* be blocked in it while the host goes on: bytes arrive on its stdin, its *)
(* stdout drains or is closed, its timer expires.  stderr is stdout under  *)
(* another name.                                                           *)
(***************************************************************************)
EXTENDS Integers, FiniteSets

CONSTANTS
  Configs,     (* the configurations, see below                            *)
  Incoming,    (* bound: the bytes that arrive on the host's stdin         *)
  Room,        (* the bytes the host's stdout takes before it has drained  *)
  MaxWritten,  (* bound: the bytes the guest writes and splices            *)
  FileSize,    (* the bytes of a static file                               *)
  Lens,        (* the lengths the guest asks for                           *)
  Lists,       (* the lists it polls                                        *)
  Terminals,   (* the standard streams whose terminal it asks for          *)
  Spliced      (* the input streams it splices from                        *)

Stdio == {"stdin", "stdout"}
Inputs == {"stdin", "file"}
Sources == Inputs \cup {"stdout", "timer"}
AllowCfg == {"allow", "ignore", "deny"}

(***************************************************************************)
(* A configuration: what stdin and stdout are, whether clocks are allowed, *)
(* and whether the filesystem needs the host.                              *)
(***************************************************************************)
ASSUME ConfigsAssumption ==
  Configs \subseteq [stdio : [Stdio -> AllowCfg], clocks : BOOLEAN,
                     fs_passthrough : BOOLEAN]
ASSUME SizesAssumption ==
  /\ Incoming \in Nat /\ MaxWritten \in Nat /\ FileSize \in Nat
  /\ Room \in Nat \ {0}
  /\ Lens \subseteq Nat \ {0}
  /\ Lists \subseteq SUBSET Sources
  /\ Terminals \subseteq Stdio /\ Spliced \subseteq Inputs

VARIABLES
  cfg,      (* the configuration                                           *)
  stdin,    (* the host's: bytes to arrive, arrived and taken, open        *)
  stdout,   (* the host's: bytes it has room for, bytes it was given, open *)
  expired,  (* whether the host's timer has expired                        *)
  offset,   (* the position in the static file                             *)
  permit,   (* what the last check-write allows the guest to write         *)
  call,     (* the call the guest is blocked in                            *)
  answer,   (* the last call that returned and its result                  *)
  told,     (* the bytes that the guest's answers add up to: read of each  *)
            (* input, written to stdout, spliced                           *)
  failed    (* whether the guest was told that a write or a splice failed  *)

host == <<stdin, stdout, expired>>
guest == <<call, answer, told, failed>>
vars == <<cfg, host, offset, permit, guest>>

Accounts == Inputs \cup {"stdout", "splice"}
NoCall == [op |-> "none", for |-> {}, on |-> {}, len |-> 0]
Smaller(a, b) == IF a <= b THEN a ELSE b

-----------------------------------------------------------------------------
(***************************************************************************)
(* The configuration, as flags and as stubs: create_io_virt.               *)
(***************************************************************************)
FLAGS_ENABLE == {s \in Stdio : cfg.stdio[s] = "allow"}
FLAGS_IGNORE == {s \in Stdio : cfg.stdio[s] = "ignore"}

\* Without a standard stream of the host, its imports for them are stubbed; if
\* the filesystem does not need the host either, so are those of wasi:io.
disable_stdio == FLAGS_ENABLE = {}

\* Mutant: whatever the filesystem needs.
IoStubbedAlways == disable_stdio
IoStubbed == disable_stdio /\ ~cfg.fs_passthrough

\* Mutant: what is not ignored is allowed.
WrapperOpen(s) == IF s \in FLAGS_IGNORE THEN "null" ELSE "host"

\* Io::stdin, Io::stdout and Io::stderr, and the streams made from them.
Wrapper(s) ==
  IF s \in FLAGS_ENABLE THEN "host"
  ELSE IF s \in FLAGS_IGNORE THEN "null"
  ELSE "err"

Kind(s) == IF s = "file" THEN "static" ELSE Wrapper(s)

\* subscribe, of the streams and of the clock.
PollableKind(p) ==
  IF p = "timer" \/ Kind(p) = "host" THEN "host" ELSE "null"

-----------------------------------------------------------------------------
(***************************************************************************)
(* Calls.  The guest makes op for some streams or pollables, and the       *)
(* adapter calls the host on some of its own.                              *)
(***************************************************************************)
Alive == answer.status \notin {"trap", "panic"}
CanCall == Alive /\ call = NoCall

Reply(op, for, status, n, ready) ==
  /\ answer' = [op |-> op, for |-> for, status |-> status, n |-> n, ready |-> ready]
  /\ call' = NoCall

Return(op, for, status, ready) ==
  Reply(op, for, status, 0, ready) /\ UNCHANGED <<told, failed>>

\* The result of a stream, from which the guest knows what was moved.
Report(op, on, status, n) ==
  /\ Reply(op, {on}, status, n, {})
  /\ told' = IF status = "ok" THEN [told EXCEPT ![on] = @ + n] ELSE told
  /\ failed' = (failed \/ (status = "failed" /\ on # "stdin"))

Wait(op, for, on, len) ==
  /\ call' = [op |-> op, for |-> for, on |-> on, len |-> len]
  /\ UNCHANGED <<answer, told, failed>>

\* A call of the host.  An import of wasi:io that is stubbed is an unreachable
\* instruction.
OnHost(op, for, on, len) ==
  IF IoStubbed THEN Return(op, for, "panic", {}) ELSE Wait(op, for, on, len)

stream_err_map(e) == IF e = "closed" THEN "closed" ELSE "failed"

\* Mutant: the guest is told the length it asked for.
ForwardAsked(op, on, r) ==
  IF r.status = "ok" THEN Report(op, on, "ok", call.len)
  ELSE Report(op, on, stream_err_map(r.status), 0)

\* What the host says of its streams, said to the guest.
Forward(op, on, r) ==
  IF r.status = "ok" THEN Report(op, on, "ok", r.n)
  ELSE Report(op, on, stream_err_map(r.status), 0)

-----------------------------------------------------------------------------
(***************************************************************************)
(* The host.  Its streams end, are closed, or fail, after which they are   *)
(* closed; a write or a splice that fails may have moved a part.           *)
(***************************************************************************)
AtEnd == stdin.arrived = 0 /\ ~stdin.open
Ready(p) ==
  \/ PollableKind(p) = "null"
  \/ p = "stdin" /\ (stdin.arrived > 0 \/ ~stdin.open)
  \/ p = "stdout" /\ (stdout.room > 0 \/ ~stdout.open)
  \/ p = "timer" /\ expired
ReadyOf(list) == {p \in list : Ready(p)}

Arrive ==
  /\ stdin.pending > 0
  /\ stdin' = [stdin EXCEPT !.pending = @ - 1, !.arrived = @ + 1]
  /\ UNCHANGED <<cfg, stdout, expired, offset, permit, guest>>

HangUp ==
  /\ stdin.pending = 0 /\ stdin.open
  /\ stdin' = [stdin EXCEPT !.open = FALSE]
  /\ UNCHANGED <<cfg, stdout, expired, offset, permit, guest>>

Drain ==
  /\ stdout.room < Room
  /\ stdout' = [stdout EXCEPT !.room = Room]
  /\ UNCHANGED <<cfg, stdin, expired, offset, permit, guest>>

Close ==
  /\ stdout.open
  /\ stdout' = [stdout EXCEPT !.open = FALSE]
  /\ UNCHANGED <<cfg, stdin, expired, offset, permit, guest>>

Expire ==
  /\ ~expired
  /\ expired' = TRUE
  /\ UNCHANGED <<cfg, stdin, stdout, offset, permit, guest>>

Result(status, n) == [status |-> status, n |-> n]
Results(len) ==
  [status : {"ok"}, n : 0..len] \cup {Result("closed", 0), Result("last-operation-failed", 0)}

\* The host's read of at most len bytes, and its skip, with the result r.
HostRead(len, r) ==
  CASE r.status = "ok" ->
         /\ ~AtEnd /\ r.n <= stdin.arrived
         /\ stdin' = [stdin EXCEPT !.arrived = @ - r.n, !.taken = @ + r.n]
    [] r.status = "closed" -> AtEnd /\ UNCHANGED stdin
    [] r.status = "last-operation-failed" ->
         /\ ~AtEnd
         /\ stdin' = [stdin EXCEPT !.pending = 0, !.arrived = 0, !.open = FALSE]

HostWrite(n, r) ==
  CASE r.status = "ok" ->
         /\ stdout.open /\ r.n = n /\ n <= stdout.room
         /\ stdout' = [stdout EXCEPT !.room = @ - n, !.given = @ + n]
    [] r.status = "closed" -> ~stdout.open /\ UNCHANGED stdout
    [] r.status = "last-operation-failed" ->
         /\ stdout.open
         /\ \E k \in 0..n : stdout' = [stdout EXCEPT !.given = @ + k, !.open = FALSE]

HostSplice(len, r) ==
  CASE r.status = "ok" ->
         /\ stdout.open /\ ~AtEnd /\ r.n <= stdin.arrived /\ r.n <= stdout.room
         /\ stdin' = [stdin EXCEPT !.arrived = @ - r.n, !.taken = @ + r.n]
         /\ stdout' = [stdout EXCEPT !.room = @ - r.n, !.given = @ + r.n]
    [] r.status = "closed" -> (AtEnd \/ ~stdout.open) /\ UNCHANGED <<stdin, stdout>>
    [] r.status = "last-operation-failed" ->
         /\ stdout.open
         /\ \E k \in 0..Smaller(len, stdin.arrived) : \E j \in 0..k :
              /\ stdin' = [stdin EXCEPT !.arrived = @ - k, !.taken = @ + k]
              /\ stdout' = [stdout EXCEPT !.given = @ + j, !.open = FALSE]

-----------------------------------------------------------------------------
(***************************************************************************)
(* poll, and ready and block of a pollable.  A list is the set of what it  *)
(* has pollables of.  Any Null in it is an answer at once: every index.    *)
(* Otherwise the host is asked; of an empty list it makes a trap.  The     *)
(* merging of the two kinds at the end of the code is never reached.       *)
(***************************************************************************)
Polled(list) == {p \in list : PollableKind(p) = "null"}

\* Mutant: only the stand-ins are reported, though the whole list is ready.
AnsweredNull(list) == Polled(list)
Answered(list) == list

\* Mutant: the clock's pollables are taken for those of another kind.
HostPollsTimeless(list) == list \ {"timer"}
HostPolls(list) == {p \in list : PollableKind(p) = "host"}

Poll(list) ==
  /\ CanCall
  /\ "timer" \in list => cfg.clocks
  /\ IF Polled(list) # {} THEN Return("poll", list, "ok", Answered(list))
     ELSE OnHost("poll", list, HostPolls(list), 0)
  /\ UNCHANGED <<cfg, host, offset, permit>>

PollReturns ==
  /\ call.op = "poll"
  /\ IF call.on = {} THEN Return("poll", call.for, "trap", {})
     ELSE /\ ReadyOf(call.on) # {}
          /\ Return("poll", call.for, "ok", ReadyOf(call.on))
  /\ UNCHANGED <<cfg, host, offset, permit>>

Block(p) ==
  /\ CanCall
  /\ p = "timer" => cfg.clocks
  /\ IF PollableKind(p) = "null" THEN Return("block", {p}, "ok", {})
     ELSE OnHost("block", {p}, {p}, 0)
  /\ UNCHANGED <<cfg, host, offset, permit>>

BlockReturns ==
  /\ call.op = "block"
  /\ ReadyOf(call.on) # {}
  /\ Return("block", call.for, "ok", {})
  /\ UNCHANGED <<cfg, host, offset, permit>>

IsReady(p) ==
  /\ CanCall
  /\ p = "timer" => cfg.clocks
  /\ IF PollableKind(p) = "null" THEN Return("ready", {p}, "ok", {p})
     ELSE OnHost("ready", {p}, {p}, 0)
  /\ UNCHANGED <<cfg, host, offset, permit>>

IsReadyReturns ==
  /\ call.op = "ready"
  /\ Return("ready", call.for, "ok", ReadyOf(call.on))
  /\ UNCHANGED <<cfg, host, offset, permit>>

-----------------------------------------------------------------------------
(***************************************************************************)
(* Input streams.  A static file cannot be skipped.                        *)
(***************************************************************************)
StaticRead(op, len) ==
  IF offset = FileSize THEN Report(op, "file", "closed", 0) /\ UNCHANGED offset
  ELSE LET n == Smaller(FileSize - offset, len)
       IN  Report(op, "file", "ok", n) /\ offset' = offset + n

Skips == {"skip", "blocking-skip"}
Waits == {"blocking-read", "blocking-skip"}
Reads == {"read", "skip"} \cup Waits

Input(op, s, len) ==
  /\ CanCall
  /\ CASE Kind(s) = "null" -> Report(op, s, "ok", 0) /\ UNCHANGED offset
       [] Kind(s) = "err" -> Report(op, s, "closed", 0) /\ UNCHANGED offset
       [] Kind(s) = "static" /\ op \in Skips ->
            Return(op, {s}, "fs-error", {}) /\ UNCHANGED offset
       [] Kind(s) = "static" /\ op \notin Skips -> StaticRead(op, len)
       [] Kind(s) = "host" -> OnHost(op, {s}, {s}, len) /\ UNCHANGED offset
  /\ UNCHANGED <<cfg, host, permit>>

InputReturns ==
  /\ call.op \in Reads
  /\ call.op \in Waits => Ready("stdin")
  /\ \E r \in Results(call.len) : HostRead(call.len, r) /\ Forward(call.op, "stdin", r)
  /\ UNCHANGED <<cfg, stdout, expired, offset, permit>>

(***************************************************************************)
(* Output streams.  The guest writes what check-write has permitted; an    *)
(* ignored stream permits a megabyte, more than the guest here writes.     *)
(* blocking-write-and-flush, of one byte, waits for the room it needs.     *)
(***************************************************************************)
Writes == {"write", "blocking-write"}
Fits(n) == told["stdout"] + told["splice"] + n <= MaxWritten

CheckWrite ==
  /\ CanCall
  /\ CASE Kind("stdout") = "null" ->
            Return("check-write", {"stdout"}, "ok", {}) /\ permit' = MaxWritten
       [] Kind("stdout") = "err" ->
            Return("check-write", {"stdout"}, "closed", {}) /\ UNCHANGED permit
       [] Kind("stdout") = "host" ->
            OnHost("check-write", {"stdout"}, {"stdout"}, 0) /\ UNCHANGED permit
  /\ UNCHANGED <<cfg, host, offset>>

CheckWriteReturns ==
  /\ call.op = "check-write"
  /\ IF stdout.open
     THEN Return(call.op, call.for, "ok", {}) /\ permit' = stdout.room
     ELSE Return(call.op, call.for, "closed", {}) /\ UNCHANGED permit
  /\ UNCHANGED <<cfg, host, offset>>

Write(op, n) ==
  /\ CanCall
  /\ IF op = "write" THEN n <= permit ELSE n = 1
  /\ Fits(n)
  /\ permit' = 0
  /\ CASE Kind("stdout") = "null" -> Report(op, "stdout", "ok", n)
       [] Kind("stdout") = "err" -> Report(op, "stdout", "closed", 0)
       [] Kind("stdout") = "host" -> OnHost(op, {"stdout"}, {"stdout"}, n)
  /\ UNCHANGED <<cfg, host, offset>>

WriteReturns ==
  /\ call.op \in Writes
  /\ call.op = "blocking-write" => Ready("stdout")
  /\ \E r \in Results(call.len) : HostWrite(call.len, r) /\ Forward(call.op, "stdout", r)
  /\ UNCHANGED <<cfg, stdin, expired, offset, permit>>

(***************************************************************************)
(* splice and blocking-splice: the output stream decides first, then the   *)
(* input.  One that is ignored says that all was moved; from a static file *)
(* it is not implemented.                                                  *)
(***************************************************************************)
Splices == {"splice", "blocking-splice"}
SpliceKind(s) ==
  IF Kind("stdout") # "host" THEN Kind("stdout") ELSE Kind(s)

Splice(op, s, len) ==
  /\ CanCall
  /\ Fits(len)
  /\ permit' = 0
  /\ CASE SpliceKind(s) = "null" -> Report(op, "splice", "ok", len)
       [] SpliceKind(s) = "err" -> Report(op, "splice", "closed", 0)
       [] SpliceKind(s) = "static" -> Return(op, {s}, "panic", {})
       [] SpliceKind(s) = "host" -> OnHost(op, {s}, {s, "stdout"}, len)
  /\ UNCHANGED <<cfg, host, offset>>

SpliceReturns ==
  /\ call.op \in Splices
  /\ call.op = "blocking-splice" => ReadyOf(call.on) = call.on
  /\ \E r \in Results(call.len) : HostSplice(call.len, r) /\ Forward(call.op, "splice", r)
  /\ UNCHANGED <<cfg, expired, offset, permit>>

\* get-terminal-stdin and its siblings ask the host whatever the configuration.
GetTerminal(s) ==
  /\ CanCall
  /\ Return("get-terminal", {s}, IF disable_stdio THEN "panic" ELSE "ok", {})
  /\ UNCHANGED <<cfg, host, offset, permit>>

-----------------------------------------------------------------------------
Init ==
  /\ cfg \in Configs
  /\ stdin = [pending |-> Incoming, arrived |-> 0, taken |-> 0, open |-> TRUE]
  /\ stdout = [room |-> Room, given |-> 0, open |-> TRUE]
  /\ expired = FALSE
  /\ offset = 0
  /\ permit = 0
  /\ call = NoCall
  /\ answer = [op |-> "none", for |-> {}, status |-> "ok", n |-> 0, ready |-> {}]
  /\ told = [a \in Accounts |-> 0]
  /\ failed = FALSE

Guest ==
  \/ \E list \in Lists : Poll(list)
  \/ \E p \in Sources : Block(p) \/ IsReady(p)
  \/ \E op \in Reads, s \in Inputs, len \in Lens : Input(op, s, len)
  \/ CheckWrite
  \/ \E op \in Writes, n \in Lens : Write(op, n)
  \/ \E op \in Splices, s \in Spliced, len \in Lens : Splice(op, s, len)
  \/ \E s \in Terminals : GetTerminal(s)

Returns ==
  \/ PollReturns \/ BlockReturns \/ IsReadyReturns \/ InputReturns
  \/ CheckWriteReturns \/ WriteReturns \/ SpliceReturns

HostSteps == Arrive \/ HangUp \/ Drain \/ Close \/ Expire

Next == Guest \/ Returns \/ HostSteps

Spec == Init /\ [][Next]_vars

(***************************************************************************)
(* The host returns from a call that it can answer, its stdout drains and  *)
(* its timer expires.  Nobody has to type anything on its stdin, and the   *)
(* guest has to call nothing.                                              *)
(***************************************************************************)
FairSpec == Spec /\ WF_vars(Returns) /\ WF_vars(Drain) /\ WF_vars(Expire)

-----------------------------------------------------------------------------
(***************************************************************************)
(* Properties.                                                             *)
(***************************************************************************)

\* The state has its types; a call waits only on what is the host's.
TypeOK ==
  /\ cfg \in Configs
  /\ stdin \in [pending : 0..Incoming, arrived : 0..Incoming, taken : Nat, open : BOOLEAN]
  /\ stdout \in [room : 0..Room, given : Nat, open : BOOLEAN]
  /\ expired \in BOOLEAN
  /\ offset \in 0..FileSize
  /\ permit \in Nat
  /\ call.on \subseteq {p \in Sources : PollableKind(p) = "host"}
  /\ told \in [Accounts -> Nat]
  /\ failed \in BOOLEAN

(***************************************************************************)
(* What the guest is told agrees with what happened: the answers to its    *)
(* reads, skips, writes and splices add up to the bytes taken from the     *)
(* host's stdin, to those given to its stdout, and to the position in the  *)
(* file.  Two exceptions: with an ignored stream splice reports bytes that *)
(* it has not moved, and an ignored stdout keeps nothing of what is        *)
(* written; and the host may have moved more than it said where it said    *)
(* that it failed, never less.                                             *)
(***************************************************************************)
Moved ==
  LET spliced == IF FLAGS_IGNORE = {} THEN told["splice"] ELSE 0
      written == IF "stdout" \in FLAGS_IGNORE THEN 0 ELSE told["stdout"]
  IN  [in |-> told["stdin"] + spliced, out |-> written + spliced]

Conserved ==
  /\ Moved.in <= stdin.taken /\ Moved.out <= stdout.given
  /\ ~failed => Moved = [in |-> stdin.taken, out |-> stdout.given]
  /\ offset = told["file"]

\* No byte of a standard stream that is not allowed is moved on the host.
Isolated ==
  /\ cfg.stdio["stdin"] # "allow" => stdin.taken = 0
  /\ cfg.stdio["stdout"] # "allow" => stdout.given = 0

\* poll misses no wake-up: it reports at least one index, and every one that is
\* ready when it returns.
PollComplete ==
  [][answer' # answer /\ answer'.op = "poll" /\ answer'.status = "ok" =>
       /\ answer'.ready # {}
       /\ ReadyOf(answer'.for) \subseteq answer'.ready]_vars

\* wasi:io: "The result contains one or more indices of handles in the argument
\* list that is ready": what poll reports is ready, so that the guest may call
\* without being blocked.
PollSound ==
  answer.op = "poll" /\ answer.status = "ok" =>
    \A p \in answer.ready : Ready(p)

\* A guest that polls several things waits no longer than for the first of them:
\* if one is the clock or the host's stdout it goes on.
Woken ==
  [](call.op = "poll" /\ call.for \cap {"timer", "stdout"} # {} => <>(call = NoCall))

(***************************************************************************)
(* The adapter panics in three ways only.  A splice of a static file into  *)
(* the host's stdout is not implemented.  With no standard stream allowed, *)
(* asking for a terminal meets a stub, though the streams themselves never *)
(* do.  And if the filesystem does not need the host either, a poll of     *)
(* nothing does, and so does waiting for the clock, even where clocks are  *)
(* allowed.                                                                *)
(***************************************************************************)
PanicsForACause ==
  answer.status = "panic" =>
    \/ /\ answer.op \in Splices /\ answer.for = {"file"}
       /\ cfg.stdio["stdout"] = "allow"
    \/ /\ \A s \in Stdio : cfg.stdio[s] # "allow"
       /\ \/ answer.op = "get-terminal"
          \/ /\ ~cfg.fs_passthrough
             /\ answer.op \in {"poll", "block", "ready"} /\ answer.for \subseteq {"timer"}

=============================================================================
