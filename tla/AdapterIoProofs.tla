--------------------------- MODULE AdapterIoProofs ---------------------------
(***************************************************************************)
(* Proofs about AdapterIo, for every set of configurations, any number of  *)
(* bytes and any room of the host's stdout.                                *)
(***************************************************************************)
EXTENDS AdapterIo, TLAPS

(***************************************************************************)
(* What TypeOK, Conserved and Isolated need besides themselves: a call in  *)
(* which the guest is blocked is about streams that are the host's, and no *)
(* more bytes arrive than there are.                                       *)
(***************************************************************************)
Waiting == {p \in Sources : PollableKind(p) = "host"}

CallOK ==
  /\ call.len \in Nat
  /\ call.op \in Reads \cup Splices => Kind("stdin") = "host"
  /\ call.op \in Writes \cup Splices => Kind("stdout") = "host"
  /\ call.op = "poll" => call.on = call.for

ArrivalOK == stdin.pending + stdin.arrived <= Incoming

IInv == TypeOK /\ Conserved /\ Isolated /\ CallOK /\ ArrivalOK

-----------------------------------------------------------------------------
(***************************************************************************)
(* The configuration never changes, and with it what each stream is.       *)
(***************************************************************************)
LEMMA HostIsAllowed ==
  ASSUME cfg \in Configs, NEW s \in Stdio
  PROVE  Kind(s) = "host" <=> cfg.stdio[s] = "allow"
BY DEF Kind, Wrapper, FLAGS_ENABLE, FLAGS_IGNORE, Stdio

LEMMA NullIsIgnored ==
  ASSUME NEW s \in Stdio
  PROVE  /\ Kind(s) = "null" => s \in FLAGS_IGNORE
         /\ Kind(s) = "host" => s \notin FLAGS_IGNORE
BY DEF Kind, Wrapper, FLAGS_ENABLE, FLAGS_IGNORE, Stdio

LEMMA FileStatic == Kind("file") = "static"
BY DEF Kind

LEMMA Kinds == \A s : Kind(s) \in {"null", "err", "static", "host"}
BY DEF Kind, Wrapper

LEMMA OutKinds == Kind("stdout") \in {"null", "err", "host"}
BY DEF Kind, Wrapper

LEMMA KindsKept ==
  ASSUME cfg' = cfg
  PROVE  /\ \A s : Kind(s)' = Kind(s)
         /\ \A p : PollableKind(p)' = PollableKind(p)
         /\ Waiting' = Waiting
         /\ FLAGS_IGNORE' = FLAGS_IGNORE
<1>1. \A s : Kind(s)' = Kind(s)
  BY DEF Kind, Wrapper, FLAGS_ENABLE, FLAGS_IGNORE
<1>2. \A p : PollableKind(p)' = PollableKind(p)
  BY <1>1 DEF PollableKind
<1>3. FLAGS_IGNORE' = FLAGS_IGNORE
  BY DEF FLAGS_IGNORE
<1> QED
  BY <1>1, <1>2, <1>3 DEF Waiting

LEMMA HostPollables ==
  \A s \in Inputs \cup {"stdout"} : Kind(s) = "host" => s \in Waiting
BY DEF Waiting, PollableKind, Sources

-----------------------------------------------------------------------------
(***************************************************************************)
(* A step that moves nothing and tells nothing of bytes only has to leave  *)
(* a call that CallOK accepts.                                             *)
(***************************************************************************)
LEMMA QuietStep ==
  ASSUME IInv, UNCHANGED <<cfg, stdin, stdout, offset, told, failed>>,
         expired' \in BOOLEAN, permit' \in Nat,
         CallOK', call'.on \subseteq Waiting
  PROVE  IInv'
<1>1. Waiting' = Waiting /\ FLAGS_IGNORE' = FLAGS_IGNORE
  BY KindsKept
<1>2. TypeOK'
  BY <1>1 DEF IInv, TypeOK, Waiting
<1>3. Conserved' /\ Isolated'
  BY <1>1 DEF IInv, Conserved, Isolated, Moved
<1>4. ArrivalOK'
  BY DEF IInv, ArrivalOK
<1> QED
  BY <1>2, <1>3, <1>4 DEF IInv

LEMMA NoneWaits ==
  ASSUME call' = NoCall
  PROVE  CallOK' /\ call'.on \subseteq Waiting
BY DEF CallOK, NoCall, Waits, Reads, Writes, Splices

LEMMA Returned ==
  ASSUME NEW op, NEW for, NEW status, NEW ready, Return(op, for, status, ready)
  PROVE  UNCHANGED <<told, failed>> /\ call' = NoCall
BY DEF Return, Reply

\* A call for the host, in which the guest waits unless the import is stubbed.
LEMMA Asked ==
  ASSUME cfg' = cfg, NEW op, NEW for, NEW on \in SUBSET Waiting, NEW len \in Nat,
         OnHost(op, for, on, len),
         op \in Reads \cup Splices => Kind("stdin") = "host",
         op \in Writes \cup Splices => Kind("stdout") = "host",
         op = "poll" => on = for
  PROVE  UNCHANGED <<told, failed>> /\ CallOK' /\ call'.on \subseteq Waiting
<1>1. CASE IoStubbed
  BY <1>1, Returned, NoneWaits DEF OnHost
<1>2. CASE ~IoStubbed
  <2>1. /\ call' = [op |-> op, for |-> for, on |-> on, len |-> len]
        /\ UNCHANGED <<told, failed>>
    BY <1>2 DEF OnHost, Wait
  <2>2. \A s : Kind(s)' = Kind(s)
    BY KindsKept
  <2> QED
    BY <2>1, <2>2 DEF CallOK
<1> QED
  BY <1>1, <1>2

-----------------------------------------------------------------------------
(***************************************************************************)
(* What the guest is told.                                                 *)
(***************************************************************************)
LEMMA Told ==
  ASSUME told \in [Accounts -> Nat], failed \in BOOLEAN,
         NEW op, NEW on \in Accounts, NEW status, NEW n \in Nat,
         Report(op, on, status, n)
  PROVE  /\ call' = NoCall
         /\ told' \in [Accounts -> Nat] /\ failed' \in BOOLEAN
         /\ \A a \in Accounts :
              told'[a] = IF a = on /\ status = "ok" THEN told[a] + n ELSE told[a]
         /\ failed' = (failed \/ (status = "failed" /\ on # "stdin"))
<1>1. /\ call' = NoCall
      /\ told' = IF status = "ok" THEN [told EXCEPT ![on] = @ + n] ELSE told
      /\ failed' = (failed \/ (status = "failed" /\ on # "stdin"))
  BY DEF Report, Reply
<1>2. told[on] + n \in Nat
  OBVIOUS
<1> QED
  BY <1>1, <1>2

\* The adapter answers for itself, of an ignored stream or a closed one.
LEMMA StandInStep ==
  ASSUME IInv, UNCHANGED <<cfg, stdin, stdout, expired, offset>>, permit' \in Nat,
         NEW op, NEW on \in Accounts, NEW status \in {"ok", "closed"}, NEW n \in Nat,
         Report(op, on, status, n),
         status = "ok" /\ n # 0 =>
           \/ on = "stdout" /\ "stdout" \in FLAGS_IGNORE
           \/ on = "splice" /\ FLAGS_IGNORE # {}
  PROVE  IInv'
<1>1. /\ call' = NoCall
      /\ told' \in [Accounts -> Nat] /\ failed' = failed
      /\ \A a \in Accounts :
           told'[a] = IF a = on /\ status = "ok" THEN told[a] + n ELSE told[a]
  BY Told DEF IInv, TypeOK
<1>2. Waiting' = Waiting /\ FLAGS_IGNORE' = FLAGS_IGNORE
  BY KindsKept
<1>3. CallOK' /\ call'.on \subseteq Waiting
  BY <1>1, NoneWaits
<1>4. TypeOK'
  BY <1>1, <1>2, <1>3 DEF IInv, TypeOK, Waiting
<1>5. Moved' = Moved /\ told'["file"] = told["file"]
  <2>1. told \in [Accounts -> Nat]
    BY DEF IInv, TypeOK
  <2>2. told'["stdin"] = told["stdin"] /\ told'["file"] = told["file"]
    BY <1>1, <2>1 DEF Accounts, Inputs
  <2>3. "stdout" \notin FLAGS_IGNORE => told'["stdout"] = told["stdout"]
    BY <1>1, <2>1 DEF Accounts, Inputs
  <2>4. FLAGS_IGNORE = {} => told'["splice"] = told["splice"]
    BY <1>1, <2>1 DEF Accounts, Inputs
  <2> QED
    BY <1>2, <2>2, <2>3, <2>4 DEF Moved
<1>6. Conserved' /\ Isolated' /\ ArrivalOK'
  BY <1>1, <1>5 DEF IInv, Conserved, Isolated, ArrivalOK
<1> QED
  BY <1>3, <1>4, <1>6 DEF IInv

(***************************************************************************)
(* The adapter forwards what the host did, of the account on, with the     *)
(* result r.                                                               *)
(***************************************************************************)
InTypes == [pending : 0..Incoming, arrived : 0..Incoming, taken : Nat, open : BOOLEAN]
OutTypes == [room : 0..Room, given : Nat, open : BOOLEAN]

LEMMA ForwardStep ==
  ASSUME IInv, UNCHANGED <<cfg, expired, offset, permit>>,
         NEW op, NEW on \in {"stdin", "stdout", "splice"}, NEW len \in Nat,
         NEW r \in Results(len), Forward(op, on, r),
         stdin' \in InTypes, stdout' \in OutTypes, ArrivalOK',
         stdin'.taken >= stdin.taken /\ stdout'.given >= stdout.given,
         r.status = "ok" \/ r.status = "closed" \/ on = "stdin" =>
           /\ stdin'.taken = stdin.taken + IF on # "stdout" THEN r.n ELSE 0
           /\ stdout'.given = stdout.given + IF on # "stdin" THEN r.n ELSE 0,
         on # "stdout" => Kind("stdin") = "host",
         on = "stdout" => stdin'.taken = stdin.taken,
         on # "stdin" => Kind("stdout") = "host",
         on = "stdin" => stdout'.given = stdout.given
  PROVE  IInv'
<1> DEFINE status == IF r.status = "ok" THEN "ok" ELSE stream_err_map(r.status)
           n == IF r.status = "ok" THEN r.n ELSE 0
<1>1. r.n \in Nat /\ (r.status # "ok" => r.n = 0)
      /\ r.status \in {"ok", "closed", "last-operation-failed"}
  BY DEF Results, Result
<1>2. Report(op, on, status, n) /\ n \in Nat /\ on \in Accounts
  BY <1>1 DEF Forward, Accounts, Inputs
<1>3. /\ status = "ok" <=> r.status = "ok"
      /\ status = "failed" <=> r.status = "last-operation-failed"
  BY <1>1 DEF stream_err_map
<1>4. n = r.n
  BY <1>1
<1> HIDE DEF status, n
<1>5. told \in [Accounts -> Nat] /\ failed \in BOOLEAN
  BY DEF IInv, TypeOK
<1>6. /\ call' = NoCall
      /\ told' \in [Accounts -> Nat] /\ failed' \in BOOLEAN
      /\ \A a \in Accounts :
           told'[a] = IF a = on /\ status = "ok" THEN told[a] + n ELSE told[a]
      /\ failed' = (failed \/ (status = "failed" /\ on # "stdin"))
  BY <1>2, <1>5, Told
<1>7. Waiting' = Waiting /\ FLAGS_IGNORE' = FLAGS_IGNORE
  BY KindsKept
<1>8. CallOK' /\ call'.on \subseteq Waiting
  BY <1>6, NoneWaits
<1>9. TypeOK'
  BY <1>6, <1>7, <1>8 DEF IInv, TypeOK, Waiting, InTypes, OutTypes
<1>10. Isolated'
  <2>1. /\ cfg.stdio["stdin"] # "allow" => stdin'.taken = stdin.taken
        /\ cfg.stdio["stdout"] # "allow" => stdout'.given = stdout.given
    BY HostIsAllowed DEF IInv, TypeOK, Stdio
  <2> QED
    BY <2>1 DEF IInv, Isolated
<1>11. Conserved'
  <2>1. /\ told'["stdin"] = told["stdin"] + IF on = "stdin" THEN n ELSE 0
        /\ told'["stdout"] = told["stdout"] + IF on = "stdout" THEN n ELSE 0
        /\ told'["splice"] = told["splice"] + IF on = "splice" THEN n ELSE 0
        /\ told'["file"] = told["file"]
    <3>1. status # "ok" => n = 0
      BY <1>1, <1>3, <1>4
    <3>2. \A a \in {"stdin", "stdout", "splice", "file"} : told[a] \in Nat /\ a \in Accounts
      BY <1>5 DEF Accounts, Inputs
    <3>3. \A a \in {"stdin", "stdout", "splice", "file"} :
            told'[a] = told[a] + IF a = on THEN n ELSE 0
      BY <1>2, <1>6, <3>1, <3>2
    <3> QED
      BY <3>2, <3>3
  <2>2. /\ on = "splice" => FLAGS_IGNORE = {}
        /\ on = "stdout" => "stdout" \notin FLAGS_IGNORE
    BY NullIsIgnored DEF FLAGS_IGNORE, Stdio
  <2>3. \A a \in {"stdin", "stdout", "splice", "file"} : told[a] \in Nat
    BY <1>5 DEF Accounts, Inputs
  <2>4. /\ Moved'.in = Moved.in + IF on # "stdout" THEN n ELSE 0
        /\ Moved'.out = Moved.out + IF on # "stdin" THEN n ELSE 0
        /\ Moved.in \in Nat /\ Moved.out \in Nat
        /\ Moved' = [in |-> Moved'.in, out |-> Moved'.out]
        /\ Moved = [in |-> Moved.in, out |-> Moved.out]
    <3>1. CASE on = "stdin"
      BY <1>2, <1>7, <2>1, <2>3, <3>1 DEF Moved
    <3>2. CASE on = "stdout"
      BY <1>2, <1>7, <2>1, <2>2, <2>3, <3>2 DEF Moved
    <3>3. CASE on = "splice"
      BY <1>2, <1>7, <2>1, <2>2, <2>3, <3>3 DEF Moved
    <3> QED
      BY <3>1, <3>2, <3>3
  <2>5. stdin.taken \in Nat /\ stdout.given \in Nat /\ stdin'.taken \in Nat /\ stdout'.given \in Nat
    BY DEF IInv, TypeOK, InTypes, OutTypes
  <2>6. Moved'.in <= stdin'.taken /\ Moved'.out <= stdout'.given
    <3>1. Moved.in <= stdin.taken /\ Moved.out <= stdout.given
      BY DEF IInv, Conserved
    <3>2. CASE r.status = "last-operation-failed"
      <4>1. n = 0
        BY <1>1, <1>4, <3>2
      <4> QED
        BY <2>4, <2>5, <3>1, <4>1
    <3>3. CASE r.status # "last-operation-failed"
      BY <1>1, <1>4, <2>4, <2>5, <3>1, <3>3
    <3> QED
      BY <3>2, <3>3
  <2>7. ASSUME ~failed'
        PROVE  Moved' = [in |-> stdin'.taken, out |-> stdout'.given]
    <3>1. ~failed /\ (r.status # "last-operation-failed" \/ on = "stdin")
      BY <1>3, <1>6, <2>7
    <3>2. Moved = [in |-> stdin.taken, out |-> stdout.given]
      BY <3>1 DEF IInv, Conserved
    <3>3. Moved.in = stdin.taken /\ Moved.out = stdout.given
      BY <3>2
    <3>4. /\ stdin'.taken = stdin.taken + IF on # "stdout" THEN n ELSE 0
          /\ stdout'.given = stdout.given + IF on # "stdin" THEN n ELSE 0
      BY <1>1, <1>4, <3>1
    <3>5. Moved'.in = stdin'.taken /\ Moved'.out = stdout'.given
      BY <2>4, <3>3, <3>4
    <3> QED
      BY <2>4, <3>5
  <2>8. offset' = told'["file"]
    BY <2>1 DEF IInv, Conserved
  <2> QED
    BY <2>6, <2>7, <2>8 DEF Conserved
<1> QED
  BY <1>8, <1>9, <1>10, <1>11 DEF IInv

-----------------------------------------------------------------------------
(***************************************************************************)
(* One lemma for each action.                                              *)
(***************************************************************************)
LEMMA PollStep ==
  ASSUME IInv, NEW list \in Lists, Poll(list)
  PROVE  IInv'
<1>1. UNCHANGED <<cfg, stdin, stdout, expired, offset, permit>>
  BY DEF Poll, host
<1>2. UNCHANGED <<told, failed>> /\ CallOK' /\ call'.on \subseteq Waiting
  <2>1. CASE Polled(list) # {}
    BY <2>1, Returned, NoneWaits DEF Poll
  <2>2. CASE Polled(list) = {}
    <3>1. OnHost("poll", list, HostPolls(list), 0)
      BY <2>2 DEF Poll
    <3>2. HostPolls(list) \in SUBSET Waiting /\ HostPolls(list) = list
      BY <2>2, SizesAssumption DEF HostPolls, Polled, PollableKind, Waiting
    <3> QED
      BY <1>1, <3>1, <3>2, Asked DEF Reads, Waits, Writes, Splices
  <2> QED
    BY <2>1, <2>2
<1> QED
  BY <1>1, <1>2, QuietStep DEF IInv, TypeOK

LEMMA PollableStep ==
  ASSUME IInv, NEW p \in Sources, Block(p) \/ IsReady(p)
  PROVE  IInv'
<1>1. UNCHANGED <<cfg, stdin, stdout, expired, offset, permit>>
  BY DEF Block, IsReady, host
<1>2. UNCHANGED <<told, failed>> /\ CallOK' /\ call'.on \subseteq Waiting
  <2>1. CASE PollableKind(p) = "null"
    BY <2>1, Returned, NoneWaits DEF Block, IsReady
  <2>2. CASE PollableKind(p) # "null"
    <3>1. OnHost("block", {p}, {p}, 0) \/ OnHost("ready", {p}, {p}, 0)
      BY <2>2 DEF Block, IsReady
    <3>2. {p} \in SUBSET Waiting
      BY <2>2 DEF PollableKind, Waiting
    <3> QED
      BY <1>1, <3>1, <3>2, Asked DEF Reads, Waits, Writes, Splices
  <2> QED
    BY <2>1, <2>2
<1> QED
  BY <1>1, <1>2, QuietStep DEF IInv, TypeOK

\* The calls that return and move nothing.
LEMMA AnsweredStep ==
  ASSUME IInv, \/ PollReturns \/ BlockReturns \/ IsReadyReturns
               \/ CheckWriteReturns
               \/ \E s \in Terminals : GetTerminal(s)
  PROVE  IInv'
<1>1. UNCHANGED <<cfg, stdin, stdout, expired, offset>>
  BY DEF PollReturns, BlockReturns, IsReadyReturns, CheckWriteReturns, GetTerminal, host
<1>2. UNCHANGED <<told, failed>> /\ call' = NoCall
  BY Returned
     DEF PollReturns, BlockReturns, IsReadyReturns, CheckWriteReturns, GetTerminal
<1>3. permit' \in Nat
  <2>1. permit' \in {permit, stdout.room}
    BY DEF PollReturns, BlockReturns, IsReadyReturns, CheckWriteReturns, GetTerminal
  <2> QED
    BY <2>1, SizesAssumption DEF IInv, TypeOK
<1> QED
  BY <1>1, <1>2, <1>3, NoneWaits, QuietStep DEF IInv, TypeOK

LEMMA FileStep ==
  ASSUME IInv, UNCHANGED <<cfg, stdin, stdout, expired, permit>>,
         NEW op, NEW len \in Nat, StaticRead(op, len)
  PROVE  IInv'
<1> DEFINE n == IF offset = FileSize THEN 0 ELSE Smaller(FileSize - offset, len)
           status == IF offset = FileSize THEN "closed" ELSE "ok"
<1>1. offset \in 0..FileSize /\ FileSize \in Nat
  BY SizesAssumption DEF IInv, TypeOK
<1>2. n \in Nat /\ offset + n \in 0..FileSize /\ (status # "ok" => n = 0)
  BY <1>1 DEF Smaller
<1>3. Report(op, "file", status, n) /\ offset' = offset + n /\ status # "failed"
  BY <1>1 DEF StaticRead
<1> HIDE DEF n, status
<1>4. told \in [Accounts -> Nat] /\ failed \in BOOLEAN /\ "file" \in Accounts
  BY DEF IInv, TypeOK, Accounts, Inputs
\* Told is about constants: the values of n and status in this step.
<1>5. /\ call' = NoCall /\ told' \in [Accounts -> Nat] /\ failed' = failed
      /\ \A a \in Accounts :
           told'[a] = IF a = "file" /\ status = "ok" THEN told[a] + n ELSE told[a]
  <2>1. PICK on \in Accounts : on = "file"
    BY <1>4
  <2>2. PICK m \in Nat : m = n
    BY <1>2
  <2>3. PICK st : st = status
    OBVIOUS
  <2>4. Report(op, on, st, m)
    BY <1>3, <2>1, <2>2, <2>3
  <2>5. /\ call' = NoCall
        /\ told' \in [Accounts -> Nat] /\ failed' \in BOOLEAN
        /\ \A a \in Accounts :
             told'[a] = IF a = on /\ st = "ok" THEN told[a] + m ELSE told[a]
        /\ failed' = (failed \/ (st = "failed" /\ on # "stdin"))
    BY <1>4, <2>4, Told
  <2>6. failed' = failed
    BY <1>3, <1>4, <2>5, <2>3
  <2> QED
    BY <2>1, <2>5, <2>6, <2>2, <2>3
<1>6. /\ told'["file"] = told["file"] + n /\ told'["stdin"] = told["stdin"]
      /\ told'["stdout"] = told["stdout"] /\ told'["splice"] = told["splice"]
  BY <1>2, <1>4, <1>5 DEF Accounts, Inputs
<1>7. Waiting' = Waiting /\ FLAGS_IGNORE' = FLAGS_IGNORE
  BY KindsKept
<1>8. CallOK' /\ call'.on \subseteq Waiting
  BY <1>5, NoneWaits
<1>9. TypeOK'
  BY <1>2, <1>3, <1>5, <1>7, <1>8 DEF IInv, TypeOK, Waiting
<1>10. Moved' = Moved
  BY <1>6, <1>7 DEF Moved
<1>11. Conserved' /\ Isolated' /\ ArrivalOK'
  BY <1>3, <1>5, <1>6, <1>10 DEF IInv, Conserved, Isolated, ArrivalOK
<1> QED
  BY <1>8, <1>9, <1>11 DEF IInv

LEMMA InputStep ==
  ASSUME IInv, NEW op \in Reads, NEW s \in Inputs, NEW len \in Lens, Input(op, s, len)
  PROVE  IInv'
<1>1. UNCHANGED <<cfg, stdin, stdout, expired, permit>> /\ len \in Nat
  BY SizesAssumption DEF Input, host
<1>2. s \in Accounts /\ permit' \in Nat /\ expired' \in BOOLEAN
  BY <1>1 DEF Accounts, IInv, TypeOK
<1>3. CASE Kind(s) = "null" \/ Kind(s) = "err"
  <2>1. /\ Report(op, s, "ok", 0) \/ Report(op, s, "closed", 0)
        /\ UNCHANGED offset
    BY <1>3 DEF Input
  <2> QED
    BY <1>1, <1>2, <2>1, StandInStep
<1>4. CASE Kind(s) = "static" /\ op \in Skips
  <2>1. Return(op, {s}, "fs-error", {}) /\ UNCHANGED offset
    BY <1>4 DEF Input
  <2> QED
    BY <1>1, <1>2, <2>1, Returned, NoneWaits, QuietStep
<1>5. CASE Kind(s) = "static" /\ op \notin Skips
  <2>1. StaticRead(op, len)
    BY <1>5 DEF Input
  <2> QED
    BY <1>1, <1>2, <2>1, FileStep
<1>6. CASE Kind(s) = "host"
  <2>1. OnHost(op, {s}, {s}, len) /\ UNCHANGED offset
    BY <1>6 DEF Input
  <2>2. s = "stdin" /\ {s} \in SUBSET Waiting
    BY <1>6, FileStatic, HostPollables DEF Inputs
  <2> QED
    BY <1>1, <1>2, <1>6, <2>1, <2>2, Asked, QuietStep DEF Reads, Waits, Writes, Splices
<1> QED
  BY <1>3, <1>4, <1>5, <1>6, Kinds

LEMMA InputReturnsStep ==
  ASSUME IInv, InputReturns
  PROVE  IInv'
<1>1. UNCHANGED <<cfg, stdout, expired, offset, permit>> /\ call.op \in Reads
  BY DEF InputReturns
<1>2. call.len \in Nat /\ Kind("stdin") = "host"
  BY <1>1 DEF IInv, CallOK
<1>3. PICK r \in Results(call.len) : HostRead(call.len, r) /\ Forward(call.op, "stdin", r)
  BY DEF InputReturns
<1>4. stdin \in InTypes /\ stdout \in OutTypes /\ r.n \in Nat
      /\ r.status \in {"ok", "closed", "last-operation-failed"}
      /\ (r.status # "ok" => r.n = 0)
  BY <1>2 DEF IInv, TypeOK, InTypes, OutTypes, Results, Result
<1>5. /\ stdin' \in InTypes /\ ArrivalOK'
      /\ stdin'.taken >= stdin.taken
      /\ stdin'.taken = stdin.taken + r.n
  <2>1. CASE r.status = "ok"
    <3> DEFINE a == stdin.arrived - r.n
               t == stdin.taken + r.n
    <3>1. r.n <= stdin.arrived /\ stdin' = [stdin EXCEPT !.arrived = a, !.taken = t]
      BY <1>3, <2>1 DEF HostRead
    <3>2. a \in 0..Incoming /\ t \in Nat /\ t >= stdin.taken /\ a <= stdin.arrived
      BY <1>4, <3>1, SizesAssumption DEF InTypes
    <3> HIDE DEF a
    <3>3. stdin'.arrived = a /\ stdin'.taken = t /\ stdin'.pending = stdin.pending
          /\ stdin' \in InTypes
      BY <1>4, <3>1, <3>2 DEF InTypes
    <3>4. ArrivalOK'
      <4>1. stdin.pending \in Nat /\ stdin.arrived \in Nat /\ a \in Nat
            /\ stdin.pending + stdin.arrived <= Incoming
        BY <1>4, <3>2 DEF IInv, ArrivalOK, InTypes
      <4>2. stdin.pending + a <= Incoming
        BY <3>2, <4>1, SizesAssumption
      <4> QED
        BY <3>3, <4>2 DEF ArrivalOK
    <3> QED
      BY <3>2, <3>3, <3>4
  <2>2. CASE r.status = "closed"
    <3>1. stdin' = stdin
      BY <1>3, <2>2 DEF HostRead
    <3> QED
      BY <1>4, <2>2, <3>1 DEF IInv, ArrivalOK, InTypes
  <2>3. CASE r.status = "last-operation-failed"
    <3>1. stdin' = [stdin EXCEPT !.pending = 0, !.arrived = 0, !.open = FALSE]
      BY <1>3, <2>3 DEF HostRead
    <3>2. stdin'.pending = 0 /\ stdin'.arrived = 0 /\ stdin'.taken = stdin.taken
      BY <1>4, <3>1 DEF InTypes
    <3>3. stdin' \in InTypes
      <4>1. 0 \in 0..Incoming
        BY SizesAssumption
      <4> QED
        BY <1>4, <3>1, <4>1 DEF InTypes
    <3> QED
      BY <1>4, <2>3, <3>2, <3>3, SizesAssumption DEF ArrivalOK, InTypes
  <2> QED
    BY <1>4, <2>1, <2>2, <2>3
<1>6. stdout.given >= stdout.given /\ stdout.given = stdout.given + 0
  BY <1>4 DEF OutTypes
<1> QED
  BY <1>1, <1>2, <1>3, <1>4, <1>5, <1>6, ForwardStep

LEMMA CheckWriteStep ==
  ASSUME IInv, CheckWrite
  PROVE  IInv'
<1>1. UNCHANGED <<cfg, stdin, stdout, expired, offset>>
  BY DEF CheckWrite, host
<1>2. permit' \in Nat
  <2>1. permit' \in {permit, MaxWritten}
    BY OutKinds DEF CheckWrite
  <2> QED
    BY <2>1, SizesAssumption DEF IInv, TypeOK
<1>3. UNCHANGED <<told, failed>> /\ CallOK' /\ call'.on \subseteq Waiting
  <2>1. CASE Kind("stdout") # "host"
    <3>1. \E status : Return("check-write", {"stdout"}, status, {})
      BY <2>1, OutKinds DEF CheckWrite
    <3> QED
      BY <3>1, Returned, NoneWaits
  <2>2. CASE Kind("stdout") = "host"
    <3>1. OnHost("check-write", {"stdout"}, {"stdout"}, 0)
      BY <2>2 DEF CheckWrite
    <3>2. {"stdout"} \in SUBSET Waiting
      BY <2>2, HostPollables
    <3> QED
      BY <1>1, <3>1, <3>2, Asked DEF Reads, Waits, Writes, Splices
  <2> QED
    BY <2>1, <2>2
<1> QED
  BY <1>1, <1>2, <1>3, QuietStep DEF IInv, TypeOK

LEMMA WriteStep ==
  ASSUME IInv, NEW op \in Writes, NEW n \in Lens, Write(op, n)
  PROVE  IInv'
<1>1. UNCHANGED <<cfg, stdin, stdout, expired, offset>> /\ permit' = 0 /\ n \in Nat
      /\ "stdout" \in Accounts /\ expired' \in BOOLEAN
  BY SizesAssumption DEF Write, host, Accounts, IInv, TypeOK
<1>2. CASE Kind("stdout") = "null"
  <2>1. Report(op, "stdout", "ok", n) /\ "stdout" \in FLAGS_IGNORE
    BY <1>2, NullIsIgnored DEF Write, Stdio
  <2> QED
    BY <1>1, <2>1, StandInStep
<1>3. CASE Kind("stdout") = "err"
  <2>1. Report(op, "stdout", "closed", 0)
    BY <1>3 DEF Write
  <2> QED
    BY <1>1, <2>1, StandInStep
<1>4. CASE Kind("stdout") = "host"
  <2>1. OnHost(op, {"stdout"}, {"stdout"}, n) /\ {"stdout"} \in SUBSET Waiting
    BY <1>4, HostPollables DEF Write
  <2>2. UNCHANGED <<told, failed>> /\ CallOK' /\ call'.on \subseteq Waiting
    BY <1>1, <1>4, <2>1, Asked DEF Reads, Waits, Writes, Splices
  <2> QED
    BY <1>1, <2>2, QuietStep
<1> QED
  BY <1>2, <1>3, <1>4, OutKinds

LEMMA WriteReturnsStep ==
  ASSUME IInv, WriteReturns
  PROVE  IInv'
<1>1. UNCHANGED <<cfg, stdin, expired, offset, permit>> /\ call.op \in Writes
  BY DEF WriteReturns
<1>2. call.len \in Nat /\ Kind("stdout") = "host"
  BY <1>1 DEF IInv, CallOK
<1>3. PICK r \in Results(call.len) : HostWrite(call.len, r) /\ Forward(call.op, "stdout", r)
  BY DEF WriteReturns
<1>4. stdin \in InTypes /\ stdout \in OutTypes /\ r.n \in Nat
      /\ r.status \in {"ok", "closed", "last-operation-failed"}
      /\ (r.status # "ok" => r.n = 0)
  BY <1>2 DEF IInv, TypeOK, InTypes, OutTypes, Results, Result
<1>5. /\ stdout' \in OutTypes
      /\ stdout'.given >= stdout.given
      /\ r.status # "last-operation-failed" => stdout'.given = stdout.given + r.n
  <2>1. CASE r.status = "ok"
    <3> DEFINE m == stdout.room - call.len
               g == stdout.given + call.len
    <3>1. call.len <= stdout.room /\ r.n = call.len
          /\ stdout' = [stdout EXCEPT !.room = m, !.given = g]
      BY <1>3, <2>1 DEF HostWrite
    <3>2. m \in 0..Room /\ g \in Nat /\ g >= stdout.given
      BY <1>2, <1>4, <3>1, SizesAssumption DEF OutTypes
    <3> HIDE DEF m
    <3> QED
      BY <1>4, <3>1, <3>2 DEF OutTypes
  <2>2. CASE r.status = "closed"
    <3>1. stdout' = stdout
      BY <1>3, <2>2 DEF HostWrite
    <3> QED
      BY <1>4, <2>2, <3>1 DEF OutTypes
  <2>3. CASE r.status = "last-operation-failed"
    <3>1. PICK k \in 0..call.len : stdout' = [stdout EXCEPT !.given = @ + k, !.open = FALSE]
      BY <1>3, <2>3 DEF HostWrite
    <3> DEFINE g == stdout.given + k
    <3>2. g \in Nat /\ g >= stdout.given
      BY <1>2, <1>4, <3>1 DEF OutTypes
    <3>3. stdout' = [stdout EXCEPT !.given = g, !.open = FALSE]
      BY <3>1
    <3> HIDE DEF g
    <3> QED
      BY <1>4, <2>3, <3>2, <3>3 DEF OutTypes
  <2> QED
    BY <1>4, <2>1, <2>2, <2>3
<1>6. /\ stdin.taken >= stdin.taken /\ stdin.taken = stdin.taken + 0
      /\ ArrivalOK'
  BY <1>1, <1>4 DEF InTypes, IInv, ArrivalOK
<1> QED
  BY <1>1, <1>2, <1>3, <1>4, <1>5, <1>6, ForwardStep

LEMMA SpliceStep ==
  ASSUME IInv, NEW op \in Splices, NEW s \in Spliced, NEW len \in Lens, Splice(op, s, len)
  PROVE  IInv'
<1>1. UNCHANGED <<cfg, stdin, stdout, expired, offset>> /\ permit' = 0 /\ len \in Nat
      /\ "splice" \in Accounts /\ expired' \in BOOLEAN /\ s \in Inputs
  BY SizesAssumption DEF Splice, host, Accounts, IInv, TypeOK
<1>2. CASE SpliceKind(s) = "null"
  <2>1. Report(op, "splice", "ok", len)
    BY <1>2 DEF Splice
  <2>2. FLAGS_IGNORE # {}
    BY <1>1, <1>2, FileStatic, NullIsIgnored DEF SpliceKind, Inputs, Stdio
  <2> QED
    BY <1>1, <2>1, <2>2, StandInStep
<1>3. CASE SpliceKind(s) = "err"
  <2>1. Report(op, "splice", "closed", 0)
    BY <1>3 DEF Splice
  <2> QED
    BY <1>1, <2>1, StandInStep
<1>4. CASE SpliceKind(s) = "static"
  <2>1. Return(op, {s}, "panic", {})
    BY <1>4 DEF Splice
  <2> QED
    BY <1>1, <2>1, Returned, NoneWaits, QuietStep
<1>5. CASE SpliceKind(s) = "host"
  <2>1. OnHost(op, {s}, {s, "stdout"}, len)
    BY <1>5 DEF Splice
  <2>2. Kind("stdout") = "host" /\ s = "stdin" /\ Kind("stdin") = "host"
    BY <1>1, <1>5, FileStatic DEF SpliceKind, Inputs
  <2>3. {s, "stdout"} \in SUBSET Waiting
    BY <2>2, HostPollables DEF Inputs
  <2>4. UNCHANGED <<told, failed>> /\ CallOK' /\ call'.on \subseteq Waiting
    BY <1>1, <2>1, <2>2, <2>3, Asked DEF Splices
  <2> QED
    BY <1>1, <2>4, QuietStep
<1> QED
  BY <1>2, <1>3, <1>4, <1>5, Kinds DEF SpliceKind

LEMMA SpliceReturnsStep ==
  ASSUME IInv, SpliceReturns
  PROVE  IInv'
<1>1. UNCHANGED <<cfg, expired, offset, permit>> /\ call.op \in Splices
  BY DEF SpliceReturns
<1>2. call.len \in Nat /\ Kind("stdin") = "host" /\ Kind("stdout") = "host"
  BY <1>1 DEF IInv, CallOK
<1>3. PICK r \in Results(call.len) : HostSplice(call.len, r) /\ Forward(call.op, "splice", r)
  BY DEF SpliceReturns
<1>4. stdin \in InTypes /\ stdout \in OutTypes /\ r.n \in Nat
      /\ r.status \in {"ok", "closed", "last-operation-failed"}
      /\ (r.status # "ok" => r.n = 0)
  BY <1>2 DEF IInv, TypeOK, InTypes, OutTypes, Results, Result
\* What a splice does to the two streams: it takes t and gives g.
<1>5. ASSUME NEW t \in Nat, NEW g \in Nat, NEW m \in 0..Room, NEW open \in BOOLEAN,
             t <= stdin.arrived,
             stdin' = [stdin EXCEPT !.arrived = @ - t, !.taken = @ + t],
             stdout' = [stdout EXCEPT !.room = m, !.given = @ + g, !.open = open]
      PROVE  /\ stdin' \in InTypes /\ stdout' \in OutTypes /\ ArrivalOK'
             /\ stdin'.taken = stdin.taken + t /\ stdin'.taken >= stdin.taken
             /\ stdout'.given = stdout.given + g /\ stdout'.given >= stdout.given
  <2> DEFINE a == stdin.arrived - t
             u == stdin.taken + t
             h == stdout.given + g
  <2>1. a \in 0..Incoming /\ u \in Nat /\ h \in Nat /\ a <= stdin.arrived
        /\ u >= stdin.taken /\ h >= stdout.given
    BY <1>4, <1>5, SizesAssumption DEF InTypes, OutTypes
  <2>2. /\ stdin' = [stdin EXCEPT !.arrived = a, !.taken = u]
        /\ stdout' = [stdout EXCEPT !.room = m, !.given = h, !.open = open]
    BY <1>5
  <2> HIDE DEF a
  <2>3. stdin'.arrived = a /\ stdin'.taken = u /\ stdin'.pending = stdin.pending
        /\ stdin' \in InTypes
    BY <1>4, <2>1, <2>2 DEF InTypes
  <2>4. stdout'.given = h /\ stdout' \in OutTypes
    BY <1>4, <2>1, <2>2 DEF OutTypes
  <2>5. ArrivalOK'
    <3>1. stdin.pending \in Nat /\ stdin.arrived \in Nat /\ a \in Nat
          /\ stdin.pending + stdin.arrived <= Incoming
      BY <1>4, <2>1 DEF IInv, ArrivalOK, InTypes
    <3>2. stdin.pending + a <= Incoming
      BY <2>1, <3>1, SizesAssumption
    <3> QED
      BY <2>3, <3>2 DEF ArrivalOK
  <2> QED
    BY <2>1, <2>3, <2>4, <2>5
<1>6. /\ stdin' \in InTypes /\ stdout' \in OutTypes /\ ArrivalOK'
      /\ stdin'.taken >= stdin.taken /\ stdout'.given >= stdout.given
      /\ r.status # "last-operation-failed" =>
           stdin'.taken = stdin.taken + r.n /\ stdout'.given = stdout.given + r.n
  <2>1. CASE r.status = "ok"
    <3> DEFINE m == stdout.room - r.n
    <3>1. /\ r.n <= stdin.arrived /\ r.n <= stdout.room
          /\ stdin' = [stdin EXCEPT !.arrived = @ - r.n, !.taken = @ + r.n]
          /\ stdout' = [stdout EXCEPT !.room = m, !.given = @ + r.n]
      BY <1>3, <2>1 DEF HostSplice
    <3>2. m \in 0..Room
      BY <1>4, <3>1, SizesAssumption DEF OutTypes
    <3> HIDE DEF m
    <3>3. stdout' = [stdout EXCEPT !.room = m, !.given = @ + r.n, !.open = stdout.open]
          /\ stdout.open \in BOOLEAN
      BY <1>4, <3>1 DEF OutTypes
    <3> DEFINE open == stdout.open
    <3>4. stdout' = [stdout EXCEPT !.room = m, !.given = @ + r.n, !.open = open]
          /\ open \in BOOLEAN
      BY <3>3
    <3> HIDE DEF open
    <3>5. /\ stdin' \in InTypes /\ stdout' \in OutTypes /\ ArrivalOK'
          /\ stdin'.taken = stdin.taken + r.n /\ stdin'.taken >= stdin.taken
          /\ stdout'.given = stdout.given + r.n /\ stdout'.given >= stdout.given
      BY <1>4, <1>5, <3>1, <3>2, <3>4
    <3> QED
      BY <3>5
  <2>2. CASE r.status = "closed"
    <3>1. stdin' = stdin /\ stdout' = stdout
      BY <1>3, <2>2 DEF HostSplice
    <3> QED
      BY <1>4, <2>2, <3>1 DEF IInv, ArrivalOK, InTypes, OutTypes
  <2>3. CASE r.status = "last-operation-failed"
    <3>1. PICK k \in 0..Smaller(call.len, stdin.arrived) : \E j \in 0..k :
            /\ stdin' = [stdin EXCEPT !.arrived = @ - k, !.taken = @ + k]
            /\ stdout' = [stdout EXCEPT !.given = @ + j, !.open = FALSE]
      BY <1>3, <2>3 DEF HostSplice
    <3>2. PICK j \in 0..k :
            /\ stdin' = [stdin EXCEPT !.arrived = @ - k, !.taken = @ + k]
            /\ stdout' = [stdout EXCEPT !.given = @ + j, !.open = FALSE]
      BY <3>1
    <3>3. k \in Nat /\ j \in Nat /\ k <= stdin.arrived
      BY <1>2, <1>4, <3>1, <3>2 DEF Smaller, InTypes
    <3>4. stdout' = [stdout EXCEPT !.room = stdout.room, !.given = @ + j, !.open = FALSE]
          /\ stdout.room \in 0..Room
      BY <1>4, <3>2 DEF OutTypes
    <3> QED
      BY <1>5, <2>3, <3>2, <3>3, <3>4
  <2> QED
    BY <1>4, <2>1, <2>2, <2>3
<1> QED
  BY <1>1, <1>2, <1>3, <1>4, <1>6, ForwardStep

LEMMA HostStep ==
  ASSUME IInv, HostSteps
  PROVE  IInv'
<1>1. UNCHANGED <<cfg, offset, permit, call, answer, told, failed>>
  BY DEF HostSteps, Arrive, HangUp, Drain, Close, Expire, guest
<1>2. (\A s : Kind(s)' = Kind(s)) /\ Waiting' = Waiting /\ FLAGS_IGNORE' = FLAGS_IGNORE
  BY <1>1, KindsKept
<1>3. stdin \in InTypes /\ stdout \in OutTypes
  BY DEF IInv, TypeOK, InTypes, OutTypes
<1>4. stdin' \in InTypes /\ ArrivalOK' /\ stdin'.taken = stdin.taken
  <2>1. CASE Arrive
    <3> DEFINE p == stdin.pending - 1
               a == stdin.arrived + 1
    <3>1. stdin.pending > 0 /\ stdin' = [stdin EXCEPT !.pending = p, !.arrived = a]
      BY <2>1 DEF Arrive
    <3>2. p \in 0..Incoming /\ a \in 0..Incoming /\ p + a = stdin.pending + stdin.arrived
      BY <1>3, <3>1, SizesAssumption DEF IInv, ArrivalOK, InTypes
    <3> HIDE DEF p, a
    <3>3. stdin'.pending = p /\ stdin'.arrived = a /\ stdin' \in InTypes
          /\ stdin'.taken = stdin.taken
      BY <1>3, <3>1, <3>2 DEF InTypes
    <3> QED
      BY <3>2, <3>3 DEF IInv, ArrivalOK
  <2>2. CASE HangUp
    BY <1>3, <2>2 DEF HangUp, IInv, ArrivalOK, InTypes
  <2>3. CASE Drain \/ Close \/ Expire
    BY <1>3, <2>3 DEF Drain, Close, Expire, IInv, ArrivalOK
  <2> QED
    BY <2>1, <2>2, <2>3 DEF HostSteps
<1>5. stdout' \in OutTypes /\ stdout'.given = stdout.given
  <2>1. CASE Drain
    BY <1>3, <2>1, SizesAssumption DEF Drain, OutTypes
  <2>2. CASE Close
    BY <1>3, <2>2 DEF Close, OutTypes
  <2>3. CASE Arrive \/ HangUp \/ Expire
    BY <1>3, <2>3 DEF Arrive, HangUp, Expire
  <2> QED
    BY <2>1, <2>2, <2>3 DEF HostSteps
<1>6. expired' \in BOOLEAN
  BY DEF HostSteps, Arrive, HangUp, Drain, Close, Expire, IInv, TypeOK
<1>7. TypeOK'
  BY <1>1, <1>2, <1>4, <1>5, <1>6 DEF IInv, TypeOK, Waiting, InTypes, OutTypes
<1>8. Conserved' /\ Isolated'
  BY <1>1, <1>2, <1>4, <1>5 DEF IInv, Conserved, Isolated, Moved
<1>9. CallOK'
  BY <1>1, <1>2 DEF IInv, CallOK
<1> QED
  BY <1>4, <1>7, <1>8, <1>9 DEF IInv

-----------------------------------------------------------------------------
LEMMA InitIInv == Init => IInv
<1> SUFFICES ASSUME Init PROVE IInv
  OBVIOUS
<1>1. TypeOK
  <2>1. stdin \in [pending : 0..Incoming, arrived : 0..Incoming, taken : Nat, open : BOOLEAN]
    BY SizesAssumption DEF Init
  <2>2. stdout \in [room : 0..Room, given : Nat, open : BOOLEAN]
    BY SizesAssumption DEF Init
  <2>3. told \in [Accounts -> Nat]
    BY DEF Init
  <2>4. call.on = {}
    BY DEF Init, NoCall
  <2>5. cfg \in Configs /\ expired \in BOOLEAN /\ failed \in BOOLEAN
    BY Zenon DEF Init
  <2>6. permit \in Nat /\ offset \in 0..FileSize
    BY SizesAssumption DEF Init
  <2> QED
    BY <2>1, <2>2, <2>3, <2>4, <2>5, <2>6 DEF TypeOK
<1>2. Conserved /\ Isolated
  <2>1. \A a \in {"stdin", "stdout", "splice", "file"} : told[a] = 0
    BY DEF Init, Accounts, Inputs
  <2>2. stdin.taken = 0 /\ stdout.given = 0 /\ offset = 0
    BY DEF Init
  <2>3. Moved = [in |-> 0, out |-> 0]
    BY <2>1 DEF Moved
  <2> QED
    BY <2>1, <2>2, <2>3 DEF Conserved, Isolated
<1>3. CallOK /\ ArrivalOK
  <2>1. call = NoCall /\ stdin.pending = Incoming /\ stdin.arrived = 0
    BY DEF Init
  <2> QED
    BY <2>1, SizesAssumption DEF CallOK, ArrivalOK, NoCall, Reads, Waits, Writes, Splices
<1> QED
  BY <1>1, <1>2, <1>3 DEF IInv

LEMMA StepIInv == IInv /\ [Next]_vars => IInv'
<1> SUFFICES ASSUME IInv, [Next]_vars PROVE IInv'
  OBVIOUS
<1>1. CASE UNCHANGED vars
  <2>1. UNCHANGED <<cfg, stdin, stdout, expired, offset, permit, call, told, failed>>
    BY <1>1 DEF vars, host, guest
  <2>2. CallOK' /\ call'.on \subseteq Waiting
    BY <2>1, KindsKept DEF IInv, CallOK, TypeOK, Waiting
  <2> QED
    BY <2>1, <2>2, QuietStep DEF IInv, TypeOK
<1>2. CASE Guest
  BY <1>2, PollStep, PollableStep, AnsweredStep, InputStep, CheckWriteStep, WriteStep,
     SpliceStep DEF Guest
<1>3. CASE Returns
  BY <1>3, AnsweredStep, InputReturnsStep, WriteReturnsStep, SpliceReturnsStep DEF Returns
<1>4. CASE HostSteps
  BY <1>4, HostStep
<1> QED
  BY <1>1, <1>2, <1>3, <1>4 DEF Next

LEMMA Invariance == Spec => []IInv
BY InitIInv, StepIInv, PTL DEF Spec

-----------------------------------------------------------------------------

\* The state has its types, and a call waits only on what is the host's.
THEOREM TypeCorrect == Spec => []TypeOK
BY Invariance, PTL DEF IInv

\* Whatever the streams are, whatever the guest calls and however the host answers,
\* what the guest is told adds up to what the host's streams moved, but for splices
\* with ignored streams and for operations that failed.
THEOREM Conservation == Spec => []Conserved
BY Invariance, PTL DEF IInv

\* No byte of a standard stream that the configuration denies or ignores is moved.
THEOREM Isolation == Spec => []Isolated
BY Invariance, PTL DEF IInv

(***************************************************************************)
(* What a step answers.                                                    *)
(***************************************************************************)
Answers(op) == answer' = answer \/ (answer'.op = op /\ answer'.status # "panic")

LEMMA AnswersItself ==
  ASSUME NEW op, NEW on, NEW status, NEW n,
         Return(op, on, status, n) \/ Report(op, on, status, n),
         status # "panic"
  PROVE  Answers(op)
BY DEF Return, Report, Reply, Answers

LEMMA AnswersHost ==
  ASSUME NEW op, NEW on, NEW r, Forward(op, on, r)
  PROVE  Answers(op)
<1>1. stream_err_map(r.status) # "panic"
  BY DEF stream_err_map
<1> QED
  BY <1>1, AnswersItself DEF Forward

LEMMA AnswersWaiting ==
  ASSUME NEW op, NEW for, NEW on, NEW len, OnHost(op, for, on, len)
  PROVE  \/ answer' = answer
         \/ IoStubbed /\ answer'.op = op /\ answer'.for = for /\ answer'.status = "panic"
BY DEF OnHost, Return, Reply, Wait

LEMMA Stubbed ==
  ASSUME IoStubbed \/ disable_stdio, cfg \in Configs
  PROVE  /\ \A s \in Stdio : cfg.stdio[s] # "allow"
         /\ \A s \in Sources : Kind(s) # "host"
         /\ IoStubbed => ~cfg.fs_passthrough
<1>1. disable_stdio
  BY DEF IoStubbed
<1>2. \A s \in Stdio : cfg.stdio[s] # "allow"
  BY <1>1 DEF disable_stdio, FLAGS_ENABLE
<1>3. \A s \in Sources : Kind(s) # "host"
  BY <1>1 DEF disable_stdio, Kind, Wrapper
<1> QED
  BY <1>2, <1>3 DEF IoStubbed

(***************************************************************************)
(* The streams never answer with a panic of a stub, nor for poll.          *)
(***************************************************************************)
LEMMA StreamAnswers ==
  ASSUME cfg \in Configs,
         \/ \E op \in Reads, s \in Inputs, len \in Lens : Input(op, s, len)
         \/ CheckWrite
         \/ \E op \in Writes, n \in Lens : Write(op, n)
         \/ InputReturns \/ CheckWriteReturns \/ WriteReturns \/ SpliceReturns
  PROVE  \E op : op # "poll" /\ Answers(op)
<1>1. ASSUME NEW op \in Reads, NEW s \in Inputs, NEW len \in Lens, Input(op, s, len)
      PROVE  Answers(op) /\ op # "poll"
  <2>0. op # "poll"
    BY DEF Reads, Waits
  <2>1. CASE Kind(s) \in {"null", "err"}
    BY <1>1, <2>0, <2>1, AnswersItself DEF Input
  <2>2. CASE Kind(s) = "static" /\ op \in Skips
    BY <1>1, <2>0, <2>2, AnswersItself DEF Input
  <2>3. CASE Kind(s) = "static" /\ op \notin Skips
    BY <1>1, <2>0, <2>3, AnswersItself DEF Input, StaticRead
  <2>4. CASE Kind(s) = "host"
    <3>1. ~IoStubbed
      BY <2>4, Stubbed DEF Sources
    <3> QED
      BY <1>1, <2>0, <2>4, <3>1, AnswersWaiting DEF Input, Answers
  <2> QED
    BY <2>1, <2>2, <2>3, <2>4, Kinds
<1>2. Kind("stdout") = "host" => ~IoStubbed
  BY Stubbed DEF Sources
<1>3. ASSUME CheckWrite PROVE Answers("check-write")
  BY <1>2, <1>3, AnswersItself, AnswersWaiting, OutKinds DEF CheckWrite, Answers
<1>4. ASSUME NEW op \in Writes, NEW n \in Lens, Write(op, n)
      PROVE  Answers(op) /\ op # "poll"
  <2>1. CASE Kind("stdout") = "host"
    BY <1>2, <1>4, <2>1, AnswersWaiting DEF Write, Writes, Answers
  <2>2. CASE Kind("stdout") # "host"
    BY <1>4, <2>2, AnswersItself, OutKinds DEF Write, Writes
  <2> QED
    BY <2>1, <2>2
<1>5. ASSUME CheckWriteReturns PROVE Answers("check-write")
  BY <1>5, AnswersItself DEF CheckWriteReturns
<1>6. ASSUME InputReturns \/ WriteReturns \/ SpliceReturns
      PROVE  Answers(call.op) /\ call.op # "poll"
  BY <1>6, AnswersHost
     DEF InputReturns, WriteReturns, SpliceReturns, Reads, Waits, Writes, Splices
<1> QED
  BY <1>1, <1>3, <1>4, <1>5, <1>6

LEMMA SpliceAnswers ==
  ASSUME cfg \in Configs, NEW op \in Splices, NEW s \in Spliced, NEW len \in Lens,
         Splice(op, s, len)
  PROVE  /\ answer' = answer \/ answer'.op = op
         /\ \/ Answers(op)
            \/ answer'.for = {"file"} /\ cfg.stdio["stdout"] = "allow"
<1>1. s \in Inputs
  BY SizesAssumption
<1>2. CASE SpliceKind(s) \in {"null", "err"}
  BY <1>2, AnswersItself DEF Splice, Answers
<1>3. CASE SpliceKind(s) = "static"
  <2>1. Kind("stdout") = "host" /\ s = "file"
    BY <1>1, <1>3, OutKinds DEF SpliceKind, Kind, Wrapper, Inputs
  <2> QED
    BY <1>3, <2>1, HostIsAllowed DEF Splice, Return, Reply, Stdio
<1>4. CASE SpliceKind(s) = "host"
  <2>1. Kind("stdout") = "host"
    BY <1>4 DEF SpliceKind
  <2>2. ~IoStubbed
    BY <2>1, Stubbed DEF Sources
  <2> QED
    BY <1>4, <2>2, AnswersWaiting DEF Splice, Answers
<1> QED
  BY <1>2, <1>3, <1>4, Kinds DEF SpliceKind

LEMMA PollableAnswers ==
  ASSUME NEW p \in Sources, Block(p) \/ IsReady(p)
  PROVE  /\ answer' = answer \/ answer'.op \in {"block", "ready"}
         /\ \/ answer' = answer \/ answer'.status # "panic"
            \/ IoStubbed /\ answer'.for = {p} /\ PollableKind(p) # "null"
<1>1. CASE PollableKind(p) = "null"
  BY <1>1, AnswersItself DEF Block, IsReady, Answers
<1>2. CASE PollableKind(p) # "null"
  BY <1>2, AnswersWaiting DEF Block, IsReady
<1> QED
  BY <1>1, <1>2

\* Whatever is polled with whatever stand-ins among it, an answer is not empty
\* and names everything that is ready at that moment.
THEOREM PollMissesNothing == Spec => PollComplete
<1>1. IInv /\ [Next]_vars =>
        [answer' # answer /\ answer'.op = "poll" /\ answer'.status = "ok" =>
           /\ answer'.ready # {}
           /\ ReadyOf(answer'.for) \subseteq answer'.ready]_vars
  <2> SUFFICES ASSUME IInv, Next, answer' # answer,
                      answer'.op = "poll", answer'.status = "ok"
               PROVE  /\ answer'.ready # {}
                      /\ ReadyOf(answer'.for) \subseteq answer'.ready
    BY DEF vars
  <2>0. cfg \in Configs
    BY DEF IInv, TypeOK
  <2>1. CASE \E list \in Lists : Poll(list)
    <3>1. PICK list \in Lists : Poll(list)
      BY <2>1
    <3>2. Polled(list) # {} /\ answer'.for = list /\ answer'.ready = list
      BY <3>1 DEF Poll, OnHost, Return, Reply, Wait, Answered
    <3> QED
      BY <3>2 DEF Polled, ReadyOf
  <2>2. CASE PollReturns
    <3>1. call.on # {} /\ ReadyOf(call.on) # {}
          /\ answer'.for = call.for /\ answer'.ready = ReadyOf(call.on)
      BY <2>2 DEF PollReturns, Return, Reply
    <3>2. call.on = call.for
      BY <2>2 DEF IInv, CallOK, PollReturns
    <3> QED
      BY <3>1, <3>2
  <2>3. CASE \E p \in Sources : Block(p) \/ IsReady(p)
    BY <2>3, PollableAnswers
  <2>4. CASE \E op \in Splices, s \in Spliced, len \in Lens : Splice(op, s, len)
    BY <2>0, <2>4, SpliceAnswers DEF Splices
  <2>5. CASE (\E s \in Terminals : GetTerminal(s)) \/ BlockReturns \/ IsReadyReturns
    BY <2>5 DEF GetTerminal, BlockReturns, IsReadyReturns, Return, Reply
  <2>6. CASE HostSteps
    BY <2>6 DEF HostSteps, Arrive, HangUp, Drain, Close, Expire, guest
  <2>7. CASE ~(\E list \in Lists : Poll(list)) /\ ~PollReturns /\ ~HostSteps
             /\ ~(\E p \in Sources : Block(p) \/ IsReady(p))
             /\ ~(\E op \in Splices, s \in Spliced, len \in Lens : Splice(op, s, len))
             /\ ~(\E s \in Terminals : GetTerminal(s)) /\ ~BlockReturns /\ ~IsReadyReturns
    <3>1. \E op : op # "poll" /\ Answers(op)
      BY <2>0, <2>7, StreamAnswers DEF Next, Guest, Returns
    <3> QED
      BY <3>1 DEF Answers
  <2> QED
    BY <2>1, <2>2, <2>3, <2>4, <2>5, <2>6, <2>7
<1> QED
  BY <1>1, Invariance, PTL DEF Spec, PollComplete

(***************************************************************************)
(* Panics.                                                                 *)
(***************************************************************************)
LEMMA PanicStep ==
  ASSUME cfg \in Configs, Next, answer' # answer, answer'.status = "panic"
  PROVE  PanicsForACause'
<1>1. cfg' = cfg
  BY DEF Next, Guest, Returns, HostSteps, Poll, Block, IsReady, Input, CheckWrite, Write,
         Splice, GetTerminal, PollReturns, BlockReturns, IsReadyReturns, InputReturns,
         CheckWriteReturns, WriteReturns, SpliceReturns, Arrive, HangUp, Drain, Close, Expire
<1>2. ASSUME NEW list \in Lists, Poll(list) PROVE PanicsForACause'
  <2>1. CASE Polled(list) # {}
    BY <1>2, <2>1 DEF Poll, Return, Reply
  <2>2. CASE Polled(list) = {}
    <3>1. IoStubbed /\ answer'.op = "poll" /\ answer'.for = list
      BY <1>2, <2>2, AnswersWaiting DEF Poll
    <3>2. list \subseteq {"timer"}
      BY <2>2, <3>1, SizesAssumption, Stubbed DEF Polled, PollableKind
    <3> QED
      BY <1>1, <3>1, <3>2, Stubbed DEF PanicsForACause
  <2> QED
    BY <2>1, <2>2
<1>3. ASSUME NEW p \in Sources, Block(p) \/ IsReady(p) PROVE PanicsForACause'
  <2>1. IoStubbed /\ answer'.op \in {"block", "ready"} /\ answer'.for = {p}
        /\ PollableKind(p) # "null"
    BY <1>3, PollableAnswers
  <2>2. p = "timer"
    BY <2>1, Stubbed DEF PollableKind
  <2> QED
    BY <1>1, <2>1, <2>2, Stubbed DEF PanicsForACause
<1>4. ASSUME NEW op \in Splices, NEW s \in Spliced, NEW len \in Lens, Splice(op, s, len)
      PROVE  PanicsForACause'
  BY <1>1, <1>4, SpliceAnswers DEF PanicsForACause, Answers
<1>5. ASSUME NEW s \in Terminals, GetTerminal(s) PROVE PanicsForACause'
  <2>1. disable_stdio /\ answer'.op = "get-terminal"
    BY <1>5 DEF GetTerminal, Return, Reply
  <2> QED
    BY <1>1, <2>1, Stubbed DEF PanicsForACause
<1>6. CASE PollReturns \/ BlockReturns \/ IsReadyReturns
  BY <1>6 DEF PollReturns, BlockReturns, IsReadyReturns, Return, Reply
<1>7. CASE HostSteps
  BY <1>7 DEF HostSteps, Arrive, HangUp, Drain, Close, Expire, guest
<1>8. CASE \/ \E op \in Reads, s \in Inputs, len \in Lens : Input(op, s, len)
           \/ CheckWrite
           \/ \E op \in Writes, n \in Lens : Write(op, n)
           \/ InputReturns \/ CheckWriteReturns \/ WriteReturns \/ SpliceReturns
  BY <1>8, StreamAnswers DEF Answers
<1> QED
  BY <1>2, <1>3, <1>4, <1>5, <1>6, <1>7, <1>8 DEF Next, Guest, Returns

\* For every configuration and whatever the guest calls: the streams never meet a
\* stub, and the three ways to panic that PanicsForACause lists are all there are.
THEOREM PanicsAreKnown == Spec => []PanicsForACause
<1>1. Init => PanicsForACause
  BY DEF Init, PanicsForACause
<1>2. IInv /\ PanicsForACause /\ [Next]_vars => PanicsForACause'
  <2> SUFFICES ASSUME IInv, PanicsForACause, [Next]_vars PROVE PanicsForACause'
    OBVIOUS
  <2>1. cfg \in Configs
    BY DEF IInv, TypeOK
  <2>2. cfg' = cfg
    BY DEF Next, Guest, Returns, HostSteps, Poll, Block, IsReady, Input, CheckWrite, Write,
           Splice, GetTerminal, PollReturns, BlockReturns, IsReadyReturns, InputReturns,
           CheckWriteReturns, WriteReturns, SpliceReturns, Arrive, HangUp, Drain, Close,
           Expire, vars
  <2>3. CASE answer' = answer
    BY <2>2, <2>3 DEF PanicsForACause
  <2>4. CASE answer' # answer /\ Next /\ answer'.status = "panic"
    BY <2>1, <2>4, PanicStep
  <2>5. CASE answer'.status # "panic"
    BY <2>5 DEF PanicsForACause
  <2> QED
    BY <2>3, <2>4, <2>5 DEF vars, guest
<1> QED
  BY <1>1, <1>2, Invariance, PTL DEF Spec

=============================================================================
