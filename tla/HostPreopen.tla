---------------------------- MODULE HostPreopen ----------------------------
(***************************************************************************)
(* The loop of IoState::get_host_preopen over host_preopen_directories, a  *)
(* map ordered by name, one preopen per step.  It serves every operation   *)
(* on a RuntimeDir or RuntimeFile entry: a wrong match hands the guest     *)
(* another host directory than the one configured.                         *)
(***************************************************************************)
EXTENDS HostPath, FiniteSets

CONSTANTS
  Names,      (* the names the host may give its preopens                  *)
  HostPaths,  (* the host paths configured for runtime entries             *)
  MaxPreopens (* bound: preopens of one host                               *)

VARIABLES
  preopens,   (* the keys of host_preopen_directories                      *)
  tried,      (* those the loop has skipped                                *)
  path,       (* the path looked up                                        *)
  matched,    (* the preopen returned, once there is one                   *)
  outcome     (* "searching", "found", "none" or "panic", and the rest     *)

vars == <<preopens, tried, path, matched, outcome>>

\* What the lookup is for; see PlainName and PlainPath.
PlainLookups ==
  /\ Names \subseteq Path /\ \A name \in Names : PlainName(name)
  /\ HostPaths \subseteq Path /\ \A p \in HostPaths : PlainPath(p)

Searching == [kind |-> "searching", rest |-> <<>>]
None == [kind |-> "none", rest |-> <<>>]

IsNext(name) ==
  /\ name \in preopens \ tried
  /\ \A m \in preopens \ tried : m = name \/ Before(name, m)

TryPreopen ==
  /\ outcome = Searching
  /\ \E name \in preopens :
       /\ IsNext(name)
       /\ LET result == Try(name, path)
          IN  IF result.kind = "skip"
              THEN tried' = tried \cup {name} /\ UNCHANGED <<matched, outcome>>
              ELSE outcome' = result /\ matched' = name /\ UNCHANGED tried
  /\ UNCHANGED <<preopens, path>>

Exhausted ==
  /\ outcome = Searching
  /\ tried = preopens
  /\ outcome' = None
  /\ UNCHANGED <<preopens, tried, path, matched>>

Init ==
  /\ preopens \in {names \in SUBSET Names : Cardinality(names) <= MaxPreopens}
  /\ tried = {}
  /\ path \in HostPaths
  /\ matched = <<>>
  /\ outcome = Searching

Next == TryPreopen \/ Exhausted

Spec == Init /\ [][Next]_vars

-----------------------------------------------------------------------------
(***************************************************************************)
(* Properties.                                                             *)
(***************************************************************************)

\* A match is right: the preopen's name followed by the rest denotes the path
\* that was looked up, so that the host opens what the configuration named; and
\* it is the first by name, whatever the order the host lists its preopens in.
MatchSound ==
  outcome.kind = "found" =>
    /\ matched = GetHostPreopen(preopens, path)
    /\ Absolute(matched) = Absolute(path)
    /\ Components(path) = Components(matched) \o Components(outcome.rest)

\* The one thing that makes the lookup panic is a path of which nothing is left
\* ("./", or none) where the host has its current directory among its preopens;
\* and that always does, whatever other preopens there are.
PanicsForACause ==
  outcome # Searching =>
    (outcome.kind = "panic" <=>
       /\ Bare(path)
       /\ \E name \in preopens : ~Absolute(name) /\ Components(name) = <<>>)

\* A runtime entry is reported missing only if no preopen of the host holds it.
NoneMeansNone ==
  outcome.kind = "none" =>
    \A name \in preopens :
      Absolute(name) = Absolute(path) =>
        ~StartsWith(Components(path), Components(name))

=============================================================================
