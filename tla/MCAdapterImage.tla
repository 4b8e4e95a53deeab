-------------------------- MODULE MCAdapterImage --------------------------
(***************************************************************************)
(* AdapterImage on a small instance: a name of one byte and a host path of *)
(* two, files of 0, 3 and 5 bytes in the data section and of 9 in a        *)
(* passive segment, so that the pointer takes every residue modulo 4 and   *)
(* 8.  The adapter is laid out as the released ones are: read-only data at *)
(* the end of the stack, then the data with config first, env next, and io *)
(* four bytes behind its end.                                              *)
(***************************************************************************)
EXTENDS AdapterImage, TLC

MCStrLen == [s \in Strings |-> IF s = "a" THEN 1 ELSE 2]

MCOwnSegments ==
  << [what |-> "own", lo |-> 64, len |-> 8, word |-> <<>>],
     [what |-> "own", lo |-> 72, len |-> 36,
      word |-> (HostFallback(72) :> 1) @@ (HostFallback(88) :> 1)] >>

MCEnvOptions ==
  {[host |-> "all", cnt |-> 0, list |-> 0],
   [host |-> "none", cnt |-> 1, list |-> 0],
   [host |-> "allow", cnt |-> 0, list |-> 2],
   [host |-> "deny", cnt |-> 0, list |-> 1]}

MCConfigOptions ==
  {[host |-> "all", cnt |-> 1, list |-> 0],
   [host |-> "allow", cnt |-> 0, list |-> 0]}

=============================================================================
