--------------------------- MODULE MCHostWrappers ---------------------------
(***************************************************************************)
(* HostWrappers with up to three resources alive at a time: a body with    *)
(* its stream and the stream's pollable, a body finished with trailers     *)
(* while another resource lives, a parent with its child beside another    *)
(* parent.  The handles of either side are interchangeable, and no call    *)
(* depends on what the last one answered, so that states which differ in   *)
(* nothing else are the same; the answers are compared step by step.       *)
(***************************************************************************)
EXTENDS HostWrappers, TLC

MCMethods == {[variant |-> "Get", payload |-> "none"],
              [variant |-> "Other", payload |-> "PURGE"]}
MCCodes == {[variant |-> "InternalError", payload |-> "why"]}
MCSymmetry ==
  {p @@ q : p \in Permutations(HostHandle), q \in Permutations(GuestHandle)}
MCView == <<host, wrapped, trapped>>

=============================================================================
