------------------------------ MODULE HttpHost ------------------------------
(***************************************************************************)
(* A component that uses wasi:http of its host without an adapter between  *)
(* them: it calls whatever it holds the handles for, in any order.  This   *)
(* is what HostWrappers promises a guest that uses it through the adapter. *)
(***************************************************************************)
EXTENDS HttpResources

CONSTANT Handle

VARIABLES
  own,       (* the component's handles                                     *)
  answer,    (* the last call's result                                      *)
  wire,      (* what it put on the wire                                     *)
  trapped    (* a call has trapped                                          *)

vars == <<own, answer, wire, trapped>>

Of(kinds) == {h \in DOMAIN own : own[h].kind \in kinds}

Comes(outcomes) ==
  \E o \in outcomes :
    /\ own' = o.own
    /\ answer' = [ret |-> o.ret, val |-> o.val, new |-> o.new]
    /\ wire' = o.wire
    /\ trapped' = o.trap

Init ==
  /\ own = [h \in {} |-> Nil]
  /\ answer = [ret |-> "ok", val |-> Nil, new |-> None]
  /\ wire = Quiet
  /\ trapped = FALSE

Call ==
  \/ \E kind \in {"fields", "request-options", "resolve-address-stream"} :
       Comes(Constructing(own, Handle, kind))
  \/ \E op \in DOMAIN Makes : \E h \in Of(Makes[op].from) :
       Comes(Making(own, Handle, op, h))
  \/ \E op \in DOMAIN Eats : \E args \in Arguments(own, op) :
       Comes(Eating(own, Handle, op, args))
  \/ \E h \in Of({"fields"}), v \in Values : Comes(Setting(own, h, v))
  \/ \E h \in Of({"request-options"}), v \in Values :
       Comes(Amending(own, h, "timeout", v))
  \/ \E h \in Of({"outgoing-request"}), m \in Methods :
       Comes(Amending(own, h, "method", m))
  \/ \E h \in Of({"outgoing-response"}), v \in Values :
       Comes(Amending(own, h, "status", v))
  \/ \E h \in Of({"fields", "outgoing-request", "request-options",
                  "incoming-response", "outgoing-response"}) :
       Comes(Reading(own, h))
  \/ \E h \in Of({"input-stream", "output-stream"}) :
       Comes(Operating(own, Handle, h))
  \/ \E h \in Of({"resolve-address-stream"}) : Comes(Resolving(own))
  \/ \E h \in Of({"error"}) : Comes(HttpErrorCode(own, h))
  \/ \E h \in DOMAIN own : Comes(Dropping(own, h))

Next == ~trapped /\ Call

Spec == Init /\ [][Next]_vars

=============================================================================
