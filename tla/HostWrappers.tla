---------------------------- MODULE HostWrappers ----------------------------
(***************************************************************************)
(* wasi:http and name lookup as the virtual adapter passes them through,   *)
(* virtual-adapter/src/io.rs: each resource the guest holds is a struct of *)
(* the adapter around one handle of the host, HttpFields(http_types::      *)
(* Fields) and so on.  A method calls the host's on the handle within and  *)
(* wraps what it returns; a function that takes a resource for good opens  *)
(* the wrapper (into_inner) and gives the handle within away; dropping the *)
(* wrapper drops the handle.                                               *)
(*                                                                         *)
(* Requests that come in, response-outparams and sockets are left out: the *)
(* adapter has methods for them, but nothing in it ever makes one.         *)
(*                                                                         *)
(* One action per impl of the source.  The handles of the guest and those  *)
(* of the adapter are numbered on their own.                               *)
(***************************************************************************)
EXTENDS HttpResources

CONSTANTS
  GuestHandle,   (* bound: the resources that live at the same time,        *)
  HostHandle     (* as the guest and as the adapter number them             *)

ASSUME HandlesAssumption ==
  None \notin GuestHandle \cup HostHandle

\* A variant and its payload is all there is to a method or an error code.
ASSUME MessagesAssumption ==
  /\ Methods # {}
  /\ \A m \in Methods \cup Codes : m = [variant |-> m.variant, payload |-> m.payload]

VARIABLES
  host,      (* the adapter's handles                                       *)
  wrapped,   (* the guest's: the handle within each                         *)
  answer,    (* the last call's result, as the guest sees it                *)
  wire,      (* what the host put on the wire                               *)
  trapped

vars == <<host, wrapped, answer, wire, trapped>>

Of(kinds) == {g \in DOMAIN wrapped : host[wrapped[g]].kind \in kinds}

(***************************************************************************)
(* The enums of the imported interface and those of the exported one have  *)
(* the same variants; each goes to its namesake, with its payload.         *)
(***************************************************************************)
http_err_map_rev(e) == [variant |-> e.variant, payload |-> e.payload]

method_map(m) == [variant |-> m.variant, payload |-> m.payload]
method_map_rev(m) == [variant |-> m.variant, payload |-> m.payload]

header_err_map_rev(e) ==
  CASE e = "invalid-syntax" -> "invalid-syntax"
    [] e = "forbidden" -> "forbidden"
    [] e = "immutable" -> "immutable"

\* What a result carries, error codes and methods renamed.
Renamed(val) ==
  CASE "code" \in DOMAIN val -> [code |-> http_err_map_rev(val.code)]
    [] "method" \in DOMAIN val -> [val EXCEPT !.method = method_map_rev(@)]
    [] OTHER -> val
RenamedRet(ret) ==
  IF ret \in HeaderErrors \cup {"immutable"} THEN header_err_map_rev(ret) ELSE ret

(***************************************************************************)
(* A call reaches the host with the handles within; the guest's handles    *)
(* given are gone with it, and what it returns is wrapped anew.            *)
(***************************************************************************)
\* The guest's handles once a call has taken some and returned the host's new
\* one, if any, as g.
Rewrapped(given, new, g) ==
  LET rest == Without(wrapped, given)
  IN  IF new = None THEN rest ELSE With(rest, g, new)

Free(given, new) ==
  IF new = None THEN {None} ELSE GuestHandle \ (DOMAIN wrapped \ given)

Comes(outcomes, given) ==
  \E o \in outcomes : \E g \in Free(given, o.new) :
    /\ host' = o.own
    /\ wrapped' = IF o.trap THEN wrapped ELSE Rewrapped(given, o.new, g)
    /\ answer' = [ret |-> RenamedRet(o.ret), val |-> Renamed(o.val), new |-> g]
    /\ wire' = o.wire
    /\ trapped' = o.trap

New(kind) == Comes(Constructing(host, HostHandle, kind), {})

Forward(op, g) == Comes(Making(host, HostHandle, op, wrapped[g]), {})

\* The handles within are the host's from now on.
IntoInner(op, gs) ==
  Comes(Eating(host, HostHandle, op, [i \in DOMAIN gs |-> wrapped[gs[i]]]),
        {gs[i] : i \in DOMAIN gs})

\* The wrappers an into_inner function can be called with.
Given(op) ==
  LET seen == [g \in DOMAIN wrapped |-> host[wrapped[g]]]
  IN  Arguments(seen, op)

-----------------------------------------------------------------------------
(***************************************************************************)
(* The impls.                                                              *)
(***************************************************************************)
Handle ==
  \E gs \in Given("handle") : IntoInner("handle", gs)

RequestOptions ==
  \/ New("request-options")
  \/ \E g \in Of({"request-options"}) :
       \/ Comes(Reading(host, wrapped[g]), {})
       \/ \E v \in Values : Comes(Amending(host, wrapped[g], "timeout", v), {})

Fields ==
  \/ New("fields")
  \/ \E g \in Of({"fields"}) :
       \/ Forward("clone", g)
       \/ Comes(Reading(host, wrapped[g]), {})
       \/ \E v \in Values : Comes(Setting(host, wrapped[g], v), {})

OutgoingRequest ==
  \/ \E gs \in Given("new_request") : IntoInner("new_request", gs)
  \/ \E g \in Of({"outgoing-request"}) :
       \/ Forward("body", g) \/ Forward("headers", g)
       \/ Comes(Reading(host, wrapped[g]), {})
       \/ \E m \in Methods :
            Comes(Amending(host, wrapped[g], "method", method_map(m)), {})

IncomingResponse ==
  \E g \in Of({"incoming-response"}) :
    \/ Forward("headers", g) \/ Forward("consume", g)
    \/ Comes(Reading(host, wrapped[g]), {})

IncomingBody ==
  \/ \E g \in Of({"incoming-body"}) : Forward("stream", g)
  \/ \E gs \in Given("finish_incoming") : IntoInner("finish_incoming", gs)

FutureTrailers ==
  \E g \in Of({"future-trailers"}) :
    Forward("subscribe", g) \/ Forward("get_trailers", g)

OutgoingResponse ==
  \/ \E gs \in Given("new_response") : IntoInner("new_response", gs)
  \/ \E g \in Of({"outgoing-response"}) :
       \/ Forward("headers", g) \/ Forward("body", g)
       \/ Comes(Reading(host, wrapped[g]), {})
       \/ \E v \in Values : Comes(Amending(host, wrapped[g], "status", v), {})

\* Mutant: the trailers are dropped, not passed on.
OutgoingBodyNoTrailers ==
  \/ \E g \in Of({"outgoing-body"}) : Forward("write", g)
  \/ \E gs \in Given("finish_outgoing") :
       Comes(Eating(host, HostHandle, "finish_outgoing", <<wrapped[gs[1]]>>),
             {gs[i] : i \in DOMAIN gs})

OutgoingBody ==
  \/ \E g \in Of({"outgoing-body"}) : Forward("write", g)
  \/ \E gs \in Given("finish_outgoing") : IntoInner("finish_outgoing", gs)

FutureIncomingResponse ==
  \E g \in Of({"future-incoming-response"}) :
    Forward("subscribe", g) \/ Forward("get_response", g)

\* A stream of a body is a stream of the host; stream_err_map wraps its error.
Streams ==
  \E g \in Of({"input-stream", "output-stream"}) :
    Forward("subscribe", g) \/ Comes(Operating(host, HostHandle, wrapped[g]), {})

ResolveAddressStream ==
  \/ New("resolve-address-stream")
  \/ \E g \in Of({"resolve-address-stream"}) :
       Forward("subscribe", g) \/ Comes(Resolving(host), {})

http_error_code ==
  \E g \in Of({"error"}) : Comes(HttpErrorCode(host, wrapped[g]), {})

\* Mutant: the wrapper goes, the handle within stays.
DropWrapper ==
  \E g \in DOMAIN wrapped :
    /\ wrapped' = Without(wrapped, {g})
    /\ answer' = [ret |-> "ok", val |-> Nil, new |-> None]
    /\ UNCHANGED <<host, wire, trapped>>

Drop ==
  \E g \in DOMAIN wrapped : Comes(Dropping(host, wrapped[g]), {g})

Init ==
  /\ host = [h \in {} |-> Nil]
  /\ wrapped = [g \in {} |-> None]
  /\ answer = [ret |-> "ok", val |-> Nil, new |-> None]
  /\ wire = Quiet
  /\ trapped = FALSE

Call ==
  \/ Handle \/ RequestOptions \/ Fields \/ OutgoingRequest \/ IncomingResponse
  \/ IncomingBody \/ FutureTrailers \/ OutgoingResponse \/ OutgoingBody
  \/ FutureIncomingResponse \/ ResolveAddressStream \/ Streams \/ http_error_code \/ Drop

Next == ~trapped /\ Call

Spec == Init /\ [][Next]_vars

-----------------------------------------------------------------------------
(***************************************************************************)
(* Properties.                                                             *)
(***************************************************************************)

\* Every handle of the host is within exactly one resource of the guest: what
\* the guest gave away or dropped is not kept open at the host, and nothing it
\* still holds has gone.
Conserved ==
  /\ {wrapped[g] : g \in DOMAIN wrapped} = DOMAIN host
  /\ \A g, k \in DOMAIN wrapped : wrapped[g] = wrapped[k] => g = k

(***************************************************************************)
(* The guest's resources as the host's own: the handle within, a child of  *)
(* the resource that has its parent within.                                *)
(***************************************************************************)
Around(h) == CHOOSE g \in DOMAIN wrapped : wrapped[g] = h
Seen ==
  [g \in DOMAIN wrapped |->
     LET r == host[wrapped[g]]
     IN  [r EXCEPT !.of = IF @ = None THEN None ELSE Around(@)]]

Direct == INSTANCE HttpHost WITH Handle <- GuestHandle, own <- Seen

\* The guest sees what it would see of the host itself: the same answers with
\* the same resources, the same messages on the wire, and a trap exactly where
\* the host's rules about children and ownership call for one.
Transparent == Direct!Spec

=============================================================================
