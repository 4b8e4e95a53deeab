--------------------------- MODULE HttpResources ---------------------------
(***************************************************************************)
(* The resources of wasi:http and of name lookup, and the streams,         *)
(* pollables and errors they give rise to, as their interface describes    *)
(* them (wit/0_2_3/deps/wasi-http-0.2.3): what a call on a table of        *)
(* handles may come to.  These are operators only; HttpHost lets a         *)
(* component make the calls, and HostWrappers lets the adapter make them   *)
(* for its guest.                                                          *)
(*                                                                         *)
(* A resource is [kind, of, taken, fixed, val]: the handle it is a child   *)
(* of, whether its one-time part was taken, whether it is immutable, and   *)
(* what the properties tell apart of its data.                             *)
(***************************************************************************)
EXTENDS Integers, FiniteSets, Sequences

CONSTANTS
  None,      (* no handle                                                   *)
  Values,    (* the contents of fields, timeouts, status codes              *)
  Methods,   (* the methods of a request                                    *)
  Codes      (* the error codes, [variant, payload]                         *)

Nil == [nothing |-> TRUE]
GET == CHOOSE m \in Methods : TRUE
OK == CHOOSE v \in Values : TRUE
Quiet == [sent |-> "nothing", val |-> Nil, with |-> Nil]

Resource(kind, of, fixed, val) ==
  [kind |-> kind, of |-> of, taken |-> FALSE, fixed |-> fixed, val |-> val]

Children(t, h) == {k \in DOMAIN t : t[k].of = h}
Without(t, hs) == [k \in DOMAIN t \ hs |-> t[k]]
With(t, h, r) == [k \in DOMAIN t \cup {h} |-> IF k = h THEN r ELSE t[k]]

(***************************************************************************)
(* What a call comes to: the table, the handle it returns if any, what it  *)
(* says, what it puts on the wire, and whether it traps.                   *)
(***************************************************************************)
Says(t, ret, val) ==
  [own |-> t, new |-> None, ret |-> ret, val |-> val, wire |-> Quiet, trap |-> FALSE]
Gives(t, h, r) ==
  [own |-> With(t, h, r), new |-> h, ret |-> "ok", val |-> Nil, wire |-> Quiet,
   trap |-> FALSE]
Trap(t) == [Says(t, "trap", Nil) EXCEPT !.trap = TRUE]
Failures(t) == {Says(t, "code", [code |-> c]) : c \in Codes}

(***************************************************************************)
(* Methods of a resource that return another: one that works once, one     *)
(* whose result is a child, one whose result comes late or not at all.     *)
(***************************************************************************)
Makes ==
  LET Row(from, to, child, once, late) ==
        [from |-> from, to |-> to, child |-> child, once |-> once, late |-> late]
  IN  [clone |-> Row({"fields"}, "fields", FALSE, FALSE, FALSE),
       headers |-> Row({"outgoing-request", "outgoing-response",
                        "incoming-response"}, "fields", TRUE, FALSE, FALSE),
       body |-> Row({"outgoing-request", "outgoing-response"}, "outgoing-body",
                    FALSE, TRUE, FALSE),
       consume |-> Row({"incoming-response"}, "incoming-body", FALSE, TRUE, FALSE),
       write |-> Row({"outgoing-body"}, "output-stream", TRUE, TRUE, FALSE),
       stream |-> Row({"incoming-body"}, "input-stream", TRUE, TRUE, FALSE),
       subscribe |-> Row({"future-trailers", "future-incoming-response",
                          "input-stream", "output-stream",
                          "resolve-address-stream"}, "pollable",
                         TRUE, FALSE, FALSE),
       get_response |-> Row({"future-incoming-response"}, "incoming-response",
                            FALSE, TRUE, TRUE),
       get_trailers |-> Row({"future-trailers"}, "fields", TRUE, TRUE, TRUE)]

\* What comes back from the peer is any of the contents.
Data(t, op, h) ==
  CASE op \in {"clone", "headers"} -> {[headers |-> t[h].val.headers]}
    [] op \in {"get_response", "get_trailers"} -> {[headers |-> v] : v \in Values}
    [] OTHER -> {Nil}

Making(t, all, op, h) ==
  LET row == Makes[op]
      used == IF row.once THEN [t EXCEPT ![h].taken = TRUE] ELSE t
      made == {Gives(used, k, Resource(row.to, IF row.child THEN h ELSE None,
                                       row.child /\ row.to = "fields", val)) :
                 k \in all \ DOMAIN t, val \in Data(t, op, h)}
  IN  IF row.once /\ t[h].taken THEN {Says(t, "err", Nil)}
      ELSE made \cup (IF row.late
                      THEN {Says(t, "none", Nil)} \cup Failures(used) ELSE {})

(***************************************************************************)
(* Functions that take resources for good, the last of them optional: one  *)
(* with children cannot be given away.                                     *)
(***************************************************************************)
Eats ==
  LET Row(eats, least, to, fails) ==
        [eats |-> eats, least |-> least, to |-> to, fails |-> fails]
  IN  [new_request |-> Row(<<"fields">>, 1, "outgoing-request", FALSE),
       new_response |-> Row(<<"fields">>, 1, "outgoing-response", FALSE),
       finish_incoming |-> Row(<<"incoming-body">>, 1, "future-trailers", FALSE),
       finish_outgoing |-> Row(<<"outgoing-body", "fields">>, 1, "", TRUE),
       handle |-> Row(<<"outgoing-request", "request-options">>, 1,
                      "future-incoming-response", TRUE)]

\* The arguments a function can be called with.
Arguments(t, op) ==
  LET row == Eats[op]
  IN  {args \in UNION {[1..n -> DOMAIN t] : n \in row.least..Len(row.eats)} :
         /\ \A i \in DOMAIN args : t[args[i]].kind = row.eats[i]
         /\ \A i, j \in DOMAIN args : args[i] = args[j] => i = j}

Eating(t, all, op, args) ==
  LET row == Eats[op]
      given == {args[i] : i \in DOMAIN args}
      rest == Without(t, given)
      val == CASE row.to = "outgoing-request" ->
                    [headers |-> t[args[1]].val.headers, method |-> GET]
               [] row.to = "outgoing-response" ->
                    [headers |-> t[args[1]].val.headers, status |-> OK]
               [] OTHER -> Nil
      wire == IF row.fails
              THEN [sent |-> op, val |-> t[args[1]].val,
                    with |-> IF Len(args) = 2 THEN t[args[2]].val ELSE Nil]
              ELSE Quiet
      done == IF row.to = "" THEN {Says(rest, "ok", Nil)}
              ELSE {Gives(rest, k, Resource(row.to, None, FALSE, val)) :
                      k \in all \ DOMAIN rest}
  IN  IF \E h \in given : Children(t, h) # {} THEN {Trap(t)}
      ELSE {[o EXCEPT !.wire = wire] : o \in done}
             \cup (IF row.fails THEN Failures(rest) ELSE {})

(***************************************************************************)
(* Constructors, accessors, streams, errors, and dropping a resource.      *)
(***************************************************************************)
Fresh(kind) ==
  CASE kind = "fields" -> {[headers |-> v] : v \in Values}
    [] kind = "request-options" -> {[timeout |-> v] : v \in Values}
    [] kind = "resolve-address-stream" -> {Nil}

HeaderErrors == {"invalid-syntax", "forbidden"}

\* A list may not make fields, a name not resolve, now or later.
Unmade(kind) ==
  CASE kind = "fields" -> HeaderErrors
    [] kind = "request-options" -> {}
    [] kind = "resolve-address-stream" -> {"network-error"}

Constructing(t, all, kind) ==
  {Gives(t, k, Resource(kind, None, FALSE, val)) :
     k \in all \ DOMAIN t, val \in Fresh(kind)}
    \cup {Says(t, e, Nil) : e \in Unmade(kind)}

Resolving(t) == {Says(t, ret, Nil) : ret \in {"ok", "none", "network-error"}}

Setting(t, h, v) ==
  IF t[h].fixed THEN {Says(t, "immutable", Nil)}
  ELSE {Says([t EXCEPT ![h].val.headers = v], "ok", Nil)}
         \cup {Says(t, e, Nil) : e \in HeaderErrors}

\* A timeout, the method of a request or the status of a response is set.
Amending(t, h, part, v) ==
  {Says([t EXCEPT ![h].val[part] = v], "ok", Nil), Says(t, "err", Nil)}

Reading(t, h) == {Says(t, "ok", t[h].val)}

\* A failing operation of a stream leaves an error, of HTTP or not.
Operating(t, all, h) ==
  {Says(t, "ok", Nil), Says(t, "closed", Nil)}
    \cup {[Gives(t, k, Resource("error", None, FALSE, val)) EXCEPT !.ret = "failed"] :
            k \in all \ DOMAIN t, val \in {[code |-> c] : c \in Codes} \cup {Nil}}

HttpErrorCode(t, h) ==
  {IF t[h].val = Nil THEN Says(t, "none", Nil) ELSE Says(t, "code", t[h].val)}

Dropping(t, h) ==
  IF Children(t, h) # {} THEN {Trap(t)}
  ELSE {[Says(Without(t, {h}), "ok", Nil) EXCEPT
           !.wire = IF t[h].kind = "outgoing-body"
                    THEN [sent |-> "aborted", val |-> Nil, with |-> Nil] ELSE Quiet]}

=============================================================================
