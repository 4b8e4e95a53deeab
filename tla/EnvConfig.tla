----------------------------- MODULE EnvConfig -----------------------------
(***************************************************************************)
(* Environment variables and configuration properties: the virtualizer     *)
(* (create_env_virt, create_config_virt) writes the overrides and the      *)
(* allow or deny list of the host's into a block of the adapter's memory,  *)
(* and the adapter (env.rs, config.rs) reads them back at every call.  The *)
(* two halves share nothing but that block and five words that describe    *)
(* it, so they must agree on where each string is and in which order.      *)
(*                                                                         *)
(* The two subsystems are copies of each other, but that only a            *)
(* configuration has get, of one key.  Here both are: a string is a number,*)
(* ordered as strings are; a key and its value are strings.                *)
(***************************************************************************)
EXTENDS Integers, Sequences, FiniteSets

CONSTANTS
  Keys,        (* the names of variables                                   *)
  Values,      (* their values                                             *)
  StrLen,      (* the length of each string, in bytes                      *)
  Overrides,   (* the overrides a user may configure: sequences of pairs   *)
  Lists,       (* the allow and deny lists                                 *)
  HostFields   (* what the host may answer: sequences of pairs             *)

Strings == Keys \cup Values
Fields == Seq(Keys \X Values)

ASSUME StringsAssumption == Strings \subseteq Int /\ StrLen \in [Strings -> Nat]
ASSUME FieldsAssumption ==
  Overrides \subseteq Fields /\ Lists \subseteq Seq(Keys) /\ HostFields \subseteq Fields

VARIABLES
  conf,       (* the configuration: overrides, host, list                  *)
  unwritten,  (* field_data_vec: the strings still to be written           *)
  block,      (* the block: its length, and the strings at their offsets   *)
  words,      (* the struct Env or Config of the adapter, once written     *)
  call,       (* the guest's call: what it asks, what the host has, and    *)
              (* the first of the host's fields not looked at              *)
  offset,     (* data_offset                                               *)
  found,      (* environment or configuration, as gathered so far          *)
  listed,     (* allow_or_deny                                             *)
  result      (* what the last call returned                               *)

writer == <<unwritten, block, words>>
reader == <<call, offset, found, listed>>
vars == <<conf, writer, reader, result>>

NoWords == [host_fallback |-> TRUE, host_fallback_allow |-> FALSE,
            host_field_cnt |-> 0, host_allow_or_deny_cnt |-> 0, written |-> FALSE]
NoCall == [op |-> "none", key |-> 0, host |-> <<>>, next |-> 1]
NoResult == [op |-> "none", key |-> 0, host |-> <<>>, fields |-> <<>>]

-----------------------------------------------------------------------------
(***************************************************************************)
(* The virtualizer.                                                        *)
(***************************************************************************)

\* sort and the stable sort_by of Rust's slices.
Ordered(s) == \A i, j \in 1..Len(s) : i < j => s[i] <= s[j]
Rank(keys, i) ==
  Cardinality({j \in 1..Len(keys) :
                 keys[j] < keys[i] \/ (keys[j] = keys[i] /\ j <= i)})
Sorted(s, keys) ==
  [r \in 1..Len(s) |-> s[CHOOSE i \in 1..Len(s) : Rank(keys, i) = r]]

Names(fields) == [i \in 1..Len(fields) |-> fields[i][1]]

SortedOverrides(overrides) == Sorted(overrides, Names(overrides))

\* Mutant: the list is written in the order it was given.
SortedListNot(list) == list
SortedList(list) == Sorted(list, list)

\* field_data_vec: name and value of each override, then the list.
FieldData(c) ==
  LET overrides == SortedOverrides(c.overrides)
      n == 2 * Len(overrides)
      list == IF c.host \in {"allow", "deny"} THEN SortedList(c.list) ELSE <<>>
  IN  [i \in 1..n |-> overrides[(i + 1) \div 2][IF i % 2 = 1 THEN 1 ELSE 2]] \o list

\* A length of four bytes, the bytes, and padding to a word.
Padding(n) == IF n % 4 > 0 THEN 4 - (n % 4) ELSE 0

\* Mutant: a string of whole words is padded by one more.
WriteFieldPads ==
  /\ unwritten # <<>>
  /\ LET s == Head(unwritten)
     IN  block' = [len |-> block.len + 4 + StrLen[s] + (4 - (StrLen[s] % 4)),
                   at |-> [o \in DOMAIN block.at \cup {block.len} |->
                             IF o = block.len THEN s ELSE block.at[o]]]
  /\ unwritten' = Tail(unwritten)
  /\ UNCHANGED <<conf, words, reader, result>>

WriteField ==
  /\ unwritten # <<>>
  /\ LET s == Head(unwritten)
     IN  block' = [len |-> block.len + 4 + StrLen[s] + Padding(StrLen[s]),
                   at |-> [o \in DOMAIN block.at \cup {block.len} |->
                             IF o = block.len THEN s ELSE block.at[o]]]
  /\ unwritten' = Tail(unwritten)
  /\ UNCHANGED <<conf, words, reader, result>>

\* The block is made whole double words, for bump_stack_global, and the words
\* of the adapter are set; with host "all" they are left as they are.
BlockSize == block.len + (IF block.len % 8 # 0 THEN 4 ELSE 0)

Words(c) ==
  [host_fallback |-> c.host # "none",
   host_fallback_allow |-> c.host = "allow",
   host_field_cnt |-> Len(c.overrides),
   host_allow_or_deny_cnt |-> IF c.host \in {"allow", "deny"} THEN Len(c.list) ELSE 0,
   written |-> TRUE]

WriteWords ==
  /\ unwritten = <<>> /\ ~words.written
  /\ block' = [block EXCEPT !.len = BlockSize]
  /\ words' = Words(conf)
  /\ UNCHANGED <<conf, unwritten, reader, result>>

-----------------------------------------------------------------------------
(***************************************************************************)
(* The adapter.                                                            *)
(***************************************************************************)
Leave(answer) ==
  /\ result' = answer
  /\ call' = NoCall
  /\ offset' = 0
  /\ found' = <<>>
  /\ listed' = <<>>

Return(fields) ==
  Leave([op |-> call.op, key |-> call.key, host |-> call.host, fields |-> fields])

\* get-environment and get-all, and get of a key.  The host is asked later, if
\* at all; what it will answer is settled here.
Call(op, key, host) ==
  /\ words.written
  /\ call = NoCall
  /\ call' = [op |-> op, key |-> key, host |-> host, next |-> 1]
  /\ result' = NoResult
  /\ UNCHANGED <<conf, writer, offset, found, listed>>

\* read_data_str: where the next string is, after the one at an offset.
After(o) ==
  LET end == o + 4 + StrLen[block.at[o]]
  IN  end + Padding(end)

\* Bytes that are not a string of the writer's are read as one all the same;
\* no run gets there, as InStep says.
ReadOverride ==
  /\ call # NoCall
  /\ Len(found) < words.host_field_cnt
  /\ offset \in DOMAIN block.at /\ After(offset) \in DOMAIN block.at
  /\ LET key == block.at[offset]
         value == block.at[After(offset)]
     IN  IF call.op = "get" /\ key = call.key
         THEN Return(<<<<key, value>>>>)
         ELSE /\ found' = Append(found, <<key, value>>)
              /\ offset' = After(After(offset))
              /\ UNCHANGED <<call, listed, result>>
  /\ UNCHANGED <<conf, writer>>

OverridesRead == call # NoCall /\ Len(found) >= words.host_field_cnt

\* Without a fallback to the host the overrides are all there is.
NoFallback ==
  /\ OverridesRead
  /\ ~words.host_fallback
  /\ Return(IF call.op = "get" THEN <<>> ELSE found)
  /\ UNCHANGED <<conf, writer>>

ReadListed ==
  /\ OverridesRead
  /\ words.host_fallback
  /\ Len(listed) < words.host_allow_or_deny_cnt
  /\ offset \in DOMAIN block.at
  /\ listed' = Append(listed, block.at[offset])
  /\ offset' = After(offset)
  /\ UNCHANGED <<conf, writer, call, found, result>>

ListRead ==
  /\ OverridesRead
  /\ words.host_fallback
  /\ Len(listed) = words.host_allow_or_deny_cnt

\* binary_search, which finds what a sorted slice holds and of any other slice
\* may find anything.
Search(s, key) ==
  IF Ordered(s) THEN {\E i \in 1..Len(s) : s[i] = key} ELSE BOOLEAN

overridden == [i \in 1..words.host_field_cnt |-> found[i][1]]

Passes(in_list) ==
  \/ words.host_fallback_allow /\ in_list
  \/ ~words.host_fallback_allow /\ ~in_list

MoreOfHost == ListRead /\ call.op # "get" /\ call.next <= Len(call.host)

\* Mutant: an override does not hide the host's field.
HostFieldShown ==
  /\ MoreOfHost
  /\ LET field == call.host[call.next]
     IN  \E in_list \in Search(listed, field[1]) :
           found' = IF Passes(in_list) THEN Append(found, field) ELSE found
  /\ call' = [call EXCEPT !.next = @ + 1]
  /\ UNCHANGED <<conf, writer, offset, listed, result>>

\* Mutant: the loop does not go on from a field that is hidden.
HostFieldStuck ==
  /\ MoreOfHost
  /\ LET field == call.host[call.next]
     IN  \E hidden \in Search(overridden, field[1]), in_list \in Search(listed, field[1]) :
           /\ found' = IF ~hidden /\ Passes(in_list) THEN Append(found, field) ELSE found
           /\ call' = IF hidden THEN call ELSE [call EXCEPT !.next = @ + 1]
  /\ UNCHANGED <<conf, writer, offset, listed, result>>

\* One field of the host's, in the loop of get-environment and get-all.
HostField ==
  /\ MoreOfHost
  /\ LET field == call.host[call.next]
     IN  \E hidden \in Search(overridden, field[1]), in_list \in Search(listed, field[1]) :
           found' = IF ~hidden /\ Passes(in_list) THEN Append(found, field) ELSE found
  /\ call' = [call EXCEPT !.next = @ + 1]
  /\ UNCHANGED <<conf, writer, offset, listed, result>>

HostFieldsRead ==
  /\ ListRead
  /\ call.op # "get" /\ call.next > Len(call.host)
  /\ Return(found)
  /\ UNCHANGED <<conf, writer>>

\* The first of some fields with a key: what a store answers to get of the key.
First(fields, key) ==
  LET at == {i \in 1..Len(fields) : fields[i][1] = key}
  IN  IF at = {} THEN <<>> ELSE <<fields[CHOOSE i \in at : \A j \in at : i <= j]>>

\* Mutant: get does not look at the list.
GetHostAny ==
  /\ ListRead
  /\ call.op = "get"
  /\ Return(First(call.host, call.key))
  /\ UNCHANGED <<conf, writer>>

\* The operation of a result that is the host's error.
Failed == [get |-> "get failed", all |-> "get-all failed"]

\* The host's get-all, before the loop, and its get fail as they like, and the
\* call with them; get-environment has no error, and only its loop is modelled.
HostFails ==
  /\ ListRead
  /\ \/ /\ call.op = "get-all" /\ call.next = 1
        /\ Leave([NoResult EXCEPT !.op = Failed.all])
     \/ /\ call.op = "get"
        /\ \E in_list \in Search(listed, call.key) : Passes(in_list)
        /\ Leave([NoResult EXCEPT !.op = Failed.get, !.key = call.key])
  /\ UNCHANGED <<conf, writer>>

\* The end of get: the host's own get, of a key that passes.
GetHost ==
  /\ ListRead
  /\ call.op = "get"
  /\ \E in_list \in Search(listed, call.key) :
       Return(IF Passes(in_list) THEN First(call.host, call.key) ELSE <<>>)
  /\ UNCHANGED <<conf, writer>>

Init ==
  /\ conf \in [overrides : Overrides, host : {"none", "all"}, list : {<<>>}]
                \cup [overrides : Overrides, host : {"allow", "deny"}, list : Lists]
  /\ unwritten = FieldData(conf)
  /\ block = [len |-> 0, at |-> [o \in {} |-> 0]]
  /\ words = NoWords
  /\ call = NoCall
  /\ offset = 0
  /\ found = <<>>
  /\ listed = <<>>
  /\ result = NoResult

Reader ==
  \/ ReadOverride \/ NoFallback \/ ReadListed
  \/ HostField \/ HostFieldsRead \/ GetHost \/ HostFails

Next ==
  \/ WriteField \/ WriteWords
  \/ \E host \in HostFields : Call("get-all", 0, host)
  \/ \E host \in HostFields, key \in Keys : Call("get", key, host)
  \/ Reader

Spec == Init /\ [][Next]_vars
\* The adapter runs until it returns.
FairSpec == Spec /\ WF_vars(Reader)

-----------------------------------------------------------------------------
(***************************************************************************)
(* Properties.                                                             *)
(***************************************************************************)

\* The adapter reads where the virtualizer wrote: as long as strings are left to
\* read there is one at the offset, on a word and whole within the block.
InStep ==
  /\ \A o \in DOMAIN block.at :
       o % 4 = 0 /\ o + 4 + StrLen[block.at[o]] <= block.len
  /\ call # NoCall /\ (Len(found) < words.host_field_cnt
                         \/ (words.host_fallback
                               /\ Len(listed) < words.host_allow_or_deny_cnt)) =>
       /\ offset \in DOMAIN block.at
       /\ Len(found) < words.host_field_cnt => After(offset) \in DOMAIN block.at

\* The comment "fallback ASSUMES that all data is alphabetically ordered": what
\* binary_search is used on is in order.
SearchesOrdered ==
  ListRead => Ordered(listed) /\ Ordered(overridden)

\* What a configuration demands of a field of the host's to show it to the guest.
Permitted(c, field) ==
  /\ \A i \in 1..Len(c.overrides) : c.overrides[i][1] # field[1]
  /\ CASE c.host = "none" -> FALSE
       [] c.host = "all" -> TRUE
       [] c.host = "allow" -> \E i \in 1..Len(c.list) : c.list[i] = field[1]
       [] c.host = "deny" -> \A i \in 1..Len(c.list) : c.list[i] # field[1]

\* At no moment has the adapter gathered a field of the host's that the
\* configuration keeps from the guest.
NothingLeaks ==
  words.written =>
    \A i \in (words.host_field_cnt + 1)..Len(found) : Permitted(conf, found[i])

\* What is permitted of the host's first n fields, for every n.
ShownOf(c, host) ==
  LET shown[n \in 0..Len(host)] ==
        IF n = 0 THEN <<>>
        ELSE IF Permitted(c, host[n]) THEN Append(shown[n - 1], host[n])
        ELSE shown[n - 1]
  IN  shown

Promised(c, host) ==
  Sorted(c.overrides, Names(c.overrides)) \o ShownOf(c, host)[Len(host)]

\* get-environment and get-all give all of the overrides, in order, and then all
\* that is permitted of the host's; and get agrees with get-all, of which it
\* gives the first field with that key.  The host's error reaches the guest only
\* if it has a host, and get of a key only if the key is permitted.
ReadsExact ==
  /\ result.op = "get-all" => result.fields = Promised(conf, result.host)
  /\ result.op = "get" => result.fields = First(Promised(conf, result.host), result.key)
  /\ result.op = Failed.all => conf.host # "none"
  /\ result.op = Failed.get => Permitted(conf, <<result.key>>)

\* Every call returns.
Returns == [](call # NoCall => <>(call = NoCall))

=============================================================================
