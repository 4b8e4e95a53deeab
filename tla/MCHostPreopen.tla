--------------------------- MODULE MCHostPreopen ---------------------------
(***************************************************************************)
(* HostPreopen on every plain path of up to five characters over "./ab",   *)
(* with "./" and the empty one, and hosts with up to two preopens.         *)
(***************************************************************************)
EXTENDS HostPreopen

MCAlphabet == <<".", "/", "a", "b">>

Dot == <<".">>
Root == <<"/">>
A == <<"a">>
\* The names a host gives: the current directory, the root, directories below
\* either, and a name that another one begins.
MCNames ==
  {Dot, <<".", "/">>, Root, A, <<".", "/", "a">>, <<"/", "a">>,
   <<"a", "/", "b">>, <<"/", "a", "b">>}

Strings(n) == UNION {[1..k -> {".", "/", "a", "b"}] : k \in 0..n}

\* A plain path repeats no slash and has no component "." or ".." but a leading
\* "./".
Plain(s) ==
  LET t == StripPath(s)
  IN  /\ \A i \in 1..(Len(t) - 1) : ~(t[i] = "/" /\ t[i + 1] = "/")
      /\ ~(Absolute(t) /\ t # s)
      /\ \A i \in 1..Len(t) :
           t[i] = "." => \/ (i > 1 /\ t[i - 1] \notin {"/", "."})
                         \/ (i < Len(t) /\ t[i + 1] \notin {"/", "."})

MCHostPaths == {s \in Strings(5) : Plain(s)}

\* What the theorems about HostPreopen assume holds here.
ASSUME MCPlainLookups == PlainLookups

=============================================================================
