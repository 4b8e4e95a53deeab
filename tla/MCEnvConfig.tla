---------------------------- MODULE MCEnvConfig ----------------------------
(***************************************************************************)
(* EnvConfig with two keys in the configuration, a third one on the host,  *)
(* and strings of every length modulo the word.                            *)
(***************************************************************************)
EXTENDS EnvConfig

MCStrLen == [s \in Strings |-> CASE s = 1 -> 4 [] s = 2 -> 1 [] s = 3 -> 2
                                 [] s = 8 -> 0 [] s = 9 -> 3]

UpTo(n, S) == UNION {[1..k -> S] : k \in 0..n}

\* The same key twice is among them.
MCOverrides == UpTo(2, {1, 2} \X {8, 9})
MCLists == UpTo(2, {1, 2, 3})
MCHostFields == {<<>>, <<<<2, 8>>, <<1, 9>>>>, <<<<3, 9>>, <<2, 9>>>>}

=============================================================================
