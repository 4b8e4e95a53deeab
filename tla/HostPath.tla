------------------------------ MODULE HostPath ------------------------------
(***************************************************************************)
(* How the adapter finds the host preopen that a configured host path is   *)
(* under: IoState::get_host_preopen of virtual-adapter/src/io.rs.  This is *)
(* matching on strings, and which strings match is all there is to it, so  *)
(* here a string is a sequence of characters.                              *)
(***************************************************************************)
EXTENDS Integers, Sequences

\* The characters of the instance, in byte order: "." before "/" before letters.
CONSTANT Alphabet

Char == {Alphabet[i] : i \in 1..Len(Alphabet)}
Path == Seq(Char)

Drop(s, n) == SubSeq(s, n + 1, Len(s))

StartsWith(s, prefix) ==
  Len(prefix) <= Len(s) /\ SubSeq(s, 1, Len(prefix)) = prefix

\* The order of a BTreeMap<String, _>.
Rank(c) == CHOOSE i \in 1..Len(Alphabet) : Alphabet[i] = c
Before(s, t) ==
  \/ s # t /\ StartsWith(t, s)
  \/ \E i \in 1..Len(s) :
       /\ i <= Len(t)
       /\ SubSeq(s, 1, i - 1) = SubSeq(t, 1, i - 1)
       /\ Rank(s[i]) < Rank(t[i])

StripPath(path) == IF StartsWith(path, <<".", "/">>) THEN Drop(path, 2) ELSE path

\* "./x" is x, "." is the empty name; any other leading "." goes too.
StripName(name) ==
  IF StartsWith(name, <<".", "/">>) THEN Drop(name, 2)
  ELSE IF StartsWith(name, <<".">>) THEN Drop(name, 1)
  ELSE name

Skip == [kind |-> "skip", rest |-> <<>>]
Panic == [kind |-> "panic", rest |-> <<>>]
Found(rest) == [kind |-> "found", rest |-> rest]

\* Mutant: a prefix is enough, whatever character follows it.
AttemptNoBoundary(name, path) ==
  IF ~StartsWith(path, name) THEN Skip
  ELSE IF name = <<>> THEN
         IF path = <<>> THEN Panic
         ELSE IF path[1] # "/" THEN Found(path) ELSE Skip
  ELSE IF name = <<"/">> THEN Found(Drop(path, 1))
  ELSE Found(Drop(path, Len(name) + 1))

\* Mutant: a path equal to the name is not special: the byte after it is read.
AttemptNoExact(name, path) ==
  IF ~StartsWith(path, name) THEN Skip
  ELSE IF name = <<>> THEN
         IF path = <<>> THEN Panic
         ELSE IF path[1] # "/" THEN Found(path) ELSE Skip
  ELSE IF name = <<"/">> THEN Found(Drop(path, 1))
  ELSE IF Len(name) = Len(path) THEN Panic
  ELSE IF path[Len(name) + 1] = "/" THEN Found(Drop(path, Len(name) + 1))
  ELSE Skip

\* Mutant: the root is a name as any other, that a slash must follow.
AttemptNoRoot(name, path) ==
  IF ~StartsWith(path, name) THEN Skip
  ELSE IF name = <<>> THEN
         IF path = <<>> THEN Panic
         ELSE IF path[1] # "/" THEN Found(path) ELSE Skip
  ELSE IF Len(name) = Len(path) THEN Found(<<>>)
  ELSE IF path[Len(name) + 1] = "/" THEN Found(Drop(path, Len(name) + 1))
  ELSE Skip

(***************************************************************************)
(* One iteration, on the stripped name and path: whether this preopen is   *)
(* the one, and what of the path is left below it.  Indexing the first     *)
(* byte of an empty path panics.                                           *)
(***************************************************************************)
Attempt(name, path) ==
  IF ~StartsWith(path, name) THEN Skip
  ELSE IF name = <<>> THEN
         IF path = <<>> THEN Panic
         ELSE IF path[1] # "/" THEN Found(path) ELSE Skip
  ELSE IF name = <<"/">> THEN Found(Drop(path, 1))
  ELSE IF Len(name) = Len(path) THEN Found(<<>>)
  ELSE IF path[Len(name) + 1] = "/" THEN Found(Drop(path, Len(name) + 1))
  ELSE Skip

Try(name, path) == Attempt(StripName(name), StripPath(path))

\* The paths of which nothing is left to look at: "./" and the empty one.
Bare(path) == StripPath(path) = <<>>

\* What get_host_preopen returns over a set of names: the first that is not skipped.
Candidates(names, path) == {n \in names : Try(n, path).kind # "skip"}
GetHostPreopen(names, path) ==
  CHOOSE n \in Candidates(names, path) :
    \A m \in Candidates(names, path) : m = n \/ Before(n, m)

(***************************************************************************)
(* What a path denotes: whether it is absolute, and its components, without*)
(* the empty ones and those that stay where they are.                      *)
(***************************************************************************)
Absolute(s) == Len(s) > 0 /\ s[1] = "/"

\* A component is kept when a slash or the end of the path closes it.
Closed(done, part) == IF part \in {<<>>, <<".">>} THEN done ELSE Append(done, part)

\* What has been read of a path after each of its characters.
Scan(s) ==
  LET scan[i \in 0..Len(s)] ==
        IF i = 0 THEN [done |-> <<>>, part |-> <<>>]
        ELSE IF s[i] = "/"
          THEN [done |-> Closed(scan[i - 1].done, scan[i - 1].part), part |-> <<>>]
          ELSE [done |-> scan[i - 1].done, part |-> Append(scan[i - 1].part, s[i])]
  IN  scan

Components(s) == Closed(Scan(s)[Len(s)].done, Scan(s)[Len(s)].part)

\* In a tidy path every slash but a leading one ends a component that counts, and
\* so does the end, unless it comes after a slash.
Tidy(s) ==
  /\ \A i \in 2..Len(s) : s[i] = "/" => Scan(s)[i - 1].part \notin {<<>>, <<".">>}
  /\ Scan(s)[Len(s)].part # <<".">>

(***************************************************************************)
(* The names and paths on which the lookup does what it says.  A leading   *)
(* dot is stripped of any name, so that ".a" would be matched as "a": a    *)
(* plain name has none but that of "." or "./x", and ends in a slash only  *)
(* if it is one.  Stripping a plain path does not make it absolute.        *)
(***************************************************************************)
PlainName(name) ==
  /\ StartsWith(name, <<".">>) =>
       \/ name = <<".">>
       \/ StartsWith(name, <<".", "/">>) /\ ~Absolute(StripName(name))
  /\ LET n == StripName(name)
     IN  Tidy(n) /\ (Len(n) > 1 => n[Len(n)] # "/")

PlainPath(p) ==
  /\ Absolute(StripPath(p)) => StripPath(p) = p
  /\ Tidy(StripPath(p))

=============================================================================
