---------------------------- MODULE MCAdapterIo ----------------------------
(***************************************************************************)
(* AdapterIo with two bytes on the host's stdin and a stdout of two bytes. *)
(***************************************************************************)
EXTENDS AdapterIo

Config(in, out, clocks, fs) ==
  [stdio |-> [s \in Stdio |-> IF s = "stdin" THEN in ELSE out],
   clocks |-> clocks, fs_passthrough |-> fs]

\* Each kind of stream beside each other, and without any: with clocks alone, and
\* with a filesystem of the host.
MCConfigs ==
  {Config("allow", "allow", TRUE, FALSE), Config("allow", "ignore", FALSE, FALSE),
   Config("allow", "deny", FALSE, FALSE), Config("ignore", "allow", TRUE, FALSE),
   Config("deny", "allow", FALSE, TRUE), Config("deny", "deny", TRUE, FALSE),
   Config("ignore", "deny", TRUE, TRUE)}

\* Alone, with the clock, without, with a stand-in, and all.
MCLists ==
  {{}, {"timer"}, {"stdin", "timer"}, {"stdin", "stdout"}, {"file", "stdin"}, Sources}

=============================================================================
