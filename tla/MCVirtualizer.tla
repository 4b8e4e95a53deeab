--------------------------- MODULE MCVirtualizer ---------------------------
(* Instance of Virtualizer.  The components between them import every       *)
(* interface, and one has terminals but no standard streams.                *)
EXTENDS Virtualizer

MCComponents ==
  {{"std", "filesystem", "monotonic-clock", "io", "environment", "wall-clock"},
   {"terminal", "io", "http", "incoming-handler", "random", "exit", "store", "sockets",
    "network"}}

=============================================================================
