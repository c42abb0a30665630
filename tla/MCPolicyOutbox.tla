--------------------------- MODULE MCPolicyOutbox ---------------------------
(* Small instances of PolicyOutbox.                                             *)
EXTENDS PolicyOutbox, TLC
=============================================================================
