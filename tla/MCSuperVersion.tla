--------------------------- MODULE MCSuperVersion ---------------------------
(* The instance of SuperVersion for TLC. *)
EXTENDS SuperVersion
=============================================================================
