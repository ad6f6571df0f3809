--------------------------- MODULE MCSoyasClient ---------------------------
(***************************************************************************)
(* SoyasClient for TLC: three overlapping sends.                           *)
(***************************************************************************)
EXTENDS SoyasClient
=============================================================================
