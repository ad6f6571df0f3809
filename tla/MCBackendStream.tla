-------------------------- MODULE MCBackendStream --------------------------
(***************************************************************************)
(* BackendStream for TLC: two sending threads and the finishing one.       *)
(***************************************************************************)
EXTENDS BackendStream
=============================================================================
