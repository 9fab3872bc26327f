--------------------------- MODULE MCScopeAcquire ---------------------------
(* Instances of ScopeAcquire for TLC. *)
EXTENDS ScopeAcquire
=============================================================================
