--------------------------- MODULE MCReleaseRollout ---------------------------
(***************************************************************************)
(* Two consumers: the first on its main branch with an upstream, the       *)
(* second checked out on another branch without one.                       *)
(***************************************************************************)
EXTENDS ReleaseRollout
=============================================================================
