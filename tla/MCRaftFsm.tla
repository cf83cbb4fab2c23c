----------------------------- MODULE MCRaftFsm -----------------------------
(***************************************************************************)
(* Instances of RaftFsm for TLC: keys, values and observers as model       *)
(* values.  Liveness is checked too, so that no symmetry is declared.      *)
(***************************************************************************)
EXTENDS RaftFsm

CONSTANTS k1, v1, o1, o2
=============================================================================
