---------------------------- MODULE MCRaftStore ----------------------------
(* Instances of RaftStore for TLC: numbers have three bytes of one bit. *)
EXTENDS RaftStore, TLC

CandidateSymmetry == Permutations(Candidates)
=============================================================================
