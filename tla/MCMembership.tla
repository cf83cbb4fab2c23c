---------------------------- MODULE MCMembership ----------------------------
(***************************************************************************)
(* Instances of Membership for TLC.                                        *)
(***************************************************************************)
EXTENDS Membership, TLC

CONSTANTS m1, m2, o1, o2

\* The specification treats all observers alike.
ObserverSymmetry == Permutations(Observers)
=============================================================================
