--------------------------- MODULE MCRaftBinding ---------------------------
(* Instances of RaftBinding for TLC: a bootstrapping node and a joining one. *)
EXTENDS RaftBinding

CONSTANTS n1, n2

\* Every input is proposed on the node that joins.
MCHome == [c \in Calls |-> n2]
=============================================================================
