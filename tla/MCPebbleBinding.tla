-------------------------- MODULE MCPebbleBinding --------------------------
(* Instances of PebbleBinding for TLC: bytes are bits, keys have up to two. *)
EXTENDS PebbleBinding, TLC

MCBounds == {Nil, <<0, 1>>, <<1>>}
CallerSymmetry == Permutations(Callers)
=============================================================================
