--------------------------- MODULE MCRpcFailover ---------------------------
(* The symmetry of RpcFailover for TLC.                                     *)
EXTENDS RpcFailover, TLC

CallSymmetry == Permutations(Calls)

=============================================================================
