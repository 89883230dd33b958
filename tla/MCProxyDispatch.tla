-------------------------- MODULE MCProxyDispatch --------------------------
(* Instances of ProxyDispatch for TLC. *)
EXTENDS ProxyDispatch, TLC

Symmetry == Permutations(Requests) \cup Permutations(Accounts)
=============================================================================
