------------------------------ MODULE MCRollout ------------------------------
(* Constants of the model-checking run of the token rollout. *)
EXTENDS RpcRollout, TLC

CONSTANTS s1, s2, s3, c1, c2

ThreeServices == {s1, s2, s3}
TwoCalls == {c1, c2}
Symmetry == Permutations(Service) \cup Permutations(Call)
=============================================================================
