--------------------------- MODULE MCSecondFactor ---------------------------
(* Constants of the model-checking runs of the second factor. *)
EXTENDS SecondFactor, TLC

CONSTANTS a1, a2, k1, k2, s1, s2, r1, r2

OneAccount == {a1}
TwoAccounts == {a1, a2}
TwoSecrets == {k1, k2}
TwoSessions == {s1, s2}
OneReq == {r1}
TwoReqs == {r1, r2}
LifetimeOrNone == {1, -1}

(* Accounts, secrets, sessions and requests are alike. *)
Symmetry == Permutations(Secret) \cup Permutations(Session) \cup Permutations(Account)
=============================================================================
