------------------------------ MODULE MCAudit ------------------------------
(* Constants of the model-checking runs of the audit path. *)
EXTENDS AuditRefinement

CONSTANTS r1, r2, r3, r4, a, b

ThreeReq == {r1, r2, r3}
FourReq  == {r1, r2, r3, r4}
OneCritical == {r1}
TwoCritical == {r1, r2}
TwoCallers == {a, b}

AllFaults == {"publish", "duplicate", "insert"}
NoFaults  == {}
=============================================================================
