------------------------------ MODULE MCUsage ------------------------------
(* Constants of the model-checking runs of the metering loop. *)
EXTENDS UsageMeter, TLC

CONSTANTS q1, q2, q3

ThreeReq == {q1, q2, q3}
OneMerchant == {"m1"}
TwoMerchants == {"m1", "m2"}

Named(header, body, captured, namespace) ==
    [header |-> header, body |-> body, captured |-> captured, namespace |-> namespace]

(* In the headers, in a body that is captured or is not, nowhere; under a   *)
(* namespace that is no merchant or is the other one.                      *)
ManyNamings ==
    {Named("m1", "", TRUE, "n"), Named("m2", "", TRUE, "n"), Named("", "m1", TRUE, "n"),
     Named("", "m1", FALSE, "n"), Named("", "", TRUE, "n"), Named("", "", TRUE, "m2"),
     Named("*", "m1", TRUE, "m1")}

(* The same for one merchant, with no namespace too. *)
FewNamings ==
    {Named("m1", "", TRUE, "n"), Named("*", "m1", TRUE, "n"), Named("", "m1", TRUE, "n"),
     Named("", "m1", FALSE, "n"), Named("", "", TRUE, "")}

(* Headers or a captured body. *)
PlainNamings ==
    {Named(h, b, TRUE, "n") : h \in Merchant \cup {""}, b \in Merchant \cup {""}}

NoFaults == {}
AllFaults == {"late", "publish", "duplicate", "offline", "panic", "blind", "unregistered"}

(* Requests are alike: safety runs may exchange them. *)
Symmetry == Permutations(Req)
=============================================================================
