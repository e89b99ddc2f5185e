------------------------------ MODULE MCTenant ------------------------------
(* Constants of the model-checking runs of the tenant binding. *)
EXTENDS TenantBinding

TwoMerchants == {"m1", "m2"}
OneMerchant == {"m1"}

(* The console, the shop's API and the public routes, with a binder mounted *)
(* twice, and MerchantBindMiddleware before or after the verification.     *)
RouteChains ==
    {<<"cors", "jwt", "oplog">>, <<"cors", "bearer", "oplog">>, <<"cors", "bind">>,
     <<"cors", "bind", "jwt", "oplog">>, <<"bind", "bearer", "oplog">>,
     <<"jwt", "oplog", "bind">>, <<"bearer", "bind">>, <<"bind", "jwt", "bind">>,
     <<"jwt", "jwt">>, <<"bearer", "bearer">>, <<"bind", "bind">>, <<"oplog", "jwt">>}

ConsoleChain == {<<"cors", "jwt", "oplog">>}
=============================================================================
