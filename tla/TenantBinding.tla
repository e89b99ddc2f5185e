--------------------------- MODULE TenantBinding ---------------------------
(***************************************************************************)
(* How one request is bound to a merchant on its way through the Gin       *)
(* chain: CORSMiddleware, MerchantBindMiddleware, JWTMiddleware,           *)
(* JWTAuthMiddleware and OperateLogMiddleware write and read the same few  *)
(* headers and context values, the tenantguard helpers decide by the       *)
(* headers, and the repositories filter by the context.  The state is what *)
(* the middlewares leave to each other; a request and its chain are chosen *)
(* initially, and each step runs the next middleware of the chain.         *)
(***************************************************************************)
EXTENDS Integers, Sequences

CONSTANTS
    Merchant,        \* merchant numbers
    SuperMerchants,  \* super.merchant and super.merchants
    Namespace,       \* the namespace of a login
    Chains           \* the chains of middlewares a route may be mounted under

Middlewares == {"cors", "bind", "jwt", "bearer", "oplog"}

ASSUME BindingAssumption ==
    /\ {"", "*"} \cap Merchant = {}
    /\ SuperMerchants \subseteq Merchant
    /\ Namespace \notin {"", "*"}
    /\ Chains \subseteq Seq(Middlewares)

VARIABLES
    req,     \* what arrived, and the kind of route it arrived at
    chain,   \* the middlewares of the route
    at,      \* index of the next one
    hdr,     \* request headers: X-Tenant-ID, X-Merchant-ID, MerchantID, Namespace
    ctx,     \* request context: model.MerchantKey, model.NamespaceKey
    super,   \* SuperAdminContextKey
    asked,   \* merchant whose quota OperateLogMiddleware checked, and when
    status,  \* "running", "rejected" or "served"
    reach    \* the owners whose objects the handler found it may access

vars == <<req, chain, at, hdr, ctx, super, asked, status, reach>>

-----------------------------------------------------------------------------
(* Header values: absent, all merchants, or one merchant.  Surrounding     *)
(* blanks, which the code trims, are not modelled.                         *)
Value == Merchant \cup {"", "*"}
Names == {"", "*", Namespace}

(* What the login cookie or the bearer token says, for a valid one. *)
Login == [kind : {"none", "cookie", "bearer"}, merchant : Value, superAdmin : BOOLEAN]

(* superHost: isSuperAdminHost(requestAdminHost(c)), from the host and the *)
(* trusted proxies; trusted: trustTenantHeader(c), from the gateway token  *)
(* and its transition flag; guarded: the route uses tenantguard.Require.   *)
Request == [superHost : BOOLEAN, trusted : BOOLEAN, guarded : BOOLEAN,
            login : Login, switch : Value, merchant : Value]

Headers == [tenant : Value, switch : Value, merchant : Value, namespace : Names]
Context == [merchant : Merchant \cup {""}, namespace : Names]

Unstar(v) == IF v = "*" THEN "" ELSE v

Ran(x) == \E i \in 1..(at - 1) : chain[i] = x
Bound == Ran("bind") \/ Ran("jwt") \/ Ran("bearer")
Verified == Ran("jwt") \/ Ran("bearer")

AtMiddleware(x) == status = "running" /\ at <= Len(chain) /\ chain[at] = x

Init ==
    /\ req \in Request
    /\ chain \in Chains
    /\ at = 1
    /\ hdr \in [tenant : Value, switch : {req.switch}, merchant : {req.merchant}, namespace : Names]
    /\ ctx = [merchant |-> "", namespace |-> ""]
    /\ super = FALSE
    /\ asked = [verified |-> FALSE, merchant |-> ""]
    /\ status = "running"
    /\ reach = {}

-----------------------------------------------------------------------------
(* writeIntoHeader, for a login l that was verified or not.  Operators     *)
(* whose name has an underscore are slips a run must catch.                *)

(* canSwitchMerchant *)
CanSwitch(l) == l.superAdmin \/ l.merchant \in SuperMerchants

AllowSwitch_AnyLogin(l, verified) == verified /\ req.superHost
AllowSwitch_Unverified(l, verified) == req.superHost /\ CanSwitch(l)
AllowSwitch(l, verified) == verified /\ req.superHost /\ CanSwitch(l)

(* What is left of X-Tenant-ID: the merchant of a verified login overrides *)
(* it, and without one it counts only if it is trusted.                    *)
KeptTenant_AnyGateway(l, verified) ==
    IF ~verified \/ AllowSwitch(l, verified) THEN hdr.tenant
    ELSE IF l.merchant # "" THEN l.merchant ELSE hdr.tenant
KeptTenant(l, verified) ==
    IF ~verified \/ AllowSwitch(l, verified) THEN hdr.tenant
    ELSE IF l.merchant # "" THEN l.merchant
    ELSE IF req.trusted THEN hdr.tenant ELSE ""

(* An allowed X-Merchant-ID comes first, the login's merchant last. *)
TenantOf(l, verified) ==
    IF AllowSwitch(l, verified) /\ hdr.switch # "" THEN Unstar(hdr.switch)
    ELSE IF KeptTenant(l, verified) # "" THEN KeptTenant(l, verified)
    ELSE l.merchant

(* X-Merchant-ID is removed where a verified login may not use it. *)
KeptSwitch_Consumed(l, verified) == ""
KeptSwitch(l, verified) ==
    IF verified /\ ~AllowSwitch(l, verified) THEN "" ELSE hdr.switch

(* A request for all merchants leaves MerchantID as it is. *)
MerchantHeader_First(t) == IF hdr.merchant = "" THEN Unstar(t) ELSE hdr.merchant
MerchantHeader(t) == IF Unstar(t) # "" THEN t ELSE hdr.merchant

ContextMerchant_Raw(t) == t
ContextMerchant_Stale(t) == IF Unstar(t) = "" THEN Unstar(hdr.merchant) ELSE t
ContextMerchant(t) == Unstar(t)

(* View-all: an allowed login and no resolved merchant. *)
ContextNamespace_Super(l, namespace, verified, t) ==
    IF AllowSwitch(l, verified) THEN "*" ELSE namespace
ContextNamespace(l, namespace, verified, t) ==
    IF AllowSwitch(l, verified) /\ Unstar(t) = "" THEN "*" ELSE namespace

WriteIntoHeader(l, namespace, verified) ==
    LET t == TenantOf(l, verified) IN
    /\ hdr' = [tenant |-> t, switch |-> KeptSwitch(l, verified),
               merchant |-> MerchantHeader(t), namespace |-> namespace]
    /\ ctx' = [merchant |-> ContextMerchant(t),
               namespace |-> ContextNamespace(l, namespace, verified, t)]
    /\ super' = AllowSwitch(l, verified)

Proceed == at' = at + 1 /\ status' = "running"
Abort == at' = at /\ status' = "rejected"

-----------------------------------------------------------------------------
(* CORSMiddleware: a preflight request ends here with 204. *)
CORS ==
    /\ AtMiddleware("cors")
    /\ \/ Abort /\ UNCHANGED ctx
       \/ /\ Proceed
          /\ ctx' = IF req.superHost THEN [ctx EXCEPT !.namespace = "*"] ELSE ctx
    /\ UNCHANGED <<req, chain, hdr, super, asked, reach>>

(* MerchantBindMiddleware: the login is what the headers say. *)
HeaderLogin == [kind |-> "none", merchant |-> hdr.merchant, superAdmin |-> FALSE]

BindMerchant ==
    /\ AtMiddleware("bind")
    /\ WriteIntoHeader(HeaderLogin, hdr.namespace, FALSE)
    /\ Proceed
    /\ UNCHANGED <<req, chain, asked, reach>>

(* JWTMiddleware: without a valid cookie, 401. *)
CheckAuth ==
    /\ AtMiddleware("jwt")
    /\ \/ /\ req.login.kind = "cookie"
          /\ WriteIntoHeader(req.login, Namespace, TRUE)
          /\ Proceed
       \/ /\ req.login.kind # "cookie"
          /\ Abort
          /\ UNCHANGED <<hdr, ctx, super>>
    /\ UNCHANGED <<req, chain, asked, reach>>

(* JWTAuthMiddleware: 401 without a valid bearer token, 403 when its mid   *)
(* and X-Tenant-ID name two merchants.  MerchantID is not touched.         *)
Mismatch(mid, header) == mid # "" /\ header # "" /\ mid # header

BearerTenant(mid, header) ==
    IF mid = "" /\ req.trusted THEN header ELSE mid

BearerAuth ==
    LET mid == Unstar(req.login.merchant)
        header == Unstar(hdr.tenant)
        t == BearerTenant(mid, header)
    IN
    /\ AtMiddleware("bearer")
    /\ \/ /\ req.login.kind # "bearer" \/ Mismatch(mid, header)
          /\ Abort
          /\ UNCHANGED <<hdr, ctx>>
       \/ /\ req.login.kind = "bearer" /\ ~Mismatch(mid, header)
          /\ Proceed
          /\ hdr' = [hdr EXCEPT !.switch = "",
                                !.tenant = IF t = "" /\ header = "" THEN hdr.tenant ELSE t]
          /\ ctx' = [ctx EXCEPT !.merchant = t]
    /\ UNCHANGED <<req, chain, super, asked, reach>>

(* firstNonEmpty(MerchantID, X-Tenant-ID, X-Merchant-ID): the merchant a   *)
(* quota is checked for and, after the handler, the merchant of the audit  *)
(* row and the usage event, before their last resorts (see UsageMeter).    *)
Attributed ==
    IF hdr.merchant # "" THEN hdr.merchant
    ELSE IF hdr.tenant # "" THEN hdr.tenant ELSE hdr.switch

(* OperateLogMiddleware of a create, up to c.Next(): allowQuotaOrAbort may *)
(* end the request with 402.                                               *)
OperateLog ==
    /\ AtMiddleware("oplog")
    /\ asked' = [verified |-> Verified, merchant |-> Attributed]
    /\ Proceed \/ (Unstar(Attributed) # "" /\ Abort)
    /\ UNCHANGED <<req, chain, hdr, ctx, super, reach>>

(* tenantguard: Merchant, Require and Owns. *)
GuardMerchant == Unstar(hdr.tenant)
Require_Always == TRUE
Require == GuardMerchant # "" \/ super
Owns(owner) == IF GuardMerchant = "" THEN super ELSE owner = GuardMerchant

(* The route's own guard and its handler. *)
Serve ==
    /\ status = "running"
    /\ at > Len(chain)
    /\ \/ /\ req.guarded /\ ~Require
          /\ status' = "rejected"
          /\ reach' = reach
       \/ /\ req.guarded => Require
          /\ status' = "served"
          /\ reach' = {o \in Merchant : Owns(o)}
    /\ UNCHANGED <<req, chain, at, hdr, ctx, super, asked>>

Next == CORS \/ BindMerchant \/ CheckAuth \/ BearerAuth \/ OperateLog \/ Serve

Spec == Init /\ [][Next]_vars

-----------------------------------------------------------------------------
(* Type invariant of the binding: headers and context hold no merchant the *)
(* request or its login did not name, and the context never holds "*" as a *)
(* merchant.                                                               *)
TypeOK ==
    /\ req \in Request
    /\ chain \in Chains
    /\ at \in 1..(Len(chain) + 1)
    /\ hdr \in Headers
    /\ ctx \in Context
    /\ super \in BOOLEAN
    /\ asked \in [verified : BOOLEAN, merchant : Value]
    /\ status \in {"running", "rejected", "served"}
    /\ reach \subseteq Merchant

(* The login may switch merchants on this request. *)
Switching == req.login.kind = "cookie" /\ req.superHost /\ CanSwitch(req.login)

(* After any binder, what the guards read in X-Tenant-ID and what the      *)
(* repositories read in the context is one merchant, or none in both.      *)
HeaderMatchesContext == Bound => ctx.merchant = GuardMerchant

(* user.go:136: from its verification on, a login with a merchant that may *)
(* not switch acts for that merchant, whatever headers arrived and         *)
(* whichever binders ran before or run after.                              *)
TokenDecides ==
    Verified /\ req.login.merchant \in Merchant /\ ~Switching =>
        ctx.merchant = req.login.merchant /\ GuardMerchant = req.login.merchant

(* Without a merchant in the login, a tenant header that is not trusted    *)
(* binds nothing, unless MerchantBindMiddleware asked for it.              *)
UntrustedBindsNothing ==
    Verified /\ ~Ran("bind") /\ Unstar(req.login.merchant) = "" /\ ~req.trusted /\ ~Switching =>
        ctx.merchant = "" /\ GuardMerchant = ""

(* The super-admin mark comes from a verified login allowed to switch on   *)
(* the console's host (SuperAdminContextKey).                              *)
SuperIsVerified == super => Ran("jwt") /\ Switching

(* CORSMiddleware opens every namespace on the console's host, before any  *)
(* login is known; behind JWTMiddleware all namespaces are open only to a  *)
(* super-admin who is not acting for a merchant.                           *)
WildcardIsViewAll ==
    Ran("jwt") /\ ctx.namespace = "*" => super /\ ctx.merchant = ""

(* A handler that the guards let through sees one merchant's objects, the  *)
(* one its queries are filtered by; all of them only as super-admin; and a *)
(* query without a merchant runs on a guarded route only as super-admin.   *)
GuardedScope ==
    status = "served" /\ Bound =>
        /\ super \/ reach \subseteq {ctx.merchant}
        /\ ctx.merchant # "" => reach \subseteq {ctx.merchant}
        /\ req.guarded /\ ctx.merchant = "" => super

(* A verified request that is bound to a merchant is audited and charged   *)
(* to it, and its quota was checked for it if the check came later than    *)
(* the verification; provided no MerchantID header arrived.                *)
AttributionFollowsBinding ==
    status = "served" /\ Verified /\ req.merchant = "" /\ ctx.merchant # "" =>
        /\ Attributed = ctx.merchant
        /\ asked.verified => asked.merchant = ctx.merchant

(* A binder mounted twice in a row, on the engine and on the group, binds  *)
(* the second time what it bound the first time.                           *)
RebindingIsStable ==
    [][\A x \in {"bind", "jwt", "bearer"} :
          AtMiddleware(x) /\ at > 1 /\ chain[at - 1] = x => UNCHANGED <<hdr, ctx, super>>]_vars

(* tenant.go:142: "Unswitched super-admin and every tenant host keep JWT   *)
(* merchant isolation."                                                    *)
UnswitchedKeepsToken ==
    Ran("jwt") /\ req.login.merchant \in Merchant /\ req.switch = "" =>
        ctx.merchant = req.login.merchant
=============================================================================
