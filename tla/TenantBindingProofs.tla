------------------------ MODULE TenantBindingProofs ------------------------
(***************************************************************************)
(* The safety of the tenant binding for every set of merchants and every   *)
(* chain of middlewares, however long and in whatever order.               *)
(***************************************************************************)
EXTENDS TenantBinding, SequenceTheorems, TLAPS

(* Where the binding stands: the conjunction is inductive.  GuardedScope   *)
(* needs the header and the context to agree when the handler is reached;  *)
(* the others keep each other through the middlewares still to run.        *)
IInv ==
    /\ TypeOK
    /\ HeaderMatchesContext
    /\ TokenDecides
    /\ UntrustedBindsNothing
    /\ SuperIsVerified
    /\ GuardedScope

-----------------------------------------------------------------------------
(* The index of the next middleware moves along a finite chain. *)
LEMMA ChainLength == \A ch \in Chains : Len(ch) \in Nat
BY BindingAssumption, LenProperties

LEMMA IndexTyped ==
    ASSUME TypeOK
    PROVE  at \in Nat \ {0}
BY DEF TypeOK

LEMMA IndexStep ==
    ASSUME TypeOK, at <= Len(chain), UNCHANGED chain, at' = at + 1 \/ at' = at
    PROVE  at' \in 1..(Len(chain') + 1)
BY ChainLength DEF TypeOK

(* A middleware that ran is one that had run or the one at hand. *)
LEMMA RanStep ==
    ASSUME at \in Nat \ {0}, at' = at + 1, chain' = chain, NEW x
    PROVE  Ran(x)' <=> Ran(x) \/ chain[at] = x
BY DEF Ran

(* What has run depends on the chain and the index only. *)
LEMMA RanSame ==
    ASSUME UNCHANGED <<chain, at>>, NEW x
    PROVE  Ran(x)' <=> Ran(x)
BY DEF Ran

(* The tenant a login is bound to is a header value. *)
LEMMA TenantTyped ==
    ASSUME TypeOK, NEW l \in Login, NEW v \in BOOLEAN
    PROVE  TenantOf(l, v) \in Value
BY DEF TenantOf, KeptTenant, TypeOK, Headers, Login, Value, Unstar

(* writeIntoHeader keeps the types. *)
LEMMA WriteTyped ==
    ASSUME TypeOK, NEW l \in Login, NEW v \in BOOLEAN, NEW n \in Names,
           WriteIntoHeader(l, n, v)
    PROVE  hdr' \in Headers /\ ctx' \in Context /\ super' \in BOOLEAN
<1> DEFINE t == TenantOf(l, v)
<1>1. t \in Value
  BY TenantTyped
<1>2. Unstar(t) \in Merchant \cup {""}
  BY <1>1 DEF Unstar, Value
<1>3. hdr' \in Headers
  BY <1>1 DEF WriteIntoHeader, MerchantHeader, KeptSwitch, TypeOK, Headers, Value
<1>4. ctx' \in Context
  BY <1>2 DEF WriteIntoHeader, ContextMerchant, ContextNamespace, Context, Names
<1>5. super' \in BOOLEAN
  BY DEF WriteIntoHeader, AllowSwitch, CanSwitch, TypeOK, Request, Login
<1> QED BY <1>3, <1>4, <1>5

(* writeIntoHeader leaves header and context in agreement. *)
LEMMA WriteAgrees ==
    ASSUME NEW l, NEW v, NEW n, WriteIntoHeader(l, n, v)
    PROVE  /\ ctx'.merchant = GuardMerchant'
           /\ hdr'.tenant = TenantOf(l, v)
BY DEF WriteIntoHeader, ContextMerchant, GuardMerchant

-----------------------------------------------------------------------------
(* The initial state satisfies the invariant: nothing has run. *)
LEMMA BindingInit == Init => IInv
<1> SUFFICES ASSUME Init PROVE IInv
    OBVIOUS
<1>0. at = 1 /\ chain \in Chains
  BY DEF Init
<1>1. TypeOK
  <2>1. at \in 1..(Len(chain) + 1)
    BY <1>0, ChainLength
  <2>2. hdr \in Headers
    <3>1. req.switch \in Value /\ req.merchant \in Value
      BY DEF Init, Request
    <3>2. hdr \in [tenant : Value, switch : {req.switch}, merchant : {req.merchant}, namespace : Names]
      BY DEF Init
    <3> QED BY <3>1, <3>2 DEF Headers
  <2>3. ctx \in Context
    BY DEF Init, Context, Names
  <2>4. asked \in [verified : BOOLEAN, merchant : Value]
    BY DEF Init, Value
  <2> QED BY <2>1, <2>2, <2>3, <2>4 DEF Init, TypeOK
<1>2. \A x \in Middlewares : ~Ran(x)
  BY <1>0 DEF Ran
<1>3. super = FALSE /\ status # "served"
  BY DEF Init
<1> QED
  BY <1>1, <1>2, <1>3 DEF IInv, HeaderMatchesContext, TokenDecides, UntrustedBindsNothing,
     SuperIsVerified, GuardedScope, Bound, Verified, Middlewares

(* CORSMiddleware changes the namespace of the context only. *)
LEMMA CORSStep == IInv /\ CORS => IInv'
<1> SUFFICES ASSUME IInv, CORS PROVE IInv'
    OBVIOUS
<1> USE DEF IInv
<1>1. TypeOK'
  <2>1. at' \in 1..(Len(chain') + 1)
    BY IndexStep DEF CORS, AtMiddleware, Proceed, Abort
  <2>2. ctx' \in Context
    BY DEF CORS, TypeOK, Context, Names
  <2> QED BY <2>1, <2>2 DEF CORS, Proceed, Abort, TypeOK
<1>2. /\ ctx'.merchant = ctx.merchant /\ UNCHANGED <<req, hdr, super>>
      /\ status' # "served"
  BY DEF CORS, TypeOK, Context, Proceed, Abort
<1>3. \A x \in {"bind", "jwt", "bearer"} : Ran(x)' <=> Ran(x)
  <2> SUFFICES ASSUME NEW x \in {"bind", "jwt", "bearer"} PROVE Ran(x)' <=> Ran(x)
      OBVIOUS
  <2>1. CASE Abort BY <2>1, RanSame DEF CORS, Abort
  <2>2. CASE Proceed
    <3>1. chain[at] # x BY DEF CORS, AtMiddleware
    <3>2. at \in Nat \ {0} BY DEF TypeOK
    <3> QED BY <2>2, <3>1, <3>2, RanStep DEF CORS, Proceed
  <2> QED BY <2>1, <2>2 DEF CORS
<1> QED
  BY <1>1, <1>2, <1>3 DEF HeaderMatchesContext, TokenDecides, UntrustedBindsNothing,
     SuperIsVerified, GuardedScope, Bound, Verified, GuardMerchant, Switching, CanSwitch

(* MerchantBindMiddleware keeps a merchant that is bound and never marks a *)
(* super-admin.                                                            *)
LEMMA BindStep == IInv /\ BindMerchant => IInv'
<1> SUFFICES ASSUME IInv, BindMerchant PROVE IInv'
    OBVIOUS
<1> USE DEF IInv
<1>1. HeaderLogin \in Login /\ hdr.namespace \in Names
  BY DEF HeaderLogin, Login, TypeOK, Headers
<1>2. WriteIntoHeader(HeaderLogin, hdr.namespace, FALSE)
  BY DEF BindMerchant
<1>3. TypeOK'
  <2>1. at' \in 1..(Len(chain') + 1)
    BY IndexStep DEF BindMerchant, AtMiddleware, Proceed
  <2>2. hdr' \in Headers /\ ctx' \in Context /\ super' \in BOOLEAN
    BY <1>1, <1>2, WriteTyped
  <2> QED BY <2>1, <2>2 DEF BindMerchant, Proceed, TypeOK
<1>4. ctx'.merchant = GuardMerchant' /\ hdr'.tenant = TenantOf(HeaderLogin, FALSE)
  BY <1>2, WriteAgrees
<1>5. at \in Nat \ {0} /\ at' = at + 1 /\ UNCHANGED <<chain, req>> /\ chain[at] = "bind" /\ status' = "running"
  BY DEF BindMerchant, Proceed, AtMiddleware, TypeOK
<1>6. /\ Ran("bind")'
      /\ Ran("jwt")' <=> Ran("jwt")
      /\ Ran("bearer")' <=> Ran("bearer")
  BY <1>5, RanStep
<1>7. super' = FALSE
  BY <1>2 DEF WriteIntoHeader, AllowSwitch
<1>8. TokenDecides'
  <2> SUFFICES ASSUME Verified, req.login.merchant \in Merchant, ~Switching
               PROVE  ctx'.merchant = req.login.merchant /\ GuardMerchant' = req.login.merchant
      BY <1>5, <1>6 DEF TokenDecides, Verified, Switching, CanSwitch
  <2>1. hdr.tenant = req.login.merchant /\ hdr.tenant # "" /\ hdr.tenant # "*"
    BY BindingAssumption DEF TokenDecides, GuardMerchant, Unstar
  <2>2. TenantOf(HeaderLogin, FALSE) = hdr.tenant
    BY <2>1 DEF TenantOf, KeptTenant, AllowSwitch
  <2> QED BY <1>4, <2>1, <2>2 DEF GuardMerchant, Unstar
<1> QED
  BY <1>3, <1>4, <1>5, <1>6, <1>7, <1>8 DEF HeaderMatchesContext, UntrustedBindsNothing,
     SuperIsVerified, GuardedScope

(* JWTMiddleware binds the login of the cookie, or ends the request. *)
LEMMA JWTStep == IInv /\ CheckAuth => IInv'
<1> SUFFICES ASSUME IInv, CheckAuth PROVE IInv'
    OBVIOUS
<1> USE DEF IInv
<1>1. CASE req.login.kind = "cookie" /\ WriteIntoHeader(req.login, Namespace, TRUE) /\ Proceed
  <2>1. req.login \in Login /\ Namespace \in Names
    BY DEF TypeOK, Request, Names
  <2>2. TypeOK'
    <3>1. at' \in 1..(Len(chain') + 1)
      BY <1>1, IndexStep DEF CheckAuth, AtMiddleware, Proceed
    <3>2. hdr' \in Headers /\ ctx' \in Context /\ super' \in BOOLEAN
      BY <1>1, <2>1, WriteTyped
    <3> QED BY <1>1, <3>1, <3>2 DEF CheckAuth, Proceed, TypeOK
  <2>3. ctx'.merchant = GuardMerchant' /\ hdr'.tenant = TenantOf(req.login, TRUE)
    BY <1>1, WriteAgrees
  <2>4. at \in Nat \ {0} /\ at' = at + 1 /\ UNCHANGED <<chain, req>> /\ chain[at] = "jwt" /\ status' = "running"
    BY <1>1 DEF CheckAuth, Proceed, AtMiddleware, TypeOK
  <2>5. Ran("jwt")' /\ (Ran("bind")' <=> Ran("bind"))
    BY <2>4, RanStep
  <2>6. super' => Switching'
    BY <1>1, <2>4 DEF WriteIntoHeader, AllowSwitch, Switching, CanSwitch
  <2>7. ~Switching' => ~AllowSwitch(req.login, TRUE)
    BY <1>1, <2>4 DEF AllowSwitch, Switching, CanSwitch
  <2>8. TokenDecides'
    <3> SUFFICES ASSUME req.login.merchant \in Merchant, ~Switching'
                 PROVE  TenantOf(req.login, TRUE) = req.login.merchant
        BY <2>3, <2>4, BindingAssumption DEF TokenDecides, GuardMerchant, Unstar
    <3> QED BY <2>7, BindingAssumption DEF TenantOf, KeptTenant
  <2>9. UntrustedBindsNothing'
    <3> SUFFICES ASSUME Unstar(req.login.merchant) = "", ~req.trusted, ~Switching'
                 PROVE  Unstar(TenantOf(req.login, TRUE)) = ""
        BY <2>3, <2>4 DEF UntrustedBindsNothing, GuardMerchant, Unstar
    <3> QED BY <2>7 DEF TenantOf, KeptTenant, Unstar
  <2> QED
    BY <2>2, <2>3, <2>4, <2>5, <2>6, <2>8, <2>9 DEF HeaderMatchesContext, SuperIsVerified, GuardedScope
<1>2. CASE Abort /\ UNCHANGED <<hdr, ctx, super>>
  <2>1. UNCHANGED <<req, chain, at, hdr, ctx, super, reach>> /\ status' = "rejected" /\ asked' = asked
    BY <1>2 DEF CheckAuth, Abort
  <2>2. \A x \in Middlewares : Ran(x)' <=> Ran(x)
    BY <2>1, RanSame
  <2> QED
    BY <2>1, <2>2 DEF TypeOK, HeaderMatchesContext, TokenDecides, UntrustedBindsNothing, SuperIsVerified,
       GuardedScope, Bound, Verified, GuardMerchant, Switching, CanSwitch, Middlewares
<1> QED BY <1>1, <1>2 DEF CheckAuth

(* JWTAuthMiddleware binds the token's mid, or a trusted header, or ends   *)
(* the request.                                                            *)
LEMMA BearerStep == IInv /\ BearerAuth => IInv'
<1> SUFFICES ASSUME IInv, BearerAuth PROVE IInv'
    OBVIOUS
<1> USE DEF IInv
<1> DEFINE mid == Unstar(req.login.merchant)
           header == Unstar(hdr.tenant)
           t == BearerTenant(mid, header)
<1>1. CASE /\ req.login.kind = "bearer" /\ ~Mismatch(mid, header) /\ Proceed
           /\ hdr' = [hdr EXCEPT !.switch = "",
                                 !.tenant = IF t = "" /\ header = "" THEN hdr.tenant ELSE t]
           /\ ctx' = [ctx EXCEPT !.merchant = t]
  <2>1. mid \in Merchant \cup {""} /\ header \in Merchant \cup {""} /\ t \in Merchant \cup {""}
    BY DEF BearerTenant, Unstar, TypeOK, Request, Login, Headers, Value
  <2>2. at \in Nat \ {0} /\ at' = at + 1 /\ chain[at] = "bearer" /\ status' = "running"
        /\ UNCHANGED <<chain, req, super, asked, reach>>
    BY <1>1 DEF BearerAuth, Proceed, AtMiddleware, TypeOK
  <2>3. TypeOK'
    <3>1. at' \in 1..(Len(chain') + 1)
      BY <2>2, IndexStep DEF BearerAuth, AtMiddleware
    <3>2. hdr' \in Headers
      BY <1>1, <2>1 DEF TypeOK, Headers, Value
    <3>3. ctx' \in Context
      BY <1>1, <2>1 DEF TypeOK, Context
    <3> QED BY <2>2, <3>1, <3>2, <3>3 DEF TypeOK
  <2>4. ctx'.merchant = t /\ GuardMerchant' = t
    BY <1>1, <2>1, BindingAssumption DEF GuardMerchant, Unstar, TypeOK, Headers, Context
  <2>5. Ran("bearer")' /\ (Ran("bind")' <=> Ran("bind")) /\ (Ran("jwt")' <=> Ran("jwt"))
    BY <2>2, RanStep
  <2>6. TokenDecides'
    BY <2>1, <2>2, <2>4, BindingAssumption DEF TokenDecides, BearerTenant, Unstar
  <2>7. UntrustedBindsNothing'
    BY <2>2, <2>4 DEF UntrustedBindsNothing, BearerTenant
  <2>8. SuperIsVerified'
    BY <2>2, <2>5 DEF SuperIsVerified, Switching, CanSwitch
  <2> QED
    BY <2>2, <2>3, <2>4, <2>6, <2>7, <2>8 DEF HeaderMatchesContext, GuardedScope
<1>2. CASE Abort /\ UNCHANGED <<hdr, ctx>>
  <2>1. UNCHANGED <<req, chain, at, hdr, ctx, super, reach>> /\ status' = "rejected" /\ asked' = asked
    BY <1>2 DEF BearerAuth, Abort
  <2>2. \A x \in Middlewares : Ran(x)' <=> Ran(x)
    BY <2>1, RanSame
  <2> QED
    BY <2>1, <2>2 DEF TypeOK, HeaderMatchesContext, TokenDecides, UntrustedBindsNothing, SuperIsVerified,
       GuardedScope, Bound, Verified, GuardMerchant, Switching, CanSwitch, Middlewares
<1> QED BY <1>1, <1>2 DEF BearerAuth

(* OperateLogMiddleware reads the binding and changes nothing of it. *)
LEMMA OperateLogStep == IInv /\ OperateLog => IInv'
<1> SUFFICES ASSUME IInv, OperateLog PROVE IInv'
    OBVIOUS
<1> USE DEF IInv
<1>1. UNCHANGED <<req, chain, hdr, ctx, super, reach>> /\ status' \in {"running", "rejected"}
  BY DEF OperateLog, Proceed, Abort
<1>2. TypeOK'
  <2>1. at' \in 1..(Len(chain') + 1)
    BY IndexStep DEF OperateLog, AtMiddleware, Proceed, Abort
  <2>2. asked' \in [verified : BOOLEAN, merchant : Value]
    BY DEF OperateLog, Attributed, TypeOK, Headers, Verified, Ran
  <2> QED BY <1>1, <2>1, <2>2 DEF TypeOK
<1>3. \A x \in {"bind", "jwt", "bearer"} : Ran(x)' <=> Ran(x)
  <2> SUFFICES ASSUME NEW x \in {"bind", "jwt", "bearer"} PROVE Ran(x)' <=> Ran(x)
      OBVIOUS
  <2>1. CASE at' = at BY <1>1, <2>1, RanSame
  <2>2. CASE at' = at + 1
    <3>1. chain[at] # x BY DEF OperateLog, AtMiddleware
    <3>2. at \in Nat \ {0} BY DEF TypeOK
    <3> QED BY <1>1, <2>2, <3>1, <3>2, RanStep
  <2> QED BY <2>1, <2>2 DEF OperateLog, Proceed, Abort
<1> QED
  BY <1>1, <1>2, <1>3 DEF HeaderMatchesContext, TokenDecides, UntrustedBindsNothing,
     SuperIsVerified, GuardedScope, Bound, Verified, GuardMerchant, Switching, CanSwitch

(* The guards decide by the header; the handler's queries by the context.  *)
LEMMA ServeStep == IInv /\ Serve => IInv'
<1> SUFFICES ASSUME IInv, Serve PROVE IInv'
    OBVIOUS
<1> USE DEF IInv
<1>1. UNCHANGED <<req, chain, at, hdr, ctx, super, asked>>
  BY DEF Serve
<1>2. TypeOK'
  BY <1>1 DEF Serve, TypeOK
<1>3. \A x \in Middlewares : Ran(x)' <=> Ran(x)
  BY <1>1, RanSame
<1>4. GuardedScope'
  <2> SUFFICES ASSUME status' = "served", Bound'
               PROVE  /\ super \/ reach' \subseteq {ctx.merchant}
                      /\ ctx.merchant # "" => reach' \subseteq {ctx.merchant}
                      /\ req.guarded /\ ctx.merchant = "" => super
      BY <1>1 DEF GuardedScope
  <2>1. ctx.merchant = GuardMerchant
    BY <1>3 DEF HeaderMatchesContext, Bound, Middlewares
  <2>2. reach' = {o \in Merchant : Owns(o)} /\ (req.guarded => Require)
    BY DEF Serve
  <2> QED BY <2>1, <2>2 DEF Owns, Require
<1> QED
  BY <1>1, <1>2, <1>3, <1>4 DEF HeaderMatchesContext, TokenDecides, UntrustedBindsNothing,
     SuperIsVerified, Bound, Verified, GuardMerchant, Switching, CanSwitch, Middlewares

LEMMA StutterStep == IInv /\ UNCHANGED vars => IInv'
<1> SUFFICES ASSUME IInv, UNCHANGED vars PROVE IInv'
    OBVIOUS
<1>1. \A x \in Middlewares : Ran(x)' <=> Ran(x)
  BY RanSame DEF vars
<1> QED
  BY <1>1 DEF vars, IInv, TypeOK, HeaderMatchesContext, TokenDecides, UntrustedBindsNothing,
     SuperIsVerified, GuardedScope, Bound, Verified, GuardMerchant, Switching, CanSwitch, Middlewares

-----------------------------------------------------------------------------
(* The invariant holds on every route, for every login and every header.   *)
THEOREM BindingInvariant == Spec => []IInv
<1>1. IInv /\ [Next]_vars => IInv'
  BY CORSStep, BindStep, JWTStep, BearerStep, OperateLogStep, ServeStep, StutterStep DEF Next
<1> QED BY BindingInit, <1>1, PTL DEF Spec

(* The context holds a merchant or none, never the wildcard. *)
THEOREM BindingTyped == Spec => []TypeOK
<1>1. IInv => TypeOK BY DEF IInv
<1> QED BY <1>1, BindingInvariant, PTL

(* Guards and repositories read the same merchant. *)
THEOREM BindingAgrees == Spec => []HeaderMatchesContext
<1>1. IInv => HeaderMatchesContext BY DEF IInv
<1> QED BY <1>1, BindingInvariant, PTL

(* A verified login with a merchant keeps it. *)
THEOREM BindingFollowsToken == Spec => []TokenDecides
<1>1. IInv => TokenDecides BY DEF IInv
<1> QED BY <1>1, BindingInvariant, PTL

(* A tenant header that is not trusted binds nothing. *)
THEOREM BindingNeedsTrust == Spec => []UntrustedBindsNothing
<1>1. IInv => UntrustedBindsNothing BY DEF IInv
<1> QED BY <1>1, BindingInvariant, PTL

(* The super-admin mark comes from a verified login. *)
THEOREM BindingSuper == Spec => []SuperIsVerified
<1>1. IInv => SuperIsVerified BY DEF IInv
<1> QED BY <1>1, BindingInvariant, PTL

(* What the guards let a handler see is what its queries are filtered by.  *)
THEOREM BindingGuards == Spec => []GuardedScope
<1>1. IInv => GuardedScope BY DEF IInv
<1> QED BY <1>1, BindingInvariant, PTL

-----------------------------------------------------------------------------
(* Mounting a binder twice.  Where a binder has just run, running it once  *)
(* more would write what is already there.                                 *)
Settled(l, n, v) ==
    /\ hdr = [tenant |-> TenantOf(l, v), switch |-> KeptSwitch(l, v),
              merchant |-> MerchantHeader(TenantOf(l, v)), namespace |-> n]
    /\ ctx = [merchant |-> ContextMerchant(TenantOf(l, v)),
              namespace |-> ContextNamespace(l, n, v, TenantOf(l, v))]
    /\ super = AllowSwitch(l, v)

BearerKept ==
    LET header == Unstar(hdr.tenant)
        t == BearerTenant(Unstar(req.login.merchant), header)
    IN /\ hdr.switch = ""
       /\ hdr.tenant = IF t = "" /\ header = "" THEN hdr.tenant ELSE t
       /\ ctx.merchant = t

Last(x) == at > 1 /\ chain[at - 1] = x

SettledInv ==
    /\ Last("bind") => Settled(HeaderLogin, hdr.namespace, FALSE)
    /\ Last("jwt") => Settled(req.login, Namespace, TRUE)
    /\ Last("bearer") => BearerKept

(* A verified login: the tenant it is bound to is the one it would be bound *)
(* to again.                                                               *)
LEMMA LoginSettles ==
    ASSUME IInv, WriteIntoHeader(req.login, Namespace, TRUE), req' = req
    PROVE  Settled(req.login, Namespace, TRUE)'
<1> DEFINE l == req.login
           t == TenantOf(l, TRUE)
           allowed == AllowSwitch(l, TRUE)
<1>1. hdr' = [tenant |-> t, switch |-> KeptSwitch(l, TRUE), merchant |-> MerchantHeader(t),
              namespace |-> Namespace]
      /\ ctx' = [merchant |-> ContextMerchant(t), namespace |-> ContextNamespace(l, Namespace, TRUE, t)]
      /\ super' = allowed
  BY DEF WriteIntoHeader
<1>2. l' = l /\ (allowed' <=> allowed) /\ allowed' = allowed
  BY DEF AllowSwitch, CanSwitch
<1>3. t' = t
  <2>1. CASE allowed
    BY <1>1, <1>2, <2>1 DEF TenantOf, KeptTenant, KeptSwitch, Unstar
  <2>2. CASE ~allowed
    BY <1>1, <1>2, <2>2 DEF TenantOf, KeptTenant
  <2> QED BY <2>1, <2>2
<1>4. KeptSwitch(l, TRUE)' = hdr'.switch
  BY <1>1, <1>2 DEF KeptSwitch
<1>5. MerchantHeader(t)' = hdr'.merchant
  BY <1>1, <1>3 DEF MerchantHeader, Unstar
<1>6. ContextNamespace(l, Namespace, TRUE, t)' = ContextNamespace(l, Namespace, TRUE, t)
  BY <1>2, <1>3 DEF ContextNamespace, Unstar
<1>7. ContextMerchant(t)' = ContextMerchant(t)
  BY <1>3 DEF ContextMerchant, Unstar
<1> QED
  BY <1>1, <1>2, <1>3, <1>4, <1>5, <1>6, <1>7 DEF Settled

(* A login taken from the headers: the headers it wrote name it again. *)
LEMMA HeaderSettles ==
    ASSUME IInv, WriteIntoHeader(HeaderLogin, hdr.namespace, FALSE)
    PROVE  Settled(HeaderLogin, hdr.namespace, FALSE)'
<1> DEFINE l == HeaderLogin
           t == TenantOf(l, FALSE)
<1>1. hdr' = [tenant |-> t, switch |-> KeptSwitch(l, FALSE), merchant |-> MerchantHeader(t),
              namespace |-> hdr.namespace]
      /\ ctx' = [merchant |-> ContextMerchant(t),
                 namespace |-> ContextNamespace(l, hdr.namespace, FALSE, t)]
      /\ super' = FALSE
  BY DEF WriteIntoHeader, AllowSwitch
<1>2. t = IF hdr.tenant # "" THEN hdr.tenant ELSE hdr.merchant
  BY DEF TenantOf, KeptTenant, AllowSwitch, HeaderLogin
<1>3. t' = t
  <2>1. t' = IF hdr'.tenant # "" THEN hdr'.tenant ELSE hdr'.merchant
    BY DEF TenantOf, KeptTenant, AllowSwitch, HeaderLogin
  <2>2. t = "" => hdr'.merchant = ""
    BY <1>1, <1>2 DEF MerchantHeader, Unstar
  <2> QED BY <1>1, <2>1, <2>2
<1>4. KeptSwitch(l, FALSE)' = hdr'.switch
  BY <1>1 DEF KeptSwitch
<1>5. MerchantHeader(t)' = hdr'.merchant
  BY <1>1, <1>3 DEF MerchantHeader, Unstar
<1>6. ContextNamespace(l, hdr.namespace, FALSE, t)' = ctx'.namespace
  BY <1>1 DEF ContextNamespace, AllowSwitch
<1>7. ContextMerchant(t)' = ctx'.merchant
  BY <1>1, <1>3 DEF ContextMerchant, Unstar
<1>8. AllowSwitch(l, FALSE)' = FALSE
  BY DEF AllowSwitch
<1>9. hdr'.namespace = hdr.namespace
  BY <1>1
<1> QED
  BY <1>1, <1>3, <1>4, <1>5, <1>6, <1>7, <1>8, <1>9 DEF Settled

(* The step of a chain is the one of the middleware at hand. *)
LEMMA Dispatch ==
    ASSUME TypeOK, Next, NEW x \in {"bind", "jwt", "bearer"}, AtMiddleware(x)
    PROVE  /\ x = "bind" => BindMerchant
           /\ x = "jwt" => CheckAuth
           /\ x = "bearer" => BearerAuth
<1>1. ~Serve
  <2>1. at <= Len(chain) BY DEF AtMiddleware
  <2>2. at \in Nat /\ Len(chain) \in Nat BY ChainLength DEF TypeOK
  <2> QED BY <2>1, <2>2 DEF Serve
<1>2. ~CORS /\ ~OperateLog
  BY DEF AtMiddleware, CORS, OperateLog
<1>3. /\ BindMerchant => x = "bind"
      /\ CheckAuth => x = "jwt"
      /\ BearerAuth => x = "bearer"
  BY DEF AtMiddleware, BindMerchant, CheckAuth, BearerAuth
<1> QED BY <1>1, <1>2, <1>3 DEF Next

(* What a binder would write depends on the request and what is written. *)
LEMMA SettledSame ==
    ASSUME UNCHANGED <<req, hdr, ctx, super>>
    PROVE  /\ Settled(HeaderLogin, hdr.namespace, FALSE)' <=> Settled(HeaderLogin, hdr.namespace, FALSE)
           /\ Settled(req.login, Namespace, TRUE)' <=> Settled(req.login, Namespace, TRUE)
           /\ BearerKept' <=> BearerKept
<1>1. HeaderLogin' = HeaderLogin /\ req.login' = req.login
  BY DEF HeaderLogin
<1>2. \A l, v : AllowSwitch(l, v)' = AllowSwitch(l, v)
  BY DEF AllowSwitch, CanSwitch
<1>3. ASSUME NEW l, NEW v
      PROVE  TenantOf(l, v)' = TenantOf(l, v) /\ KeptSwitch(l, v)' = KeptSwitch(l, v)
  <2>1. AllowSwitch(l, v)' = AllowSwitch(l, v)
    BY <1>2
  <2>2. KeptTenant(l, v)' = KeptTenant(l, v)
    BY <2>1 DEF KeptTenant
  <2>3. TenantOf(l, v)' = TenantOf(l, v)
    BY <2>1, <2>2 DEF TenantOf
  <2>4. KeptSwitch(l, v)' = KeptSwitch(l, v)
    BY <2>1 DEF KeptSwitch
  <2> QED BY <2>3, <2>4
<1>4. ASSUME NEW l, NEW n, NEW v, NEW t
      PROVE  ContextNamespace(l, n, v, t)' = ContextNamespace(l, n, v, t)
  <2>1. AllowSwitch(l, v)' = AllowSwitch(l, v)
    BY <1>2
  <2> QED BY <2>1 DEF ContextNamespace
<1>5. \A t : MerchantHeader(t)' = MerchantHeader(t)
  BY DEF MerchantHeader
<1>6. ASSUME NEW l, NEW n, NEW v PROVE Settled(l, n, v)' <=> Settled(l, n, v)
  <2> DEFINE t == TenantOf(l, v)
             k == KeptSwitch(l, v)
             m == MerchantHeader(t)
             c == ContextMerchant(t)
             s == ContextNamespace(l, n, v, t)
             a == AllowSwitch(l, v)
  <2>1. t' = t /\ k' = k /\ a' = a
    BY <1>2, <1>3
  <2>2. m' = m /\ c' = c /\ s' = s
    BY <1>4, <1>5, <2>1 DEF ContextMerchant, Unstar
  <2>3. Settled(l, n, v) <=>
           /\ hdr = [tenant |-> t, switch |-> k, merchant |-> m, namespace |-> n]
           /\ ctx = [merchant |-> c, namespace |-> s]
           /\ super = a
    BY Zenon DEF Settled
  <2>4. Settled(l, n, v)' <=>
           /\ hdr' = [tenant |-> t', switch |-> k', merchant |-> m', namespace |-> n]
           /\ ctx' = [merchant |-> c', namespace |-> s']
           /\ super' = a'
    BY Zenon DEF Settled
  <2> HIDE DEF t, k, m, c, s, a
  <2> QED BY <2>1, <2>2, <2>3, <2>4
<1>7. BearerKept' <=> BearerKept
  BY DEF BearerKept, BearerTenant
<1> QED BY <1>1, <1>6, <1>7, Zenon

(* After a step of the chain, the binder that ran last is settled. *)
LEMMA SettledStep == IInv /\ SettledInv /\ [Next]_vars => SettledInv'
<1> SUFFICES ASSUME IInv, SettledInv, [Next]_vars PROVE SettledInv'
    OBVIOUS
<1>1. at \in Nat \ {0} /\ req' = req /\ chain' = chain
  <2>1. at \in Nat \ {0}
    BY IndexTyped DEF IInv
  <2>2. Next => req' = req /\ chain' = chain
    BY DEF Next, CORS, BindMerchant, CheckAuth, BearerAuth, OperateLog, Serve
  <2>3. UNCHANGED vars => req' = req /\ chain' = chain
    BY DEF vars
  <2> QED BY <2>1, <2>2, <2>3
<1>2. CASE at' = at /\ UNCHANGED <<hdr, ctx, super>>
  <2>1. \A x : Last(x)' <=> Last(x)
    BY <1>1, <1>2 DEF Last
  <2>2. /\ Settled(HeaderLogin, hdr.namespace, FALSE)' <=> Settled(HeaderLogin, hdr.namespace, FALSE)
        /\ Settled(req.login, Namespace, TRUE)' <=> Settled(req.login, Namespace, TRUE)
        /\ BearerKept' <=> BearerKept
    BY <1>1, <1>2, SettledSame
  <2> QED BY <2>1, <2>2 DEF SettledInv
<1>3. CASE at' = at + 1 /\ chain[at] \in {"cors", "oplog"}
  <2>1. at' - 1 = at
    BY <1>1, <1>3
  <2> QED BY <1>1, <1>3, <2>1 DEF SettledInv, Last
<1>4. CASE BindMerchant
  <2>1. chain'[at' - 1] = "bind"
    BY <1>1, <1>4 DEF BindMerchant, AtMiddleware, Proceed
  <2>2. Settled(HeaderLogin, hdr.namespace, FALSE)'
    BY <1>4, HeaderSettles DEF BindMerchant
  <2> QED BY <2>1, <2>2 DEF SettledInv, Last
<1>5. CASE CheckAuth /\ Proceed
  <2>1. chain'[at' - 1] = "jwt"
    BY <1>1, <1>5 DEF CheckAuth, AtMiddleware, Proceed
  <2>2. Settled(req.login, Namespace, TRUE)'
    BY <1>1, <1>5, LoginSettles DEF CheckAuth, Proceed, Abort
  <2> QED BY <2>1, <2>2 DEF SettledInv, Last
<1>6. CASE BearerAuth /\ Proceed
  <2>1. chain'[at' - 1] = "bearer"
    BY <1>1, <1>6 DEF BearerAuth, AtMiddleware, Proceed
  <2> DEFINE mid == Unstar(req.login.merchant)
             header == Unstar(hdr.tenant)
             t == BearerTenant(mid, header)
  <2>2. /\ hdr' = [hdr EXCEPT !.switch = "", !.tenant = IF t = "" /\ header = "" THEN hdr.tenant ELSE t]
        /\ ctx' = [ctx EXCEPT !.merchant = t]
        /\ ~Mismatch(mid, header)
    BY <1>6 DEF BearerAuth, Proceed, Abort
  <2>3. hdr \in Headers /\ ctx \in Context /\ mid # "*" /\ header # "*"
    BY DEF IInv, TypeOK, Unstar
  <2>4. hdr'.switch = "" /\ ctx'.merchant = t
        /\ hdr'.tenant = IF t = "" /\ header = "" THEN hdr.tenant ELSE t
    BY <2>2, <2>3 DEF Headers, Context
  <2>5. header' = t /\ mid' = mid
    BY <1>1, <2>3, <2>4 DEF Unstar, BearerTenant
  <2>6. t' = t
    BY <1>1, <2>5 DEF BearerTenant
  <2>7. BearerKept'
    BY <2>4, <2>5, <2>6 DEF BearerKept
  <2> QED BY <2>1, <2>7 DEF SettledInv, Last
<1>7. ASSUME CORS \/ OperateLog PROVE SettledInv'
  BY <1>2, <1>3, <1>7 DEF CORS, OperateLog, Proceed, Abort, AtMiddleware
<1>8. ASSUME CheckAuth PROVE SettledInv'
  BY <1>2, <1>5, <1>8 DEF CheckAuth, Abort
<1>9. ASSUME BearerAuth PROVE SettledInv'
  BY <1>2, <1>6, <1>9 DEF BearerAuth, Abort
<1>10. ASSUME Serve \/ UNCHANGED vars PROVE SettledInv'
  BY <1>2, <1>10 DEF Serve, vars
<1> QED
  BY <1>4, <1>7, <1>8, <1>9, <1>10 DEF Next

(* A binder that runs where it is settled changes nothing. *)
LEMMA SettledRepeats ==
    ASSUME IInv, SettledInv, Next, NEW x \in {"bind", "jwt", "bearer"}, AtMiddleware(x), Last(x)
    PROVE  UNCHANGED <<hdr, ctx, super>>
<1>1. CASE x = "bind"
  <2>1. BindMerchant /\ Settled(HeaderLogin, hdr.namespace, FALSE)
    BY <1>1, Dispatch DEF IInv, SettledInv
  <2> QED BY <2>1 DEF BindMerchant, Settled, WriteIntoHeader
<1>2. CASE x = "jwt"
  <2>1. CheckAuth /\ Settled(req.login, Namespace, TRUE)
    BY <1>2, Dispatch DEF IInv, SettledInv
  <2> QED BY <2>1 DEF CheckAuth, Settled, WriteIntoHeader
<1>3. CASE x = "bearer"
  <2>1. BearerAuth /\ BearerKept
    BY <1>3, Dispatch DEF IInv, SettledInv
  <2>2. hdr \in Headers /\ ctx \in Context
    BY DEF IInv, TypeOK
  <2>3. /\ hdr = [hdr EXCEPT !.switch = hdr.switch, !.tenant = hdr.tenant]
        /\ ctx = [ctx EXCEPT !.merchant = ctx.merchant]
    BY <2>2 DEF Headers, Context
  <2>4. UNCHANGED <<hdr, ctx>>
    BY <2>1, <2>3 DEF BearerAuth, BearerKept
  <2> QED BY <2>1, <2>4 DEF BearerAuth
<1> QED BY <1>1, <1>2, <1>3

(* A binder mounted twice in a row binds the second time what it bound the *)
(* first time, on every route.                                             *)
THEOREM BindingStable == Spec => RebindingIsStable
<1>1. Init => SettledInv
  <2>1. Init => at = 1
    BY DEF Init
  <2> QED BY <2>1 DEF SettledInv, Last
<1>2. IInv /\ SettledInv /\ [Next]_vars =>
         [\A x \in {"bind", "jwt", "bearer"} :
             AtMiddleware(x) /\ at > 1 /\ chain[at - 1] = x => UNCHANGED <<hdr, ctx, super>>]_vars
  BY SettledRepeats DEF Last
<1> QED BY <1>1, <1>2, SettledStep, BindingInvariant, PTL DEF Spec, RebindingIsStable

-----------------------------------------------------------------------------
(* Nothing has run when a request arrives. *)
LEMMA NothingRan == Init => \A x : ~Ran(x)
<1>1. Init => at = 1
  BY DEF Init
<1> QED BY <1>1 DEF Ran

(* All namespaces.  CORSMiddleware is mounted on the engine, JWTMiddleware *)
(* on its groups (README.md:41): it never runs after the verification.     *)
CorsFirst ==
    \A ch \in Chains : \A i, j \in 1..Len(ch) : ch[i] = "jwt" /\ ch[j] = "cors" => j < i

(* Once the cookie is verified the namespace header is the login's, so a   *)
(* later MerchantBindMiddleware cannot open the context again.             *)
NamespaceInv ==
    Ran("jwt") =>
        /\ req.login.kind = "cookie"
        /\ hdr.namespace = Namespace
        /\ ctx.namespace = "*" => super /\ ctx.merchant = ""

LEMMA NamespaceStep ==
    ASSUME CorsFirst, IInv, NamespaceInv, [Next]_vars
    PROVE  NamespaceInv'
<1>1. at \in Nat \ {0} /\ chain \in Chains /\ ctx \in Context /\ Namespace # "*"
  <2>1. Namespace # "*"
    BY BindingAssumption
  <2>2. at \in Nat \ {0} /\ chain \in Chains /\ ctx \in Context
    BY IndexTyped DEF IInv, TypeOK
  <2> QED BY <2>1, <2>2
<1>2. CASE UNCHANGED <<req, chain, at, hdr, ctx, super>>
  BY <1>2 DEF NamespaceInv, Ran
<1>3. CASE CORS /\ Proceed
  <2>1. ~Ran("jwt")
    <3> SUFFICES ASSUME NEW i \in 1..(at - 1), chain[i] = "jwt" PROVE FALSE
        BY DEF Ran
    <3>1. at \in 1..Len(chain) /\ chain[at] = "cors" /\ i \in 1..Len(chain)
      BY <1>1, <1>3, ChainLength DEF CORS, AtMiddleware
    <3>2. at < i
      BY <1>1, <3>1 DEF CorsFirst
    <3> QED BY <1>1, <3>2
  <2>2. ~Ran("jwt")'
    BY <1>1, <1>3, <2>1, RanStep DEF CORS, Proceed, AtMiddleware
  <2> QED BY <2>2 DEF NamespaceInv
<1>4. CASE OperateLog /\ Proceed
  <2>1. Ran("jwt")' <=> Ran("jwt")
    BY <1>1, <1>4, RanStep DEF OperateLog, Proceed, AtMiddleware
  <2> QED BY <1>4, <2>1 DEF OperateLog, NamespaceInv
<1>5. CASE BindMerchant
  <2>1. Ran("jwt")' <=> Ran("jwt")
    BY <1>1, <1>5, RanStep DEF BindMerchant, Proceed, AtMiddleware
  <2>2. hdr'.namespace = hdr.namespace /\ ctx'.namespace = hdr.namespace /\ req' = req
    BY <1>5 DEF BindMerchant, WriteIntoHeader, ContextNamespace, AllowSwitch
  <2> QED BY <1>1, <2>1, <2>2 DEF NamespaceInv
<1>6. CASE CheckAuth /\ Proceed
  <2>1. /\ req.login.kind = "cookie" /\ req' = req
        /\ WriteIntoHeader(req.login, Namespace, TRUE)
    BY <1>6 DEF CheckAuth, Proceed, Abort
  <2> DEFINE t == TenantOf(req.login, TRUE)
  <2>2. /\ hdr'.namespace = Namespace /\ super' = AllowSwitch(req.login, TRUE)
        /\ ctx'.merchant = Unstar(t)
        /\ ctx'.namespace = IF AllowSwitch(req.login, TRUE) /\ Unstar(t) = "" THEN "*" ELSE Namespace
    BY <2>1 DEF WriteIntoHeader, ContextMerchant, ContextNamespace
  <2> QED BY <1>1, <2>1, <2>2 DEF NamespaceInv
<1>7. CASE BearerAuth /\ Proceed
  <2>1. req.login.kind = "bearer" /\ req' = req
    BY <1>7 DEF BearerAuth, Proceed, Abort
  <2>2. Ran("jwt")' <=> Ran("jwt")
    BY <1>1, <1>7, RanStep DEF BearerAuth, Proceed, AtMiddleware
  <2> QED BY <2>1, <2>2 DEF NamespaceInv
<1>8. Serve \/ UNCHANGED vars => UNCHANGED <<req, chain, at, hdr, ctx, super>>
  BY DEF Serve, vars
<1>9. (CORS \/ OperateLog \/ CheckAuth \/ BearerAuth) /\ ~Proceed
        => UNCHANGED <<req, chain, at, hdr, ctx, super>>
  BY DEF CORS, OperateLog, CheckAuth, BearerAuth, Abort
<1> QED BY <1>2, <1>3, <1>4, <1>5, <1>6, <1>7, <1>8, <1>9 DEF Next

(* Behind JWTMiddleware every namespace is open only to a super-admin who  *)
(* is not acting for a merchant (user.go, writeIntoHeader), on every       *)
(* route that mounts CORSMiddleware before it.                             *)
THEOREM BindingViewAll ==
    ASSUME CorsFirst
    PROVE  Spec => []WildcardIsViewAll
<1>1. Init => NamespaceInv
  <2>1. Init => ~Ran("jwt")
    BY NothingRan
  <2> QED BY <2>1 DEF NamespaceInv
<1>2. IInv /\ NamespaceInv /\ [Next]_vars => NamespaceInv'
  BY NamespaceStep
<1>3. NamespaceInv => WildcardIsViewAll
  BY DEF NamespaceInv, WildcardIsViewAll
<1> QED BY <1>1, <1>2, <1>3, BindingInvariant, PTL DEF Spec

-----------------------------------------------------------------------------
(* Attribution.  MerchantID comes first in it and no binder clears it, so  *)
(* what an unverified binder left there must be what the verification      *)
(* binds, or nothing may be bound.  Before the verification MerchantID is  *)
(* empty or a copy of X-Tenant-ID.                                         *)
Before ==
    /\ hdr.merchant \in Merchant \cup {""}
    /\ hdr.merchant # "" => hdr.tenant = hdr.merchant

(* A login on the console's host that may switch, for the whole request. *)
Allowed == AllowSwitch(req.login, TRUE)

(* Behind JWTMiddleware: a merchant in X-Tenant-ID is also in MerchantID,  *)
(* and what a further binder would take instead is the same merchant.      *)
CookieBound ==
    /\ hdr.merchant \in Merchant \cup {""}
    /\ hdr.tenant \in Merchant => hdr.merchant = hdr.tenant
    /\ Allowed /\ hdr.switch # "" =>
          \/ hdr.tenant = Unstar(hdr.switch)
          \/ hdr.switch = "*" /\ hdr.tenant = hdr.merchant
    /\ Allowed /\ hdr.switch = "" =>
          hdr.tenant # "" \/ (req.login.merchant = "" /\ hdr.merchant = "")
    /\ ~Allowed =>
          /\ hdr.switch = ""
          /\ req.login.merchant # "" => hdr.tenant = req.login.merchant
          /\ req.login.merchant = "" /\ req.trusted => hdr.tenant # "" \/ hdr.merchant = ""
          /\ req.login.merchant = "" /\ ~req.trusted => hdr.tenant \in {"", hdr.merchant}

(* Behind JWTAuthMiddleware, which leaves MerchantID as it finds it. *)
BearerBound ==
    /\ hdr.merchant \in Merchant \cup {""}
    /\ hdr.switch = ""
    /\ hdr.tenant \in Merchant => hdr.merchant \in {"", hdr.tenant}
    /\ Unstar(req.login.merchant) # "" => hdr.tenant = Unstar(req.login.merchant)
    /\ Unstar(req.login.merchant) = "" /\ req.trusted =>
          (hdr.merchant # "" => hdr.tenant = hdr.merchant)
    /\ Unstar(req.login.merchant) = "" /\ ~req.trusted => hdr.tenant \in {"", "*", hdr.merchant}

(* What a request is attributed to stays from its verification on. *)
AttributedInv ==
    req.merchant = "" =>
        /\ ~Verified => Before
        /\ Ran("jwt") => req.login.kind = "cookie" /\ CookieBound
        /\ Ran("bearer") => req.login.kind = "bearer" /\ BearerBound
        /\ asked.verified => Verified /\ asked.merchant = Attributed

(* What the headers and the login can hold. *)
LEMMA HeaderValues ==
    ASSUME TypeOK
    PROVE  /\ hdr.tenant \in Merchant \cup {"", "*"}
           /\ hdr.switch \in Merchant \cup {"", "*"}
           /\ req.login.merchant \in Merchant \cup {"", "*"}
           /\ "" \notin Merchant /\ "*" \notin Merchant
           /\ hdr = [tenant |-> hdr.tenant, switch |-> hdr.switch, merchant |-> hdr.merchant,
                     namespace |-> hdr.namespace]
<1>1. "" \notin Merchant /\ "*" \notin Merchant
  BY BindingAssumption
<1>2. hdr \in Headers /\ req \in Request
  BY DEF TypeOK
<1>3. req.login \in Login
  BY <1>2 DEF Request
<1> QED BY <1>1, <1>2, <1>3 DEF Headers, Login, Value

(* MerchantBindMiddleware copies X-Tenant-ID and MerchantID to each other. *)
LEMMA BindKeeps ==
    ASSUME TypeOK, BindMerchant
    PROVE  /\ Before => Before'
           /\ CookieBound => CookieBound' /\ Attributed' = Attributed
           /\ BearerBound => BearerBound' /\ Attributed' = Attributed
<1> DEFINE t == IF hdr.tenant # "" THEN hdr.tenant ELSE hdr.merchant
<1>1. /\ hdr'.tenant = t /\ hdr'.switch = hdr.switch
      /\ hdr'.merchant = IF t \in {"", "*"} THEN hdr.merchant ELSE t
      /\ req' = req /\ Allowed' = Allowed
  BY DEF BindMerchant, WriteIntoHeader, TenantOf, KeptTenant, KeptSwitch, MerchantHeader, Unstar,
     AllowSwitch, HeaderLogin, Allowed, CanSwitch
<1>2. Before => Before'
  BY <1>1, HeaderValues DEF Before
<1>3. CookieBound => CookieBound' /\ Attributed' = Attributed
  BY <1>1, HeaderValues DEF CookieBound, Attributed, Unstar
<1>4. BearerBound => BearerBound' /\ Attributed' = Attributed
  BY <1>1, HeaderValues DEF BearerBound, Attributed, Unstar
<1> QED BY <1>2, <1>3, <1>4

(* JWTMiddleware binds what it bound before, if it did. *)
LEMMA LoginKeeps ==
    ASSUME TypeOK, WriteIntoHeader(req.login, Namespace, TRUE), req' = req
    PROVE  /\ Before => CookieBound'
           /\ CookieBound => CookieBound' /\ Attributed' = Attributed
<1> DEFINE l == req.login.merchant
           kept == IF Allowed THEN hdr.tenant
                   ELSE IF l # "" THEN l
                   ELSE IF req.trusted THEN hdr.tenant ELSE ""
           t == IF Allowed /\ hdr.switch # "" THEN Unstar(hdr.switch)
                ELSE IF kept # "" THEN kept ELSE l
<1>1. /\ hdr'.tenant = t /\ hdr'.switch = IF Allowed THEN hdr.switch ELSE ""
      /\ hdr'.merchant = IF t \in {"", "*"} THEN hdr.merchant ELSE t
      /\ Allowed' = Allowed
  BY DEF WriteIntoHeader, TenantOf, KeptTenant, KeptSwitch, MerchantHeader, Unstar,
     AllowSwitch, Allowed, CanSwitch
<1>2. CASE Allowed /\ hdr.switch # ""
  <2>1. CASE hdr.switch = "*"
    <3>1. hdr'.tenant = "" /\ hdr'.merchant = hdr.merchant /\ hdr'.switch = "*"
      BY <1>1, <1>2, <2>1 DEF Unstar
    <3> QED BY <1>1, <1>2, <2>1, <3>1, HeaderValues DEF Before, CookieBound, Attributed, Unstar
  <2>2. CASE hdr.switch # "*"
    <3>1. hdr.switch \in Merchant
      BY <1>2, <2>2, HeaderValues
    <3>2. hdr'.tenant = hdr.switch /\ hdr'.merchant = hdr.switch /\ hdr'.switch = hdr.switch
      BY <1>1, <1>2, <2>2, <3>1, HeaderValues DEF Unstar
    <3> QED BY <1>1, <1>2, <3>1, <3>2, HeaderValues DEF Before, CookieBound, Attributed, Unstar
  <2> QED BY <2>1, <2>2
<1>3. CASE Allowed /\ hdr.switch = ""
  BY <1>1, <1>3, HeaderValues DEF Before, CookieBound, Attributed, Unstar
<1>4. CASE ~Allowed
  BY <1>1, <1>4, HeaderValues DEF Before, CookieBound, Attributed, Unstar
<1> QED BY <1>2, <1>3, <1>4

(* JWTAuthMiddleware refuses a tenant that is not its token's. *)
LEMMA TokenKeeps ==
    ASSUME TypeOK, BearerAuth, Proceed
    PROVE  /\ Before => BearerBound'
           /\ BearerBound => BearerBound' /\ Attributed' = Attributed
<1> DEFINE mid == Unstar(req.login.merchant)
           header == Unstar(hdr.tenant)
           t == IF mid = "" /\ req.trusted THEN header ELSE mid
<1>1. /\ ~Mismatch(mid, header) /\ req' = req
      /\ hdr' = [hdr EXCEPT !.switch = "",
                            !.tenant = IF t = "" /\ header = "" THEN hdr.tenant ELSE t]
  BY DEF BearerAuth, BearerTenant, Proceed, Abort
<1>2. /\ hdr'.switch = "" /\ hdr'.merchant = hdr.merchant
      /\ hdr'.tenant = IF t = "" /\ header = "" THEN hdr.tenant ELSE t
  BY <1>1, HeaderValues
<1>3. mid = "" \/ header = "" \/ mid = header
  BY <1>1 DEF Mismatch
<1>4. Before => BearerBound'
  BY <1>1, <1>2, <1>3, HeaderValues DEF Before, BearerBound, Unstar
<1>5. BearerBound => BearerBound' /\ Attributed' = Attributed
  BY <1>1, <1>2, <1>3, HeaderValues DEF BearerBound, Attributed, Unstar
<1> QED BY <1>4, <1>5

(* What OperateLogMiddleware asked the quota for stays what the request is *)
(* attributed to.                                                          *)
LEMMA AttributedStep ==
    ASSUME IInv, AttributedInv, [Next]_vars
    PROVE  AttributedInv'
<1> SUFFICES ASSUME req.merchant = "", req' = req PROVE AttributedInv'
  <2>1. req' = req
    BY DEF Next, CORS, BindMerchant, CheckAuth, BearerAuth, OperateLog, Serve, vars
  <2> QED BY <2>1 DEF AttributedInv
<1> USE DEF AttributedInv
<1>1. at \in Nat \ {0} /\ TypeOK
  BY IndexTyped DEF IInv
<1>2. ASSUME UNCHANGED <<hdr, asked>>, \A x \in {"jwt", "bearer"} : Ran(x)' <=> Ran(x)
      PROVE  AttributedInv'
  BY <1>2 DEF Before, CookieBound, BearerBound, Attributed, Verified, Allowed, AllowSwitch, CanSwitch
<1>3. CASE CORS
  <2>1. \A x \in {"jwt", "bearer"} : Ran(x)' <=> Ran(x)
    <3> SUFFICES ASSUME NEW x \in {"jwt", "bearer"} PROVE Ran(x)' <=> Ran(x)
        OBVIOUS
    <3>1. chain[at] # x /\ chain' = chain
      BY <1>3 DEF CORS, AtMiddleware
    <3>2. CASE Abort
      BY <3>1, <3>2, RanSame DEF Abort
    <3>3. CASE Proceed
      BY <1>1, <3>1, <3>3, RanStep DEF Proceed
    <3> QED BY <1>3, <3>2, <3>3 DEF CORS
  <2> QED BY <1>2, <1>3, <2>1 DEF CORS
<1>4. CASE BindMerchant
  <2>1. at' = at + 1 /\ chain' = chain /\ asked' = asked /\ chain[at] = "bind"
    BY <1>4 DEF BindMerchant, Proceed, AtMiddleware
  <2>2. (Ran("jwt")' <=> Ran("jwt")) /\ (Ran("bearer")' <=> Ran("bearer"))
    BY <1>1, <2>1, RanStep
  <2>3. /\ ~Verified => Before'
        /\ Ran("jwt") => CookieBound' /\ Attributed' = Attributed
        /\ Ran("bearer") => BearerBound' /\ Attributed' = Attributed
    BY <1>1, <1>4, BindKeeps DEF Verified
  <2> QED BY <2>1, <2>2, <2>3 DEF Verified
<1>5. CASE CheckAuth /\ Proceed
  <2>1. at' = at + 1 /\ chain' = chain /\ asked' = asked /\ chain[at] = "jwt"
        /\ req.login.kind = "cookie" /\ WriteIntoHeader(req.login, Namespace, TRUE)
    BY <1>5 DEF CheckAuth, Proceed, Abort, AtMiddleware
  <2>2. Ran("jwt")' /\ ~Ran("bearer") /\ ~Ran("bearer")'
    <3>1. ~Ran("bearer")
      BY <2>1
    <3> QED BY <1>1, <2>1, <3>1, RanStep
  <2>3. CookieBound' /\ (Ran("jwt") => Attributed' = Attributed)
    BY <1>1, <2>1, <2>2, LoginKeeps DEF Verified
  <2> QED BY <2>1, <2>2, <2>3 DEF Verified
<1>6. CASE BearerAuth /\ Proceed
  <2>1. at' = at + 1 /\ chain' = chain /\ asked' = asked /\ chain[at] = "bearer"
        /\ req.login.kind = "bearer"
    BY <1>6 DEF BearerAuth, Proceed, Abort, AtMiddleware
  <2>2. Ran("bearer")' /\ ~Ran("jwt") /\ ~Ran("jwt")'
    <3>1. ~Ran("jwt")
      BY <2>1
    <3> QED BY <1>1, <2>1, <3>1, RanStep
  <2>3. BearerBound' /\ (Ran("bearer") => Attributed' = Attributed)
    BY <1>1, <1>6, <2>2, TokenKeeps DEF Verified
  <2> QED BY <2>1, <2>2, <2>3 DEF Verified
<1>7. CASE OperateLog
  <2>1. /\ chain' = chain /\ chain[at] = "oplog" /\ hdr' = hdr
        /\ asked' = [verified |-> Verified, merchant |-> Attributed]
        /\ at' = at + 1 \/ at' = at
    BY <1>7 DEF OperateLog, Proceed, Abort, AtMiddleware
  <2>2. (Ran("jwt")' <=> Ran("jwt")) /\ (Ran("bearer")' <=> Ran("bearer"))
    BY <1>1, <2>1, RanStep, RanSame
  <2>3. Attributed' = Attributed /\ (Verified' <=> Verified)
    BY <2>1, <2>2 DEF Attributed, Verified
  <2>4. asked'.verified = Verified /\ asked'.merchant = Attributed
    BY <2>1
  <2> QED BY <2>1, <2>2, <2>3, <2>4
       DEF Before, CookieBound, BearerBound, Allowed, AllowSwitch, CanSwitch
<1>8. CASE UNCHANGED <<chain, at, hdr, asked>>
  BY <1>2, <1>8, RanSame
<1>9. Serve \/ UNCHANGED vars \/ ((CheckAuth \/ BearerAuth) /\ ~Proceed)
        => UNCHANGED <<chain, at, hdr, asked>>
  BY DEF Serve, vars, CheckAuth, BearerAuth, Abort
<1> QED BY <1>3, <1>4, <1>5, <1>6, <1>7, <1>8, <1>9 DEF Next

(* A verified request that is bound to a merchant is audited and charged   *)
(* to it and its quota was checked for it, on every route and whatever     *)
(* binders run before and after the verification, provided no MerchantID   *)
(* header arrived (oplog.go, usage_quota.go, user.go).                     *)
THEOREM BindingIsAttributed == Spec => []AttributionFollowsBinding
<1>1. Init => AttributedInv
  <2> SUFFICES ASSUME Init PROVE AttributedInv
      OBVIOUS
  <2>1. ~Ran("jwt") /\ ~Ran("bearer")
    BY NothingRan
  <2>2. hdr.merchant = req.merchant /\ ~asked.verified
    BY DEF Init
  <2> QED BY <2>1, <2>2 DEF AttributedInv, Verified, Before
<1>2. IInv /\ AttributedInv => AttributionFollowsBinding
  <2> SUFFICES ASSUME IInv, AttributedInv, Verified, req.merchant = "", ctx.merchant # ""
               PROVE  Attributed = ctx.merchant /\ (asked.verified => asked.merchant = Attributed)
      BY DEF AttributionFollowsBinding
  <2>1. ctx.merchant = Unstar(hdr.tenant) /\ ctx.merchant = hdr.tenant /\ hdr.tenant \in Merchant
    BY HeaderValues DEF IInv, HeaderMatchesContext, Bound, Verified, GuardMerchant, Unstar
  <2>2. CookieBound \/ BearerBound
    BY DEF AttributedInv, Verified
  <2>3. hdr.merchant = "" \/ hdr.merchant = hdr.tenant
    BY <2>1, <2>2 DEF CookieBound, BearerBound
  <2>4. Attributed = hdr.tenant
    BY <2>1, <2>3 DEF Attributed
  <2> QED BY <2>1, <2>4 DEF AttributedInv
<1> QED BY <1>1, <1>2, AttributedStep, BindingInvariant, PTL DEF Spec

=============================================================================
