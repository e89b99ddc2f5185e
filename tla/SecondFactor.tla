---------------------------- MODULE SecondFactor ----------------------------
(***************************************************************************)
(* The second factor of otp.go and SecondValidateMiddleware (jwt.go).  A   *)
(* login saves the account's TOTP secret under one Redis key per account;  *)
(* a request later presents a code and its cookie, the secret is looked up *)
(* through a replaceable resolver, and a switch lets old cookies bring the *)
(* secret themselves.  Logins, logouts, resets and requests of several     *)
(* sessions of one account interleave, and time expires keys and cookies.  *)
(*                                                                         *)
(* A code is modelled by the secret it was generated from.  The account    *)
(* service's own record (enrolled) is outside the repository.              *)
(***************************************************************************)
EXTENDS Integers, FiniteSets

CONSTANTS
    Account,      \* accounts with an id
    NoAccount,    \* login information without an account id or a user id
    Secret,       \* TOTP secrets
    NoSecret,     \* the blank secret
    Session,      \* logins
    Req,          \* requests to routes with a second factor
    Ttl,          \* values of ttl that the issuing service passes
    Lifetime,     \* how long a cookie lives
    MaxTime,      \* bound of the clock
    MaxResets,    \* bound of the changes of an account's secret
    RedisFaults   \* whether Redis may refuse a command

ASSUME SecondFactorAssumption ==
    /\ NoAccount \notin Account /\ NoSecret \notin Secret
    /\ Ttl \subseteq Int /\ {Lifetime, MaxTime, MaxResets} \subseteq Nat
    /\ RedisFaults \in BOOLEAN

VARIABLES
    now,        \* the clock
    enrolled,   \* the account service's record of each account's secret
    resets,     \* changes of that record so far
    store,      \* Redis "middle": the value and the expiry of each account's key
    login,      \* the sessions
    kept,       \* sessions whose secret was saved and not deleted or blanked since
    resolver,   \* otpResolver
    window,     \* middle.otp.allowLegacyJWTSecret
    pc, req,    \* the requests
    seen        \* history: what gave a request's code while it ran

svc == <<now, enrolled, resets, store, login, kept, resolver, window>>
vars == <<now, enrolled, resets, store, login, kept, resolver, window, pc, req, seen>>

Resolver == {"redis", "custom"}
MaybeSecret == Secret \cup {NoSecret}
NoLogin == [state |-> "none", account |-> NoAccount, until |-> 0, os |-> NoSecret, read |-> NoSecret]
NoReq == [session |-> "", code |-> NoSecret, via |-> "redis", secret |-> NoSecret]

(* GET: a key is gone from its expiry on; expiry 0 is no expiry. *)
Held(a) ==
    IF a \in Account /\ (store[a].until = 0 \/ now < store[a].until) THEN store[a].value ELSE NoSecret

(* What a resolver answers for an account when Redis works; a blank id has no *)
(* key.  A custom resolver reads the account service's record.                *)
Answer(v, a) ==
    CASE a = NoAccount -> NoSecret
      [] a # NoAccount /\ v = "redis" -> Held(a)
      [] OTHER -> enrolled[a]

-----------------------------------------------------------------------------
(* Some sessions predate the server-side secret: their cookies bring it. *)
Init ==
    /\ now = 0 /\ resets = 0
    /\ enrolled \in [Account -> Secret]
    /\ store = [a \in Account |-> [value |-> NoSecret, until |-> 0]]
    /\ login \in [Session -> {NoLogin} \cup
           {[state |-> "live", account |-> a, until |-> Lifetime, os |-> enrolled[a], read |-> NoSecret] :
                a \in Account}]
    /\ kept = {}
    /\ resolver = "redis"
    /\ window \in BOOLEAN
    /\ pc = [r \in Req |-> "idle"]
    /\ req = [r \in Req |-> NoReq]
    /\ seen = [r \in Req |-> {}]

Tick ==
    /\ now < MaxTime
    /\ now' = now + 1
    /\ UNCHANGED <<enrolled, resets, store, login, kept, resolver, window, pc, req>>

(* The issuing service reads the account and signs a cookie, without a secret. *)
SignIn(s) ==
    /\ login[s].state = "none"
    /\ \E a \in Account \cup {NoAccount} :
          login' = [login EXCEPT ![s] =
              [state |-> "signed", account |-> a, until |-> now + Lifetime, os |-> NoSecret,
               read |-> IF a = NoAccount THEN NoSecret ELSE enrolled[a]]]
    /\ UNCHANGED <<now, enrolled, resets, store, kept, resolver, window, pc, req>>

(* SET replaces value and expiry; -1 would be KEEPTTL, so a negative ttl must be *)
(* 0.  Operators whose name has an underscore are slips a run must catch.        *)
RedisTtl_Raw(ttl) == ttl
RedisTtl_Units(ttl) == IF ttl < 0 THEN 0 ELSE ttl * 1000
RedisTtl(ttl) == IF ttl < 0 THEN 0 ELSE ttl
RedisSet(a, secret, ttl) ==
    [value |-> secret,
     until |-> CASE ttl = -1 -> store[a].until [] ttl > 0 -> now + ttl [] OTHER -> 0]

(* Sessions of the other accounts. *)
Others(a) == {s \in Session : login[s].account # a}

(* SaveOTPSecret by the issuing service; whatever it returns, the cookie is *)
(* out.  A refused SET, or login information without an id, saves nothing.  *)
SaveOTPSecret(s) ==
    /\ login[s].state = "signed"
    /\ login' = [login EXCEPT ![s].state = "live"]
    /\ LET a == login[s].account  secret == login[s].read
       IN \/ /\ a # NoAccount
             /\ \E ttl \in Ttl : store' = [store EXCEPT ![a] = RedisSet(a, secret, RedisTtl(ttl))]
             /\ kept' = IF secret = NoSecret THEN kept \cap Others(a) ELSE kept \cup {s}
          \/ /\ a = NoAccount \/ RedisFaults
             /\ UNCHANGED <<store, kept>>
    /\ UNCHANGED <<now, enrolled, resets, resolver, window, pc, req>>

(* DEL of the account's key, or an error. *)
DeleteOTPSecret(a) ==
    \/ /\ a # NoAccount
       /\ store' = [store EXCEPT ![a] = [value |-> NoSecret, until |-> 0]]
       /\ kept' = kept \cap Others(a)
    \/ /\ a = NoAccount \/ RedisFaults
       /\ UNCHANGED <<store, kept>>

(* A logout ends the session; its cookie still parses until it expires. *)
Logout(s) ==
    /\ login[s].state = "live"
    /\ login' = [login EXCEPT ![s].state = "out"]
    /\ DeleteOTPSecret(login[s].account)
    /\ UNCHANGED <<now, enrolled, resets, resolver, window, pc, req>>

(* The account's secret is changed or removed and its key deleted. *)
ResetOTP(a) ==
    /\ resets < MaxResets
    /\ resets' = resets + 1
    /\ \E secret \in MaybeSecret \ {enrolled[a]} : enrolled' = [enrolled EXCEPT ![a] = secret]
    /\ DeleteOTPSecret(a)
    /\ UNCHANGED <<now, login, resolver, window, pc, req>>

SetOTPSecretResolver ==
    /\ \E v \in Resolver \ {resolver} : resolver' = v
    /\ UNCHANGED <<now, enrolled, resets, store, login, kept, window, pc, req>>

(* The migration ends: the switch is read anew by each request. *)
CloseWindow ==
    /\ window
    /\ window' = FALSE
    /\ UNCHANGED <<now, enrolled, resets, store, login, kept, resolver, pc, req>>

-----------------------------------------------------------------------------
(* SecondValidateMiddleware up to the lookup: a missing code ends with 400, *)
(* a missing or expired cookie with 401, else the resolver is fetched.      *)
Present(r) ==
    /\ pc[r] = "idle"
    /\ \E s \in Session, code \in MaybeSecret :
          /\ login[s].state # "none"
          /\ req' = [req EXCEPT ![r] =
                 [session |-> s, code |-> code, via |-> resolver, secret |-> NoSecret]]
          /\ pc' = [pc EXCEPT ![r] =
                 IF code = NoSecret \/ now >= login[s].until THEN "refused" ELSE "lookup"]
    /\ UNCHANGED svc

AccountOf(r) == login[req[r].session].account

(* The resolver answers, or fails where it asks Redis; either way an empty *)
(* answer goes on to the switch.                                           *)
Lookup(r) ==
    /\ pc[r] = "lookup"
    /\ \E found \in {Answer(req[r].via, AccountOf(r))} \cup (IF RedisFaults THEN {NoSecret} ELSE {}) :
          /\ req' = [req EXCEPT ![r].secret = found]
          /\ pc' = [pc EXCEPT ![r] = IF found # NoSecret THEN "validate" ELSE "legacy"]
    /\ UNCHANGED svc

MayUseLegacy_Always == TRUE
MayUseLegacy == window

(* legacyOTPSecret: with the switch on, the cookie's own secret, if it has one. *)
Legacy(r) ==
    /\ pc[r] = "legacy"
    /\ LET os == login[req[r].session].os
       IN IF MayUseLegacy /\ os # NoSecret
          THEN /\ req' = [req EXCEPT ![r].secret = os]
               /\ pc' = [pc EXCEPT ![r] = "validate"]
          ELSE /\ pc' = [pc EXCEPT ![r] = "refused"]
               /\ UNCHANGED req
    /\ UNCHANGED svc

Accepts(code, secret) == code = secret

Validate(r) ==
    /\ pc[r] = "validate"
    /\ pc' = [pc EXCEPT ![r] = IF Accepts(req[r].code, req[r].secret) THEN "passed" ELSE "refused"]
    /\ UNCHANGED <<svc, req>>

-----------------------------------------------------------------------------
Step ==
    \/ Tick \/ SetOTPSecretResolver \/ CloseWindow
    \/ \E s \in Session : SignIn(s) \/ SaveOTPSecret(s) \/ Logout(s)
    \/ \E a \in Account : ResetOTP(a)
    \/ \E r \in Req : Present(r) \/ Lookup(r) \/ Legacy(r) \/ Validate(r)

Running(r) == pc[r] \in {"lookup", "legacy", "validate"}

(* Which sources would in this state give a running request the secret of its *)
(* code: a resolver, or its own cookie while the switch is on.                  *)
Offered(r) ==
    {v \in Resolver : Answer(v, AccountOf(r)) = req[r].code}
    \cup {x \in {"cookie"} : window /\ login[req[r].session].os = req[r].code}

(* History variable, written with every step. *)
Watch == seen' = [r \in Req |-> IF Running(r)' THEN seen[r] \cup Offered(r)' ELSE seen[r]]

Next == Step /\ Watch

Spec == Init /\ [][Next]_vars

-----------------------------------------------------------------------------
(* Type invariant of the second factor. *)
TypeOK ==
    /\ now \in 0..MaxTime /\ resets \in 0..MaxResets
    /\ enrolled \in [Account -> MaybeSecret]
    /\ store \in [Account -> [value : MaybeSecret, until : 0..(MaxTime + Lifetime)]]
    /\ login \in [Session -> [state : {"none", "signed", "live", "out"}, account : Account \cup {NoAccount},
                              until : Nat, os : MaybeSecret, read : MaybeSecret]]
    /\ kept \subseteq Session
    /\ resolver \in Resolver /\ window \in BOOLEAN
    /\ pc \in [Req -> {"idle", "lookup", "legacy", "validate", "passed", "refused"}]
    /\ seen \in [Req -> SUBSET (Resolver \cup {"cookie"})]
    /\ req \in [Req -> [session : Session \cup {""}, code : MaybeSecret, via : Resolver, secret : MaybeSecret]]

(* A request passes only with a code for a secret that its resolver could   *)
(* answer for its own account while the request ran, or, when the migration *)
(* switch was on at some moment, for the one in its own cookie: a deleted,  *)
(* expired or other account's secret never lets it pass.                    *)
PassedOnOwnSecret ==
    \A r \in Req : pc[r] = "passed" =>
        req[r].code # NoSecret /\ {req[r].via, "cookie"} \cap seen[r] # {}

(* The secret of a live session outlives its cookie, whatever other logins *)
(* of the account do to the shared key, as long as nobody deletes or       *)
(* blanks it: every ttl is the cookie's lifetime or none (SaveOTPSecret).  *)
SessionKeepsSecret ==
    \A s \in kept : now < login[s].until => Held(login[s].account) # NoSecret

=============================================================================
