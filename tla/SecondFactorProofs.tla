------------------------- MODULE SecondFactorProofs -------------------------
(***************************************************************************)
(* The safety of the second factor for any accounts, secrets, sessions,    *)
(* requests and Redis failures.  Where a ttl matters, it is the cookie's    *)
(* lifetime or none, as the comment on SaveOTPSecret asks of its caller.    *)
(***************************************************************************)
EXTENDS SecondFactor, TLAPS

TtlIsLifetime == \A ttl \in Ttl : ttl = Lifetime \/ ttl <= 0

(* One session, one request, and one key of Redis. *)
LoginType == [state : {"none", "signed", "live", "out"}, account : Account \cup {NoAccount},
              until : Nat, os : MaybeSecret, read : MaybeSecret]
ReqType == [session : Session \cup {""}, code : MaybeSecret, via : Resolver, secret : MaybeSecret]
KeyType == [value : MaybeSecret, until : 0..(MaxTime + Lifetime)]

(* A session was issued no later than now. *)
Issued == \A s \in Session : login[s].until <= now + Lifetime

(* The key of a kept session's account is set, and not to expire before it. *)
KeptInv ==
    \A s \in kept :
        LET a == login[s].account
        IN /\ a \in Account
           /\ login[s].state \in {"live", "out"}
           /\ store[a].value # NoSecret
           /\ store[a].until = 0 \/ login[s].until <= store[a].until

(* A request under way has presented the cookie of a session. *)
Presented == \A r \in Req : pc[r] # "idle" => req[r].session \in Session

StoreInv == TypeOK /\ Issued /\ KeptInv

(* While a request runs, the history holds what the present state offers;  *)
(* a secret that equals its code came from its resolver or its cookie.     *)
Backed(r) == {req[r].via, "cookie"} \cap seen[r] # {}
ReqInv ==
    \A r \in Req :
        /\ Running(r) => req[r].code # NoSecret /\ Offered(r) \subseteq seen[r]
        /\ pc[r] = "validate" /\ req[r].secret = req[r].code => Backed(r)
        /\ pc[r] = "passed" => req[r].code # NoSecret /\ Backed(r)

-----------------------------------------------------------------------------
(* Numbers of the clock. *)
LEMMA Numbers ==
    /\ Lifetime \in Nat /\ MaxTime \in Nat /\ MaxResets \in Nat
    /\ NoAccount \notin Account /\ NoSecret \notin Secret
    /\ \A ttl \in Ttl : ttl \in Int
BY SecondFactorAssumption

(* The types again, with sessions and keys by their names. *)
LEMMA Typed ==
    TypeOK <=> /\ now \in 0..MaxTime /\ resets \in 0..MaxResets
               /\ enrolled \in [Account -> MaybeSecret]
               /\ store \in [Account -> KeyType]
               /\ login \in [Session -> LoginType]
               /\ kept \subseteq Session
               /\ resolver \in Resolver /\ window \in BOOLEAN
               /\ pc \in [Req -> {"idle", "lookup", "legacy", "validate", "passed", "refused"}]
               /\ seen \in [Req -> SUBSET (Resolver \cup {"cookie"})]
               /\ req \in [Req -> ReqType]
BY Zenon DEF TypeOK, LoginType, ReqType, KeyType

(* A session that goes on to another state stays what it is. *)
LEMMA StateChange ==
    ASSUME login \in [Session -> LoginType], NEW s \in Session, NEW x \in {"live", "out"},
           login' = [login EXCEPT ![s].state = x]
    PROVE  /\ login' \in [Session -> LoginType]
           /\ \A t \in Session : /\ login'[t].account = login[t].account /\ login'[t].until = login[t].until
                                 /\ login'[t].state = IF t = s THEN x ELSE login[t].state
BY DEF LoginType

(* Fewer kept sessions, none of which changed. *)
LEMMA KeptStable ==
    ASSUME KeptInv, kept' \subseteq kept,
           \A t \in kept' : /\ login'[t].account = login[t].account /\ login'[t].until = login[t].until
                            /\ login[t].state \in {"live", "out"} => login'[t].state \in {"live", "out"}
                            /\ store'[login[t].account] = store[login[t].account]
    PROVE  KeptInv'
BY DEF KeptInv

(* What SET leaves never expires before a cookie issued by now. *)
LEMMA SetExpiry ==
    ASSUME TtlIsLifetime, now \in 0..MaxTime, NEW a, NEW secret, NEW ttl \in Ttl
    PROVE  LET held == RedisSet(a, secret, RedisTtl(ttl))
           IN /\ held = [value |-> secret, until |-> held.until]
              /\ held.until \in 0..(MaxTime + Lifetime)
              /\ held.until = 0 \/ held.until = now + Lifetime
<1>1. CASE ttl <= 0
  <2>1. RedisTtl(ttl) = 0
    BY <1>1, Numbers DEF RedisTtl
  <2>2. RedisSet(a, secret, RedisTtl(ttl)) = [value |-> secret, until |-> 0]
    BY <2>1 DEF RedisSet
  <2> QED BY <2>2, Numbers
<1>2. CASE ttl > 0
  <2>1. RedisTtl(ttl) = Lifetime /\ Lifetime > 0
    BY <1>2, Numbers DEF RedisTtl, TtlIsLifetime
  <2>2. RedisSet(a, secret, RedisTtl(ttl)) = [value |-> secret, until |-> now + Lifetime]
    BY <2>1, Numbers DEF RedisSet
  <2> QED BY <2>2, Numbers
<1> QED BY <1>1, <1>2, Numbers

(* The history keeps its type whatever a step does. *)
LEMMA WatchTyped ==
    ASSUME TypeOK, Watch, resolver' \in Resolver
    PROVE  seen' \in [Req -> SUBSET (Resolver \cup {"cookie"})]
BY DEF Watch, TypeOK, Offered

(* A deleted key leaves the sessions of the other accounts only. *)
LEMMA DeleteKeeps ==
    ASSUME StoreInv, NEW a \in Account \cup {NoAccount}, DeleteOTPSecret(a)
    PROVE  /\ store' \in [Account -> KeyType]
           /\ kept' \subseteq kept
           /\ \A s \in kept' : store'[login[s].account] = store[login[s].account]
<1>1. CASE UNCHANGED <<store, kept>>
  BY <1>1, Typed DEF StoreInv
<1>2. CASE /\ a # NoAccount
           /\ store' = [store EXCEPT ![a] = [value |-> NoSecret, until |-> 0]]
           /\ kept' = kept \cap Others(a)
  <2>1. [value |-> NoSecret, until |-> 0] \in KeyType
    BY Numbers DEF MaybeSecret, KeyType
  <2>2. store' \in [Account -> KeyType]
    BY <1>2, <2>1, Typed DEF StoreInv
  <2>3. \A s \in kept' : login[s].account \in Account /\ login[s].account # a
    BY <1>2 DEF StoreInv, KeptInv, Others
  <2> QED BY <1>2, <2>2, <2>3 DEF StoreInv, TypeOK
<1> QED BY <1>1, <1>2 DEF DeleteOTPSecret

-----------------------------------------------------------------------------
(* Every step keeps the types and the stored secrets. *)
LEMMA StoreInit == Init => StoreInv
<1> SUFFICES ASSUME Init PROVE StoreInv
    OBVIOUS
<1> USE Numbers DEF Init, MaybeSecret
<1>1. 0 \in 0..MaxTime /\ 0 \in 0..MaxResets /\ 0 \in 0..(MaxTime + Lifetime)
  OBVIOUS
<1>2. enrolled \in [Account -> MaybeSecret]
  OBVIOUS
<1>3. store \in [Account -> KeyType]
  BY <1>1 DEF KeyType
<1>4. \A s \in Session :
        /\ login[s] \in LoginType
        /\ login[s].until <= now + Lifetime
  BY <1>2 DEF NoLogin, LoginType
<1>5. login \in [Session -> LoginType]
  BY <1>4
<1>6. TypeOK
  <2>1. seen \in [Req -> SUBSET (Resolver \cup {"cookie"})]
    OBVIOUS
  <2>2. req \in [Req -> ReqType]
    BY DEF NoReq, Resolver, ReqType
  <2> QED BY <1>1, <1>2, <1>3, <1>5, <2>1, <2>2, Typed DEF Resolver
<1> QED BY <1>4, <1>6 DEF StoreInv, Issued, KeptInv

(* SaveOTPSecret leaves a key that outlives every session it serves. *)
LEMMA SaveStep ==
    ASSUME TtlIsLifetime, StoreInv, NEW s \in Session, SaveOTPSecret(s), Watch
    PROVE  StoreInv'
<1> DEFINE a == login[s].account  secret == login[s].read
<1> USE Numbers
<1>1. /\ login' = [login EXCEPT ![s].state = "live"]
      /\ UNCHANGED <<now, enrolled, resets, resolver, window, pc, req>>
  BY DEF SaveOTPSecret
<1>2. /\ login' \in [Session -> LoginType]
      /\ \A t \in Session : /\ login'[t].account = login[t].account /\ login'[t].until = login[t].until
                            /\ login'[t].state = IF t = s THEN "live" ELSE login[t].state
  BY <1>1, StateChange, Typed DEF StoreInv
<1>a. a \in Account \cup {NoAccount} /\ secret \in MaybeSecret
  BY Typed DEF StoreInv, LoginType
<1>3. Issued'
  BY <1>1, <1>2 DEF StoreInv, Issued
<1>4. CASE UNCHANGED <<store, kept>>
  <2>1. TypeOK'
    BY <1>1, <1>2, <1>4, WatchTyped DEF StoreInv, TypeOK, LoginType, KeyType
  <2>2. \A t \in kept : /\ login'[t].account = login[t].account /\ login'[t].until = login[t].until
                        /\ login[t].state \in {"live", "out"} => login'[t].state \in {"live", "out"}
    BY <1>2 DEF StoreInv, TypeOK
  <2>3. KeptInv'
    <3>1. kept' \subseteq kept /\ \A t \in kept' :
            /\ login'[t].account = login[t].account /\ login'[t].until = login[t].until
            /\ login[t].state \in {"live", "out"} => login'[t].state \in {"live", "out"}
            /\ store'[login[t].account] = store[login[t].account]
      <4>1. store' = store /\ kept' = kept
        BY <1>4
      <4>2. \A t \in kept : store'[login[t].account] = store[login[t].account]
        BY <4>1
      <4> QED BY <2>2, <4>1, <4>2
    <3>2. KeptInv
      BY DEF StoreInv
    <3> QED BY <3>1, <3>2, KeptStable
  <2> QED BY <1>3, <2>1, <2>3 DEF StoreInv
<1>5. ASSUME a # NoAccount, NEW ttl \in Ttl,
             store' = [store EXCEPT ![a] = RedisSet(a, secret, RedisTtl(ttl))],
             kept' = IF secret = NoSecret THEN kept \cap Others(a) ELSE kept \cup {s}
      PROVE  StoreInv'
  <2> DEFINE held == RedisSet(a, secret, RedisTtl(ttl))
  <2>1. /\ held = [value |-> secret, until |-> held.until]
        /\ held.until \in 0..(MaxTime + Lifetime)
        /\ held.until = 0 \/ held.until = now + Lifetime
    BY SetExpiry DEF StoreInv, TypeOK
  <2> HIDE DEF held
  <2>2. held \in KeyType /\ held.value = secret
    BY <1>a, <2>1 DEF KeyType
  <2>3. a \in Account /\ store' = [store EXCEPT ![a] = held]
    BY <1>a, <1>5 DEF held
  <2>4. store' \in [Account -> KeyType]
    BY <2>2, <2>3, Typed DEF StoreInv
  <2>5. kept' \subseteq Session
    BY <1>5 DEF StoreInv, TypeOK
  <2>6. TypeOK'
    BY <1>1, <1>2, <2>4, <2>5, WatchTyped DEF StoreInv, TypeOK, LoginType, KeyType
  <2>7. SUFFICES ASSUME NEW t \in kept'
                 PROVE  LET b == login'[t].account
                        IN /\ b \in Account
                           /\ login'[t].state \in {"live", "out"}
                           /\ store'[b].value # NoSecret
                           /\ store'[b].until = 0 \/ login'[t].until <= store'[b].until
    BY <1>3, <2>6 DEF StoreInv, KeptInv
  <2>8. t \in Session /\ login'[t].account = login[t].account /\ login'[t].until = login[t].until
    BY <1>2, <2>5
  <2>9. login'[t].account \in Account /\ login'[t].state \in {"live", "out"}
    BY <1>2, <1>5, <2>3, <2>8 DEF StoreInv, KeptInv, Others
  <2>10. CASE login[t].account = a
    <3>1. secret # NoSecret
      BY <1>5, <2>10 DEF Others
    <3>2. store'[a] = held
      BY <2>3 DEF StoreInv, TypeOK
    <3>3. login[t].until <= now + Lifetime
      BY <2>8 DEF StoreInv, Issued
    <3> QED BY <2>1, <2>2, <2>8, <2>9, <2>10, <3>1, <3>2, <3>3
  <2>11. CASE login[t].account # a
    <3>1. t \in kept
      BY <1>5, <2>11
    <3>2. store'[login[t].account] = store[login[t].account]
      BY <2>3, <2>8, <2>9, <2>11 DEF StoreInv, TypeOK
    <3> QED BY <2>8, <2>9, <3>1, <3>2 DEF StoreInv, KeptInv
  <2> QED BY <2>10, <2>11
<1> QED BY <1>4, <1>5 DEF SaveOTPSecret

(* The session ends and its account's key is deleted. *)
LEMMA LogoutStep ==
    ASSUME StoreInv, NEW s \in Session, Logout(s), Watch
    PROVE  StoreInv'
<1> DEFINE a == login[s].account
<1>1. /\ login' = [login EXCEPT ![s].state = "out"]
      /\ UNCHANGED <<now, enrolled, resets, resolver, window, pc, req>>
      /\ DeleteOTPSecret(a)
  BY DEF Logout
<1>2. /\ login' \in [Session -> LoginType]
      /\ \A t \in Session : /\ login'[t].account = login[t].account /\ login'[t].until = login[t].until
                            /\ login'[t].state = IF t = s THEN "out" ELSE login[t].state
  BY <1>1, StateChange, Typed DEF StoreInv
<1>a. a \in Account \cup {NoAccount}
  BY Typed DEF StoreInv, LoginType
<1>3. /\ store' \in [Account -> KeyType]
      /\ kept' \subseteq kept
      /\ \A t \in kept' : store'[login[t].account] = store[login[t].account]
  BY <1>1, <1>a, DeleteKeeps
<1>4. TypeOK'
  <2>1. seen' \in [Req -> SUBSET (Resolver \cup {"cookie"})]
    BY <1>1, WatchTyped DEF StoreInv, TypeOK
  <2>2. kept' \subseteq Session
    BY <1>3 DEF StoreInv, TypeOK
  <2> QED BY <1>1, <1>2, <1>3, <2>1, <2>2 DEF StoreInv, TypeOK, LoginType, KeyType
<1>5. Issued'
  BY <1>1, <1>2 DEF StoreInv, Issued
<1>6. \A t \in kept' : /\ login'[t].account = login[t].account /\ login'[t].until = login[t].until
                       /\ login[t].state \in {"live", "out"} => login'[t].state \in {"live", "out"}
  BY <1>2, <1>3 DEF StoreInv, TypeOK
<1>7. KeptInv'
  BY <1>3, <1>6, KeptStable DEF StoreInv
<1> QED BY <1>4, <1>5, <1>7 DEF StoreInv

(* An account's secret changes and its key is deleted. *)
LEMMA ResetStep ==
    ASSUME StoreInv, NEW a \in Account, ResetOTP(a), Watch
    PROVE  StoreInv'
<1>1. UNCHANGED <<now, login, resolver, window, pc, req>> /\ DeleteOTPSecret(a)
  BY DEF ResetOTP
<1>2. enrolled' \in [Account -> MaybeSecret]
  BY DEF ResetOTP, StoreInv, TypeOK
<1>3. resets' \in 0..MaxResets
  <2>1. resets \in 0..MaxResets /\ resets < MaxResets /\ resets' = resets + 1
    BY DEF ResetOTP, StoreInv, TypeOK
  <2> QED BY <2>1, Numbers
<1>4. /\ store' \in [Account -> KeyType]
      /\ kept' \subseteq kept
      /\ \A t \in kept' : store'[login[t].account] = store[login[t].account]
  BY <1>1, DeleteKeeps
<1>5. TypeOK'
  <2>1. seen' \in [Req -> SUBSET (Resolver \cup {"cookie"})]
    BY <1>1, WatchTyped DEF StoreInv, TypeOK
  <2>2. kept' \subseteq Session
    BY <1>4 DEF StoreInv, TypeOK
  <2> QED BY <1>1, <1>2, <1>3, <1>4, <2>1, <2>2 DEF StoreInv, TypeOK, KeyType
<1>6. Issued' /\ KeptInv'
  BY <1>1, <1>4, KeptStable DEF StoreInv, Issued
<1> QED BY <1>5, <1>6 DEF StoreInv

(* A login for an account, or for none. *)
LEMMA SignInStep ==
    ASSUME StoreInv, NEW s \in Session, SignIn(s), Watch
    PROVE  StoreInv'
<1>1. UNCHANGED <<now, enrolled, resets, store, kept, resolver, window, pc, req>>
  BY DEF SignIn
<1>2. PICK a \in Account \cup {NoAccount} :
        login' = [login EXCEPT ![s] =
            [state |-> "signed", account |-> a, until |-> now + Lifetime, os |-> NoSecret,
             read |-> IF a = NoAccount THEN NoSecret ELSE enrolled[a]]]
  BY DEF SignIn
<1>3. now + Lifetime \in Nat
  <2>1. now \in 0..MaxTime
    BY DEF StoreInv, TypeOK
  <2> QED BY <2>1, Numbers
<1>4. login' \in [Session -> LoginType]
  BY <1>2, <1>3, Typed DEF StoreInv, LoginType, MaybeSecret
<1>5. TypeOK'
  BY <1>1, <1>4, WatchTyped, Typed DEF StoreInv, TypeOK, LoginType
<1>6. s \notin kept /\ \A t \in Session : t # s => login'[t] = login[t]
  BY <1>2 DEF SignIn, StoreInv, TypeOK, KeptInv
<1>7. Issued'
  <2>1. login'[s].until = now + Lifetime
    BY <1>2 DEF StoreInv, TypeOK
  <2>2. now + Lifetime <= now + Lifetime
    BY <1>3
  <2> QED BY <1>1, <1>6, <2>1, <2>2 DEF StoreInv, Issued
<1>8. kept \subseteq Session
  BY DEF StoreInv, TypeOK
<1>9. KeptInv'
  BY <1>1, <1>6, <1>8, KeptStable DEF StoreInv
<1> QED BY <1>5, <1>7, <1>9 DEF StoreInv

(* A request that got an answer of the resolver or of the cookie. *)
LEMMA SecretSet ==
    ASSUME req \in [Req -> ReqType], NEW r \in Req, NEW x \in MaybeSecret,
           req' = [req EXCEPT ![r].secret = x]
    PROVE  /\ req' \in [Req -> ReqType]
           /\ \A t \in Req : req'[t].session = req[t].session
BY DEF ReqType

(* What a request does leaves the service alone. *)
LEMMA RequestTyped ==
    ASSUME TypeOK, Presented, NEW r \in Req, Present(r) \/ Lookup(r) \/ Legacy(r) \/ Validate(r)
    PROVE  /\ UNCHANGED svc
           /\ pc' \in [Req -> {"idle", "lookup", "legacy", "validate", "passed", "refused"}]
           /\ req' \in [Req -> ReqType]
           /\ Presented'
<1> USE DEF Presented
<1>1. CASE Present(r)
  <2>1. PICK x \in Session, code \in MaybeSecret :
          /\ req' = [req EXCEPT ![r] = [session |-> x, code |-> code, via |-> resolver, secret |-> NoSecret]]
          /\ pc' = [pc EXCEPT ![r] = IF code = NoSecret \/ now >= login[x].until THEN "refused" ELSE "lookup"]
    BY <1>1 DEF Present
  <2> QED BY <1>1, <2>1 DEF Present, TypeOK, ReqType, MaybeSecret
<1>2. CASE Lookup(r)
  <2>1. AccountOf(r) \in Account \cup {NoAccount}
    BY <1>2, Typed DEF Lookup, AccountOf, LoginType
  <2>2. Answer(req[r].via, AccountOf(r)) \in MaybeSecret
    BY <2>1 DEF Answer, Held, TypeOK, MaybeSecret
  <2>3. PICK found \in MaybeSecret :
           /\ req' = [req EXCEPT ![r].secret = found]
           /\ pc' = [pc EXCEPT ![r] = IF found # NoSecret THEN "validate" ELSE "legacy"]
    <3>1. NoSecret \in MaybeSecret
      BY DEF MaybeSecret
    <3> QED BY <1>2, <2>2, <3>1 DEF Lookup
  <2>4. UNCHANGED svc /\ pc[r] = "lookup"
    BY <1>2 DEF Lookup
  <2>5. pc' \in [Req -> {"idle", "lookup", "legacy", "validate", "passed", "refused"}]
    BY <2>3 DEF TypeOK
  <2>6. req' \in [Req -> ReqType]
    BY <2>3, SecretSet, Typed
  <2>7. Presented'
    <3>1. \A q \in Req : req'[q].session = req[q].session
      BY <2>3, SecretSet, Typed
    <3>2. \A q \in Req : pc'[q] # "idle" => pc[q] # "idle"
      BY <2>3, <2>4 DEF TypeOK
    <3> QED BY <3>1, <3>2
  <2> QED BY <2>4, <2>5, <2>6, <2>7
<1>3. CASE Legacy(r)
  <2>1. req[r].session \in Session /\ UNCHANGED svc
    BY <1>3 DEF Legacy
  <2>2. login[req[r].session].os \in MaybeSecret
    BY <2>1, Typed DEF LoginType
  <2>3. CASE /\ req' = [req EXCEPT ![r].secret = login[req[r].session].os]
             /\ pc' = [pc EXCEPT ![r] = "validate"]
    <3>1. /\ req' \in [Req -> ReqType]
          /\ \A q \in Req : req'[q].session = req[q].session
      BY <2>2, <2>3, SecretSet, Typed
    <3>2. /\ pc' \in [Req -> {"idle", "lookup", "legacy", "validate", "passed", "refused"}]
          /\ \A q \in Req : pc'[q] # "idle" => pc[q] # "idle"
      BY <1>3, <2>3 DEF Legacy, TypeOK
    <3> QED BY <2>1, <3>1, <3>2
  <2>4. CASE pc' = [pc EXCEPT ![r] = "refused"] /\ UNCHANGED req
    BY <2>1, <2>4 DEF TypeOK, ReqType
  <2> QED BY <1>3, <2>3, <2>4 DEF Legacy
<1>4. CASE Validate(r)
  BY <1>4 DEF Validate, TypeOK, ReqType
<1> QED BY <1>1, <1>2, <1>3, <1>4

(* A clock tick only moves a horizon away. *)
LEMMA LaterStill ==
  ASSUME NEW u \in Nat, NEW n \in Nat, NEW m, NEW d \in Nat, m = n + 1, u <= n + d
  PROVE  u <= m + d
OBVIOUS

(* Every step of the service or of a request keeps the stored secrets. *)
LEMMA StoreStep == TtlIsLifetime /\ StoreInv /\ Presented /\ [Next]_vars => StoreInv' /\ Presented'
<1> SUFFICES ASSUME TtlIsLifetime, StoreInv, Presented, [Next]_vars PROVE StoreInv' /\ Presented'
    OBVIOUS
<1>1. CASE UNCHANGED vars
  BY <1>1 DEF vars, StoreInv, TypeOK, Issued, KeptInv, Presented
<1>2. ASSUME Watch, UNCHANGED <<pc, req>>, StoreInv' PROVE StoreInv' /\ Presented'
  BY <1>2 DEF Presented
<1>3. CASE Tick /\ Watch
  <2>1. /\ now' \in 0..MaxTime /\ now' + Lifetime >= now + Lifetime
    <3>1. now \in 0..MaxTime /\ now < MaxTime /\ now' = now + 1
      BY <1>3 DEF Tick, StoreInv, TypeOK
    <3> QED BY <3>1, Numbers
  <2>2. UNCHANGED <<enrolled, resets, store, login, kept, resolver, window, pc, req>>
    BY <1>3 DEF Tick
  <2>3. TypeOK'
    BY <1>3, <2>1, <2>2, WatchTyped DEF StoreInv, TypeOK
  <2>4. Issued'
    <3>1. now \in Nat /\ now' = now + 1 /\ Lifetime \in Nat
      <4>1. now \in 0..MaxTime
        BY DEF StoreInv, TypeOK
      <4>2. now \in Nat
        BY <4>1
      <4>3. now' = now + 1
        BY <1>3 DEF Tick
      <4> QED BY <4>2, <4>3, Numbers
    <3>2. \A s \in Session : login[s].until \in Nat /\ login[s].until <= now + Lifetime
      BY DEF StoreInv, Issued, TypeOK
    <3>3. \A s \in Session : login[s].until <= now' + Lifetime
      BY <3>1, <3>2, LaterStill
    <3> QED BY <2>2, <3>2, <3>3 DEF Issued
  <2>5. KeptInv'
    BY <2>2 DEF StoreInv, KeptInv
  <2> QED BY <1>2, <1>3, <2>2, <2>3, <2>4, <2>5 DEF StoreInv
<1>4. CASE (SetOTPSecretResolver \/ CloseWindow) /\ Watch
  <2>1. /\ UNCHANGED <<now, enrolled, resets, store, login, kept, pc, req>>
        /\ resolver' \in Resolver /\ window' \in BOOLEAN
    BY <1>4 DEF SetOTPSecretResolver, CloseWindow, StoreInv, TypeOK
  <2>2. TypeOK'
    BY <1>4, <2>1, WatchTyped DEF StoreInv, TypeOK
  <2>3. Issued' /\ KeptInv'
    BY <2>1 DEF StoreInv, Issued, KeptInv
  <2> QED BY <1>2, <1>4, <2>1, <2>2, <2>3 DEF StoreInv
<1>5. ASSUME NEW s \in Session, SignIn(s), Watch PROVE StoreInv' /\ Presented'
  BY <1>2, <1>5, SignInStep DEF SignIn
<1>6. ASSUME NEW s \in Session, SaveOTPSecret(s), Watch PROVE StoreInv' /\ Presented'
  BY <1>2, <1>6, SaveStep DEF SaveOTPSecret
<1>7. ASSUME NEW s \in Session, Logout(s), Watch PROVE StoreInv' /\ Presented'
  BY <1>2, <1>7, LogoutStep DEF Logout
<1>8. ASSUME NEW a \in Account, ResetOTP(a), Watch PROVE StoreInv' /\ Presented'
  BY <1>2, <1>8, ResetStep DEF ResetOTP
<1>9. ASSUME NEW r \in Req, Present(r) \/ Lookup(r) \/ Legacy(r) \/ Validate(r), Watch
      PROVE  StoreInv' /\ Presented'
  <2>1. /\ UNCHANGED svc /\ Presented'
        /\ pc' \in [Req -> {"idle", "lookup", "legacy", "validate", "passed", "refused"}]
        /\ req' \in [Req -> ReqType]
    BY <1>9, RequestTyped DEF StoreInv
  <2>2. TypeOK'
    BY <1>9, <2>1, WatchTyped DEF StoreInv, TypeOK, ReqType, svc
  <2>3. Issued' /\ KeptInv'
    BY <2>1 DEF StoreInv, Issued, KeptInv, svc
  <2> QED BY <2>1, <2>2, <2>3 DEF StoreInv
<1> QED BY <1>1, <1>3, <1>4, <1>5, <1>6, <1>7, <1>8, <1>9, Zenon DEF Next, Step

-----------------------------------------------------------------------------
(* What a request passes with. *)

(* The history follows the offers of every running request. *)
LEMMA Watched ==
    ASSUME TypeOK, Watch, NEW r \in Req
    PROVE  /\ seen[r] \subseteq seen'[r]
           /\ Running(r)' => Offered(r)' \subseteq seen'[r]
           /\ ~Running(r)' => seen'[r] = seen[r]
BY DEF Watch, TypeOK

(* A step keeps what backs a request whose resolver stays. *)
LEMMA BackedStays ==
    ASSUME TypeOK, Watch, NEW r \in Req, Backed(r), req'[r].via = req[r].via
    PROVE  Backed(r)'
BY Watched DEF Backed

(* What backs a request stays while another one moves. *)
LEMMA UntouchedStays ==
    ASSUME TypeOK, ReqInv, Watch, NEW r \in Req, pc'[r] = pc[r], req'[r] = req[r]
    PROVE  /\ Running(r)' => req'[r].code # NoSecret /\ Offered(r)' \subseteq seen'[r]
           /\ pc'[r] = "validate" /\ req'[r].secret = req'[r].code => Backed(r)'
           /\ pc'[r] = "passed" => req'[r].code # NoSecret /\ Backed(r)'
<1>1. Backed(r) => Backed(r)'
  BY BackedStays
<1>2. Running(r)' => Running(r)
  BY DEF Running
<1>3. Running(r)' => Offered(r)' \subseteq seen'[r]
  BY Watched
<1> QED BY <1>1, <1>2, <1>3 DEF ReqInv

(* A request arrives with a session's cookie and a code: nothing is backed yet. *)
LEMMA PresentBacked ==
    ASSUME StoreInv, Presented, ReqInv, NEW r \in Req, Present(r), Watch
    PROVE  ReqInv'
<1>1. PICK x \in Session, code \in MaybeSecret :
        /\ req' = [req EXCEPT ![r] = [session |-> x, code |-> code, via |-> resolver, secret |-> NoSecret]]
        /\ pc' = [pc EXCEPT ![r] = IF code = NoSecret \/ now >= login[x].until THEN "refused" ELSE "lookup"]
  BY DEF Present
<1>2. req'[r].code = code /\ pc'[r] = (IF code = NoSecret \/ now >= login[x].until THEN "refused" ELSE "lookup")
  BY <1>1 DEF StoreInv, TypeOK
<1>3. Running(r)' => Offered(r)' \subseteq seen'[r]
  BY Watched DEF StoreInv
<1>4. Running(r)' => req'[r].code # NoSecret
  BY <1>2 DEF Running
<1>5. pc'[r] \notin {"validate", "passed"}
  BY <1>2
<1>6. \A q \in Req : q # r => pc'[q] = pc[q] /\ req'[q] = req[q]
  BY <1>1 DEF StoreInv, TypeOK
<1> QED BY <1>3, <1>4, <1>5, <1>6, UntouchedStays DEF ReqInv, StoreInv

(* The resolver's answer is what it offers at that moment. *)
LEMMA LookupBacked ==
    ASSUME StoreInv, Presented, ReqInv, NEW r \in Req, Lookup(r), Watch
    PROVE  ReqInv'
<1>1. PICK found :
        /\ found \in {Answer(req[r].via, AccountOf(r)), NoSecret}
        /\ req' = [req EXCEPT ![r].secret = found]
        /\ pc' = [pc EXCEPT ![r] = IF found # NoSecret THEN "validate" ELSE "legacy"]
  BY DEF Lookup
<1>2. /\ req'[r].code = req[r].code /\ req'[r].via = req[r].via /\ req'[r].secret = found
      /\ pc'[r] = (IF found # NoSecret THEN "validate" ELSE "legacy")
  BY <1>1 DEF StoreInv, TypeOK
<1>3. req[r].code # NoSecret /\ Offered(r) \subseteq seen[r]
  BY DEF Lookup, ReqInv, Running
<1>4. found = req[r].code => Backed(r)
  <2>1. SUFFICES ASSUME found = req[r].code PROVE Backed(r)
    OBVIOUS
  <2>2. req[r].via \in Resolver /\ Answer(req[r].via, AccountOf(r)) = req[r].code
    BY <1>1, <1>3, <2>1 DEF StoreInv, TypeOK
  <2>3. req[r].via \in Offered(r)
    BY <2>2 DEF Offered
  <2> QED BY <1>3, <2>3 DEF Backed
<1>5. Backed(r) => Backed(r)'
  BY <1>2, BackedStays DEF StoreInv
<1>6. Running(r)' => Offered(r)' \subseteq seen'[r]
  BY Watched DEF StoreInv
<1>7. pc'[r] # "passed"
  BY <1>2
<1>8. \A q \in Req : q # r => pc'[q] = pc[q] /\ req'[q] = req[q]
  BY <1>1 DEF StoreInv, TypeOK
<1> QED BY <1>2, <1>3, <1>4, <1>5, <1>6, <1>7, <1>8, UntouchedStays DEF ReqInv, StoreInv

(* The cookie's own secret is what the cookie offers. *)
LEMMA LegacyBacked ==
    ASSUME StoreInv, Presented, ReqInv, NEW r \in Req, Legacy(r), Watch
    PROVE  ReqInv'
<1> DEFINE os == login[req[r].session].os
<1>1. req[r].code # NoSecret /\ Offered(r) \subseteq seen[r]
  BY DEF Legacy, ReqInv, Running
<1>2. Running(r)' => Offered(r)' \subseteq seen'[r]
  BY Watched DEF StoreInv
<1>3. \A q \in Req : q # r => pc'[q] = pc[q] /\ req'[q] = req[q]
  BY DEF Legacy, StoreInv, TypeOK
<1>4. CASE /\ window
           /\ req' = [req EXCEPT ![r].secret = os]
           /\ pc' = [pc EXCEPT ![r] = "validate"]
  <2>1. /\ req'[r].code = req[r].code /\ req'[r].via = req[r].via /\ req'[r].secret = os
        /\ pc'[r] = "validate"
    BY <1>4 DEF StoreInv, TypeOK
  <2>2. os = req[r].code => "cookie" \in Offered(r)
    BY <1>4 DEF Offered
  <2>3. os = req[r].code => Backed(r)
    BY <1>1, <2>2 DEF Backed
  <2>4. Backed(r) => Backed(r)'
    BY <2>1, BackedStays DEF StoreInv
  <2> QED BY <1>1, <1>2, <1>3, <2>1, <2>3, <2>4, UntouchedStays DEF ReqInv, StoreInv
<1>5. CASE pc' = [pc EXCEPT ![r] = "refused"]
  <2>1. pc'[r] = "refused" /\ ~Running(r)'
    BY <1>5 DEF StoreInv, TypeOK, Running
  <2> QED BY <1>3, <2>1, UntouchedStays DEF ReqInv, StoreInv
<1> QED BY <1>4, <1>5 DEF Legacy, MayUseLegacy

(* A request that passes compared a backed secret with its code. *)
LEMMA ValidateBacked ==
    ASSUME StoreInv, Presented, ReqInv, NEW r \in Req, Validate(r), Watch
    PROVE  ReqInv'
<1>1. /\ pc[r] = "validate" /\ req' = req
      /\ pc' = [pc EXCEPT ![r] = IF req[r].code = req[r].secret THEN "passed" ELSE "refused"]
  BY DEF Validate, Accepts
<1>2. /\ pc'[r] \in {"passed", "refused"}
      /\ pc'[r] = "passed" => req[r].secret = req[r].code
      /\ \A q \in Req : q # r => pc'[q] = pc[q]
  BY <1>1 DEF StoreInv, TypeOK
<1>3. ~Running(r)'
  BY <1>2 DEF Running
<1>4. req[r].code # NoSecret /\ (pc'[r] = "passed" => Backed(r))
  BY <1>1, <1>2 DEF ReqInv, Running
<1>5. Backed(r) => Backed(r)'
  BY <1>1, BackedStays DEF StoreInv
<1> QED BY <1>1, <1>2, <1>3, <1>4, <1>5, UntouchedStays DEF ReqInv, StoreInv

(* Every step keeps every request backed. *)
LEMMA ReqStep == StoreInv /\ Presented /\ ReqInv /\ [Next]_vars => ReqInv'
<1> SUFFICES ASSUME StoreInv, Presented, ReqInv, [Next]_vars PROVE ReqInv'
    OBVIOUS
<1>1. CASE UNCHANGED vars
  <2>1. \A r \in Req : (Running(r)' <=> Running(r)) /\ Offered(r)' = Offered(r) /\ (Backed(r)' <=> Backed(r))
    BY <1>1 DEF vars, Running, Offered, Answer, Held, AccountOf, Backed
  <2>2. UNCHANGED <<pc, req, seen>>
    BY <1>1 DEF vars
  <2> QED BY <2>1, <2>2 DEF ReqInv
<1>2. CASE Watch /\ UNCHANGED <<pc, req>>
  BY <1>2, UntouchedStays DEF ReqInv, StoreInv
<1>3. CASE Next
  <2>1. Watch
    BY <1>3 DEF Next
  <2>2. CASE UNCHANGED <<pc, req>>
    BY <1>2, <2>1, <2>2
  <2>3. ASSUME NEW r \in Req, Present(r) \/ Lookup(r) \/ Legacy(r) \/ Validate(r) PROVE ReqInv'
    BY <2>1, <2>3, PresentBacked, LookupBacked, LegacyBacked, ValidateBacked
  <2>4. UNCHANGED <<pc, req>> \/ \E r \in Req : Present(r) \/ Lookup(r) \/ Legacy(r) \/ Validate(r)
    BY <1>3 DEF Next, Step, Tick, SetOTPSecretResolver, CloseWindow, SignIn, SaveOTPSecret, Logout, ResetOTP
  <2> QED BY <2>2, <2>3, <2>4
<1> QED BY <1>1, <1>3

-----------------------------------------------------------------------------
(* No request has arrived yet. *)
LEMMA RequestInit == Init => Presented /\ ReqInv
BY DEF Init, Presented, ReqInv, Running

(* The inductive invariant: the types, the keys that sessions count on, and *)
(* what each running request has been offered.                              *)
IInv == StoreInv /\ Presented /\ ReqInv

(* The inductive invariant holds in every reachable state. *)
THEOREM FactorInvariant == ASSUME TtlIsLifetime PROVE Spec => []IInv
<1>1. Init => IInv
  BY StoreInit, RequestInit DEF IInv
<1>2. IInv /\ [Next]_vars => IInv'
  BY TtlIsLifetime, StoreStep, ReqStep DEF IInv
<1> QED BY <1>1, <1>2, PTL DEF Spec

(* Every part of the second factor keeps its type (otp.go, jwt.go). *)
THEOREM FactorTyped == ASSUME TtlIsLifetime PROVE Spec => []TypeOK
<1>1. IInv => TypeOK
  BY DEF IInv, StoreInv
<1> QED BY <1>1, FactorInvariant, PTL

(* A request passes only on a secret that its own account's resolver, or   *)
(* its own cookie, offered while it ran (SecondValidateMiddleware).        *)
THEOREM FactorOwnSecret == ASSUME TtlIsLifetime PROVE Spec => []PassedOnOwnSecret
<1>1. IInv => PassedOnOwnSecret
  BY DEF IInv, ReqInv, Backed, PassedOnOwnSecret
<1> QED BY <1>1, FactorInvariant, PTL

(* Logins of one account never shorten each other's secret (SaveOTPSecret). *)
THEOREM FactorKeepsSecret == ASSUME TtlIsLifetime PROVE Spec => []SessionKeepsSecret
<1>1. IInv => SessionKeepsSecret
  <2> SUFFICES ASSUME IInv, NEW s \in kept, now < login[s].until
               PROVE  Held(login[s].account) # NoSecret
    BY DEF SessionKeepsSecret
  <2> DEFINE a == login[s].account
  <2>1. /\ a \in Account /\ store[a].value # NoSecret
        /\ store[a].until = 0 \/ login[s].until <= store[a].until
    BY DEF IInv, StoreInv, KeptInv
  <2>2. now \in Int /\ login[s].until \in Int /\ store[a].until \in Int
    <3>1. s \in Session /\ now \in 0..MaxTime
      BY DEF IInv, StoreInv, TypeOK
    <3>2. login[s].until \in Nat /\ store[a].until \in 0..(MaxTime + Lifetime)
      BY <2>1, <3>1, Typed DEF IInv, StoreInv, LoginType, KeyType
    <3> QED BY <3>1, <3>2, Numbers
  <2>3. store[a].until = 0 \/ now < store[a].until
    BY <2>1, <2>2
  <2> QED BY <2>1, <2>3 DEF Held
<1> QED BY <1>1, FactorInvariant, PTL

=============================================================================
