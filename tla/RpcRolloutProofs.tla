-------------------------- MODULE RpcRolloutProofs --------------------------
(***************************************************************************)
(* Proofs about the rollout of the token between services, for any number  *)
(* of services and calls.  That nobody is rejected is not inductive by     *)
(* itself: a rejection depends on the caller's configuration when the call *)
(* was sent and on the callee's when it arrives.  Settled relates the two: *)
(* unless every window is open, all services use one token, and so does    *)
(* every call under way.                                                   *)
(***************************************************************************)
EXTENDS RpcRollout, TLAPS

(* A call in Token carries nothing in X-Internal-Token. *)
OneHeader == \A c \in Call : call[c].token \in {Old, New} => call[c].internal = NoToken

(* Every service uses the token k, every call under way presents it, and no *)
(* service has found another one.                                           *)
Uniform(k) ==
    /\ \A s \in Service : InternalToken(s) = k
    /\ \A c \in Call : call[c].state # "doubted" /\ (call[c].state = "sent" => Presented(c) = k)

Settled ==
    \/ \A s \in Service : allow[s]
    \/ (\A s \in Service : auth[s] # New) /\ Uniform(Old)
    \/ (\A s \in Service : auth[s] = New) /\ Uniform(New)

IInv == TypeOK /\ OneHeader /\ Settled /\ NobodyRejected

USE RpcRolloutAssumption DEF NoToken, Nowhere

LEMMA InitInvariant == Init => IInv
<1> SUFFICES ASSUME Init PROVE IInv
    OBVIOUS
<1>1. TypeOK /\ OneHeader /\ NobodyRejected
    BY DEF Init, TypeOK, OneHeader, NobodyRejected, NoCall
<1>2. Settled
    <2>1. PICK open \in BOOLEAN : allow = [s \in Service |-> open]
        BY DEF Init
    <2>2. CASE open
        BY <2>1, <2>2 DEF Settled
    <2>3. CASE ~open
        BY <2>1, <2>3 DEF Init, Settled, Uniform, NoCall
    <2> QED
        BY <2>2, <2>3
<1> QED
    BY <1>1, <1>2 DEF IInv

LEMMA TypeStep == IInv /\ [Next]_vars => TypeOK' /\ OneHeader'
<1> SUFFICES ASSUME IInv, [Next]_vars PROVE TypeOK' /\ OneHeader'
    OBVIOUS
<1> USE DEF IInv, TypeOK, OneHeader
<1>1. ASSUME NEW s \in Service, OpenWindow(s) PROVE TypeOK' /\ OneHeader'
    BY <1>1 DEF OpenWindow
<1>2. ASSUME NEW s \in Service, SetAuthToken(s) PROVE TypeOK' /\ OneHeader'
    BY <1>2 DEF SetAuthToken
<1>3. ASSUME NEW s \in Service, CloseWindow(s) PROVE TypeOK' /\ OneHeader'
    BY <1>3 DEF CloseWindow
<1>4. ASSUME NEW c \in Call, NEW s \in Service, Send(c, s) PROVE TypeOK' /\ OneHeader'
    <2>1. InternalToken(s) \in {Old, New, NoToken}
        BY DEF InternalToken
    <2> QED
        <3>1. PICK older \in BOOLEAN, carried \in {NoToken, Other} :
                 call' = [call EXCEPT ![c] =
                    [state |-> "sent",
                     internal |-> IF older THEN NoToken ELSE InternalToken(s),
                     token |-> IF older THEN InternalToken(s) ELSE carried, at |-> Nowhere]]
            BY <1>4 DEF Send, InternalHeader
        <3>2. call'[c] \in [state : {"none", "sent", "doubted", "accepted", "rejected"},
                           internal : {Old, New, NoToken}, token : {Old, New, Other, NoToken},
                           at : Service \cup {Nowhere}]
            BY <2>1, <3>1
        <3>3. TypeOK'
            BY <1>4, <3>1, <3>2 DEF Send, config
        <3>4. call'[c].token \in {Old, New} => call'[c].internal = NoToken
            BY <3>1
        <3> QED
            BY <3>1, <3>3, <3>4
<1>5. ASSUME NEW c \in Call, NEW s \in Service, Receive(c, s) PROVE TypeOK' /\ OneHeader'
    BY <1>5 DEF Receive, config
<1>6. ASSUME NEW c \in Call, NEW s \in Service, ReadWindow(c, s) PROVE TypeOK' /\ OneHeader'
    BY <1>6 DEF ReadWindow, config
<1>7. CASE UNCHANGED vars
    BY <1>7 DEF vars
<1> QED
    BY <1>1, <1>2, <1>3, <1>4, <1>5, <1>6, <1>7 DEF Next

LEMMA SettledStep == IInv /\ [Next]_vars => Settled' /\ NobodyRejected'
<1> SUFFICES ASSUME IInv, [Next]_vars PROVE Settled' /\ NobodyRejected'
    OBVIOUS
<1> USE DEF IInv, Settled, NobodyRejected
<1>1. ASSUME NEW s \in Service, OpenWindow(s) PROVE Settled' /\ NobodyRejected'
    <2>1. (\A t \in Service : auth[t] # New) /\ Uniform(Old)
        BY <1>1 DEF OpenWindow
    <2> QED
        BY <1>1, <2>1 DEF OpenWindow, Uniform, InternalToken, Presented
<1>2. ASSUME NEW s \in Service, SetAuthToken(s) PROVE Settled' /\ NobodyRejected'
    BY <1>2 DEF SetAuthToken
<1>3. ASSUME NEW s \in Service, CloseWindow(s) PROVE Settled' /\ NobodyRejected'
    <2>1. \A t \in Service : InternalToken(t) = New
        BY <1>3 DEF CloseWindow, InternalToken
    <2>2. \A c \in Call : call[c].state = "sent" => Presented(c) = New
        BY <1>3 DEF CloseWindow, Presented, OneHeader, TypeOK
    <2> QED
        BY <1>3, <2>1, <2>2 DEF CloseWindow, Uniform, InternalToken, Presented
<1>4. ASSUME NEW c \in Call, NEW s \in Service, Send(c, s) PROVE Settled' /\ NobodyRejected'
    <2>0. PICK older \in BOOLEAN, carried \in {NoToken, Other} :
                 call' = [call EXCEPT ![c] =
                    [state |-> "sent",
                     internal |-> IF older THEN NoToken ELSE InternalToken(s),
                     token |-> IF older THEN InternalToken(s) ELSE carried, at |-> Nowhere]]
        BY <1>4 DEF Send, InternalHeader
    <2>a. /\ call'[c].state = "sent"
          /\ call'[c].internal = IF older THEN NoToken ELSE InternalToken(s)
          /\ call'[c].token = IF older THEN InternalToken(s) ELSE carried
          /\ \A d \in Call \ {c} : call'[d] = call[d]
        BY <2>0 DEF TypeOK
    <2>1. NobodyRejected'
        BY <2>a
    <2>2. ASSUME NEW k \in {Old, New}, Uniform(k) PROVE Uniform(k)'
        <3>1. InternalToken(s) = k
            BY <2>2 DEF Uniform
        <3>2. Presented(c)' = k
            BY <2>a, <3>1 DEF Presented
        <3>3. \A d \in Call \ {c} : call'[d].state = call[d].state /\ Presented(d)' = Presented(d)
            <4> TAKE d \in Call \ {c}
            <4>1. call'[d] = call[d]
                BY <2>a
            <4> QED
                BY <4>1 DEF Presented
        <3>4. \A t \in Service : InternalToken(t)' = InternalToken(t)
            BY <1>4 DEF Send, config, InternalToken
        <3>5. ASSUME NEW d \in Call, call'[d].state = "sent" PROVE Presented(d)' = k
            BY <2>2, <3>2, <3>3, <3>5 DEF Uniform
        <3>6. \A d \in Call : call'[d].state # "doubted"
            BY <2>2, <2>a, <3>3 DEF Uniform
        <3> QED
            BY <2>2, <3>4, <3>5, <3>6 DEF Uniform
    <2> QED
        BY <1>4, <2>1, <2>2 DEF Send, config
<1>5. ASSUME NEW c \in Call, NEW s \in Service, Receive(c, s) PROVE Settled' /\ NobodyRejected'
    <2>1. NobodyRejected' /\ UNCHANGED config
        BY <1>5 DEF Receive, TypeOK
    <2>2. ASSUME NEW k \in {Old, New}, Uniform(k) PROVE Uniform(k)'
        <3>1. ValidInternalToken(s, Presented(c))
            BY <1>5, <2>2 DEF Uniform, Receive, ValidInternalToken
        <3>2. call' = [call EXCEPT ![c].state = "accepted"]
            BY <1>5, <3>1 DEF Receive
        <3> QED
            BY <2>1, <2>2, <3>2 DEF Uniform, Presented, InternalToken, config, TypeOK
    <2> QED
        BY <2>1, <2>2 DEF config
<1>6. ASSUME NEW c \in Call, NEW s \in Service, ReadWindow(c, s) PROVE Settled' /\ NobodyRejected'
    <2>1. \A t \in Service : allow[t]
        BY <1>6 DEF ReadWindow, Uniform
    <2>2. call' = [call EXCEPT ![c].state = "accepted"] /\ UNCHANGED config
        BY <1>6, <2>1 DEF ReadWindow, AllowUnauthenticated
    <2> QED
        BY <2>1, <2>2 DEF TypeOK, config
<1>7. CASE UNCHANGED vars
    BY <1>7 DEF vars, Uniform, InternalToken, Presented
<1> QED
    BY <1>1, <1>2, <1>3, <1>4, <1>5, <1>6, <1>7 DEF Next

(* The inductive invariant holds throughout the rollout. *)
THEOREM RolloutInvariant == Spec => []IInv
<1>1. IInv /\ [Next]_vars => IInv'
    BY TypeStep, SettledStep DEF IInv
<1> QED
    BY InitInvariant, <1>1, PTL DEF Spec

(* Every part of the rollout keeps its type. *)
THEOREM RolloutTyped == Spec => []TypeOK
<1>1. IInv => TypeOK
    BY DEF IInv
<1> QED
    BY RolloutInvariant, <1>1, PTL

(* No call between services is rejected while the token changes, however *)
(* many services and calls there are (RPCAuthMiddleware).                *)
THEOREM RolloutRejectsNobody == Spec => []NobodyRejected
<1>1. IInv => NobodyRejected
    BY DEF IInv
<1> QED
    BY RolloutInvariant, <1>1, PTL

=============================================================================
